-------------------------- MODULE RaftRedisProofs --------------------------
(***************************************************************************)
(* Leadership, the lock and the log in RaftRedis for any number of nodes,   *)
(* terms and calls.                                                         *)
(***************************************************************************)
EXTENDS RaftRedis, SequenceTheorems, FiniteSetTheorems, TLAPS

\* What stands in a node's lock queue: its own claim, or calls it runs, of
\* which only the first may have its RPUSH out.
QueueContent ==
  \A n \in Nodes : \A i \in 1 .. Len(lockq[n]) :
    /\ lockq[n][i] = Claim => beat[n] = "claim"
    /\ lockq[n][i] # Claim =>
         /\ at[lockq[n][i]] = n
         /\ \/ append[lockq[n][i]] = "wait"
            \/ i = 1 /\ append[lockq[n][i]] \in {"rpush", "answered"}

\* A call that has begun, and one with an RPUSH on its way, has a node.
Located ==
  \A r \in Requests :
    append[r] # "new" \/ (\E t \in 1 .. 2 : <<r, t>> \in wire) => at[r] \in Nodes

\* The inductive invariant behind TypeOK and LockDiscipline.
LockInv == TypeOK /\ Located /\ QueueContent /\ LockDiscipline

\* A node that is announcing a leader has one.  With TypeOK it makes
\* LeadershipClaimed inductive.
AnnouncesSomeone == \A n \in Nodes : beat[n] = "post" => leader[n] # None

\* An elected node, in TimeoutClaim or after the wait for its lock.
LEMMA BecomeLeaderTypes ==
  ASSUME TypeOK, NEW n \in Nodes, BecomeLeader(n)
  PROVE  /\ leader' \in [Nodes -> Nodes \cup {None}]
         /\ term' \in [Nodes -> Nat]
         /\ beat' \in [Nodes -> {"idle", "claim", "post"}]
         /\ left' \in [Nodes -> Seq(Nodes)]
         /\ claims' \in SUBSET (Nodes \X Nat)
<1>1. Peers[n] \in Seq(Nodes)
  BY PeersAssumption, SeqMonotonic
<1>2. QED
  BY <1>1 DEF BecomeLeader, TypeOK

\* The RPUSH of one call.
LEMMA PushTypes ==
  ASSUME TypeOK, NEW r \in Requests, NEW n \in Nodes, Push(r, n)
  PROVE  /\ append' \in [Requests -> AppendStates]
         /\ stamp' \in [Requests -> Nat]
         /\ try' \in [Requests -> 0 .. 2]
         /\ wire' \in SUBSET (Requests \X (1 .. 2))
BY DEF Push, TypeOK, AppendStates

\* A queue of tasks keeps its type when one joins or the first leaves.
LEMMA LockqTypes ==
  ASSUME TypeOK, NEW n \in Nodes
  PROVE  /\ \A t \in Requests \cup {Claim} :
              [lockq EXCEPT ![n] = Append(@, t)]
                \in [Nodes -> Seq(Requests \cup {Claim})]
         /\ lockq[n] # << >> => [lockq EXCEPT ![n] = Tail(@)]
                                  \in [Nodes -> Seq(Requests \cup {Claim})]
BY DEF TypeOK

-----------------------------------------------------------------------------

LEMMA TypeInit == Init => TypeOK
BY DEF Init, TypeOK, AppendStates

Tasks == Requests \cup {Claim}

\* A task that was not queued joins.
LEMMA Join ==
  ASSUME NEW q \in Seq(Tasks), NEW t \in Tasks, NoRepeat(q), ~Queued(q, t)
  PROVE  /\ Append(q, t) \in Seq(Tasks) /\ Append(q, t) # << >>
         /\ NoRepeat(Append(q, t))
         /\ Queued(Append(q, t), t)
         /\ \A u : Queued(q, u) => Queued(Append(q, t), u)
         /\ q # << >> => Head(Append(q, t)) = Head(q)
         /\ \A i \in 1 .. Len(Append(q, t)) :
              \/ i \in 1 .. Len(q) /\ Append(q, t)[i] = q[i]
              \/ i = Len(q) + 1 /\ Append(q, t)[i] = t
<1>. DEFINE p == Append(q, t)
<1>1. /\ Len(q) \in Nat /\ DOMAIN q = 1 .. Len(q)
      /\ p \in Seq(Tasks) /\ p # << >>
      /\ Len(p) = Len(q) + 1 /\ DOMAIN p = 1 .. Len(q) + 1
      /\ \A i \in 1 .. Len(q) : p[i] = q[i]
      /\ p[Len(q) + 1] = t
      /\ q # << >> => Len(q) \in Nat \ {0}
  BY EmptySeq
<1>2. NoRepeat(p)
  BY <1>1 DEF NoRepeat, Queued
<1>3. Queued(p, t)
  BY <1>1 DEF Queued
<1>4. ASSUME NEW u, Queued(q, u) PROVE Queued(p, u)
  BY <1>1, <1>4 DEF Queued
<1>5. q # << >> => Head(p) = Head(q)
  BY <1>1
<1>6. QED
  BY <1>1, <1>2, <1>3, <1>4, <1>5

\* The first task leaves.
LEMMA Leave ==
  ASSUME NEW q \in Seq(Tasks), q # << >>, NoRepeat(q)
  PROVE  /\ Tail(q) \in Seq(Tasks)
         /\ NoRepeat(Tail(q))
         /\ ~Queued(Tail(q), Head(q))
         /\ \A u : Queued(q, u) /\ u # Head(q) => Queued(Tail(q), u)
         /\ \A i \in 1 .. Len(Tail(q)) :
              /\ i + 1 \in 2 .. Len(q)
              /\ Tail(q)[i] = q[i + 1]
              /\ Tail(q)[i] # Head(q)
<1>. DEFINE p == Tail(q)
<1>1. /\ Len(q) \in Nat /\ Len(q) > 0 /\ DOMAIN q = 1 .. Len(q)
      /\ p \in Seq(Tasks)
      /\ Len(p) = Len(q) - 1 /\ DOMAIN p = 1 .. Len(q) - 1
      /\ \A i \in 1 .. Len(q) - 1 : p[i] = q[i + 1]
      /\ Head(q) = q[1]
  OBVIOUS
<1>2. NoRepeat(p) /\ ~Queued(p, Head(q))
  BY <1>1 DEF NoRepeat, Queued
<1>3. ASSUME NEW u, Queued(q, u), u # Head(q) PROVE Queued(p, u)
  <2>1. PICK i \in 1 .. Len(q) : q[i] = u
    BY <1>1, <1>3 DEF Queued
  <2>2. i - 1 \in DOMAIN p /\ p[i - 1] = u
    BY <1>1, <1>3, <2>1
  <2>3. QED
    BY <2>2 DEF Queued
<1>4. \A i \in 1 .. Len(p) :
        i + 1 \in 2 .. Len(q) /\ p[i] = q[i + 1] /\ p[i] # Head(q)
  <2>1. \A i \in DOMAIN p : p[i] # Head(q)
    BY <1>2 DEF Queued
  <2>2. ASSUME NEW i \in 1 .. Len(q) - 1
        PROVE  i + 1 \in 2 .. Len(q) /\ p[i] = q[i + 1] /\ p[i] # Head(q)
    <3>1. i \in DOMAIN p /\ i + 1 \in 2 .. Len(q)
      BY <1>1
    <3>2. QED
      BY <1>1, <2>1, <3>1
  <2>3. QED
    BY <1>1, <2>2
<1>5. QED
  BY <1>1, <1>2, <1>3, <1>4

LEMMA LockInvInit == Init => LockInv
BY DEF Init, LockInv, TypeOK, AppendStates, Located, QueueContent,
   LockDiscipline, RpushHoldsLock, WaitersQueued, NoRepeat

\* The steps of the election and the calls waiting for the lock.
LEMMA ElectionTypes ==
  ASSUME TypeOK, NEW n \in Nodes, Election(n)
  PROVE  TypeOK'
<1>1. CASE TimeoutClaim(n)
  BY <1>1, BecomeLeaderTypes DEF TimeoutClaim, TypeOK, appendVars
<1>2. CASE TimeoutWait(n)
  <2>1. lockq' \in [Nodes -> Seq(Requests \cup {Claim})]
    BY <1>2, LockqTypes DEF TimeoutWait
  <2>2. QED
    BY <1>2, <2>1 DEF TimeoutWait, TypeOK, appendVars
<1>3. CASE LockedClaim(n)
  <2>1. lockq' \in [Nodes -> Seq(Requests \cup {Claim})]
    BY <1>3, LockqTypes DEF LockedClaim
  <2>2. QED
    BY <1>3, <2>1, BecomeLeaderTypes DEF LockedClaim, TypeOK, appendVars
<1>4. CASE PostHeartbeat(n)
  <2>1. /\ Head(left[n]) \in Nodes
        /\ Tail(left[n]) \in Seq(Nodes)
    BY <1>4 DEF PostHeartbeat, TypeOK
  <2>2. net' \in SUBSET Heartbeat /\ left' \in [Nodes -> Seq(Nodes)]
    BY <1>4, <2>1 DEF PostHeartbeat, TypeOK, Heartbeat
  <2>3. QED
    BY <1>4, <2>2 DEF PostHeartbeat, TypeOK, appendVars
<1>5. CASE EndPosts(n)
  BY <1>5 DEF EndPosts, TypeOK, appendVars
<1>6. QED
  BY <1>1, <1>2, <1>3, <1>4, <1>5 DEF Election

\* The steps of a call up to the moment it has the lock.
LEMMA StartTypes ==
  ASSUME TypeOK, NEW r \in Requests, NEW n \in Nodes, StartAppend(r, n)
  PROVE  TypeOK'
<1>1. CASE RefuseAppend(r, n)
  BY <1>1 DEF RefuseAppend, TypeOK, AppendStates, electionVars
<1>2. CASE AppendNow(r, n)
  <2>1. lockq' \in [Nodes -> Seq(Requests \cup {Claim})]
    BY <1>2 DEF AppendNow, TypeOK
  <2>2. Push(r, n) /\ at' \in [Requests -> Nodes \cup {None}]
    BY <1>2 DEF AppendNow, TypeOK
  <2>3. QED
    BY <1>2, <2>1, <2>2, PushTypes DEF AppendNow, TypeOK, electionVars
<1>3. CASE AppendWait(r, n)
  <2>1. lockq' \in [Nodes -> Seq(Requests \cup {Claim})]
    BY <1>3, LockqTypes DEF AppendWait
  <2>2. QED
    BY <1>3, <2>1 DEF AppendWait, TypeOK, AppendStates, electionVars
<1>4. QED
  BY <1>1, <1>2, <1>3 DEF StartAppend

\* The steps of a call once it has the lock, its end, and Redis.
LEMMA RunTypes ==
  ASSUME TypeOK, Located, LockDiscipline, NEW r \in Requests, RunAppend(r)
  PROVE  TypeOK'
<1>1. CASE AppendLocked(r)
  <2>1. at[r] \in Nodes /\ Push(r, at[r])
    BY <1>1 DEF AppendLocked, Located
  <2>2. QED
    BY <1>1, <2>1, PushTypes DEF AppendLocked, TypeOK, electionVars
<1>2. CASE RedisRetry(r)
  BY <1>2 DEF RedisRetry, TypeOK, AppendStates, electionVars
<1>3. ASSUME NEW how \in {"ok", "error"}, EndAppend(r, how),
             append[r] \in {"rpush", "answered"}
      PROVE  TypeOK'
  <2>1. at[r] \in Nodes /\ lockq[at[r]] # << >>
    BY <1>3 DEF Located, LockDiscipline, RpushHoldsLock
  <2>2. lockq' \in [Nodes -> Seq(Requests \cup {Claim})]
    BY <1>3, <2>1, LockqTypes DEF EndAppend
  <2>3. append' \in [Requests -> AppendStates]
    BY <1>3 DEF EndAppend, TypeOK, AppendStates
  <2>4. QED
    BY <1>3, <2>2, <2>3 DEF EndAppend, TypeOK, electionVars
<1>4. QED
  BY <1>1, <1>2, <1>3 DEF RunAppend, AppendReturns, AppendRaises

LEMMA RedisTypes ==
  ASSUME TypeOK, Located, NEW r \in Requests, NEW t \in 1 .. 2,
         RedisExecutes(r, t)
  PROVE  TypeOK'
<1>1. [req |-> r, by |-> at[r], term |-> stamp[r]] \in Entry
  BY DEF TypeOK, Entry, Located, RedisExecutes
<1>2. append' \in [Requests -> AppendStates] /\ wire' \in SUBSET (Requests \X (1 .. 2))
  BY DEF RedisExecutes, TypeOK, AppendStates
<1>3. QED
  BY <1>1, <1>2 DEF RedisExecutes, TypeOK, electionVars

LEMMA ReceiveTypes ==
  ASSUME TypeOK, NEW m \in net, ReceiveHeartbeat(m)
  PROVE  TypeOK'
<1>1. m \in Heartbeat
  BY DEF TypeOK
<1>2. QED
  BY <1>1 DEF ReceiveHeartbeat, TypeOK, Heartbeat, appendVars

LEMMA RestartTypes ==
  ASSUME TypeOK, NEW n \in Nodes, Restart(n)
  PROVE  TypeOK'
BY DEF Restart, TypeOK, AppendStates

-----------------------------------------------------------------------------

LEMMA LocatedStep == LockInv /\ [Next]_vars => Located'
<1>. SUFFICES ASSUME TypeOK, Located, LockDiscipline, [Next]_vars PROVE Located'
  BY DEF LockInv
<1>. USE DEF TypeOK, Located
<1>1. ASSUME NEW n \in Nodes, Election(n) PROVE Located'
  BY <1>1 DEF Election, TimeoutClaim, TimeoutWait, LockedClaim, PostHeartbeat,
              EndPosts, appendVars
<1>2. ASSUME NEW n \in Nodes, Restart(n) PROVE Located'
  BY <1>2 DEF Restart
<1>3. ASSUME NEW m \in net, ReceiveHeartbeat(m) PROVE Located'
  BY <1>3 DEF ReceiveHeartbeat, appendVars
<1>4. ASSUME NEW r \in Requests, NEW n \in Nodes, StartAppend(r, n) PROVE Located'
  BY <1>4 DEF StartAppend, RefuseAppend, AppendNow, AppendWait, Push
<1>5. ASSUME NEW r \in Requests, RunAppend(r) PROVE Located'
  BY <1>5 DEF RunAppend, AppendLocked, Push, RedisRetry, AppendReturns,
              AppendRaises, EndAppend
<1>6. ASSUME NEW r \in Requests, NEW t \in 1 .. 2, RedisExecutes(r, t)
      PROVE  Located'
  BY <1>6 DEF RedisExecutes
<1>7. CASE UNCHANGED vars
  BY <1>7 DEF vars, appendVars
<1>8. QED
  BY <1>1, <1>2, <1>3, <1>4, <1>5, <1>6, <1>7 DEF Next

LEMMA QueueStep == LockInv /\ [Next]_vars => QueueContent' /\ LockDiscipline'
<1>. SUFFICES ASSUME LockInv, [Next]_vars
              PROVE  QueueContent' /\ LockDiscipline'
  OBVIOUS
<1>. USE ClaimAssumption
<1>. USE DEF LockDiscipline
<1>0. /\ QueueContent /\ Located
      /\ RpushHoldsLock /\ WaitersQueued
      /\ \A n \in Nodes : NoRepeat(lockq[n])
  BY DEF LockInv
<1>t. /\ append \in [Requests -> AppendStates]
      /\ at \in [Requests -> Nodes \cup {None}]
      /\ beat \in [Nodes -> {"idle", "claim", "post"}]
      /\ lockq \in [Nodes -> Seq(Tasks)]
  BY DEF LockInv, TypeOK, Tasks
<1>d. \A n \in Nodes : Len(lockq[n]) \in Nat /\ DOMAIN lockq[n] = 1 .. Len(lockq[n])
  BY <1>t
<1>k. Claim \in Tasks /\ Requests \subseteq Tasks
  BY DEF Tasks
<1>. USE <1>0, <1>t, <1>d, <1>k
<1>. DEFINE Q == QueueContent /\ LockDiscipline
<1>1. ASSUME NEW n \in Nodes, TimeoutClaim(n) PROVE Q'
  BY <1>1 DEF TimeoutClaim, BecomeLeader, QueueContent, RpushHoldsLock,
              WaitersQueued, appendVars
<1>2. ASSUME NEW n \in Nodes, TimeoutWait(n) PROVE Q'
  <2>1. ~Queued(lockq[n], Claim)
    BY <1>2 DEF TimeoutWait, QueueContent, Queued
  <2>2. /\ lockq' = [lockq EXCEPT ![n] = Append(lockq[n], Claim)]
        /\ beat' = [beat EXCEPT ![n] = "claim"]
        /\ lockq[n] # << >>
        /\ UNCHANGED <<append, at>>
    BY <1>2 DEF TimeoutWait, appendVars
  <2>3. QueueContent'
    BY <2>1, <2>2, Join DEF QueueContent
  <2>4. RpushHoldsLock' /\ WaitersQueued'
    <3>1. RpushHoldsLock'
      BY <2>1, <2>2, Join DEF RpushHoldsLock
    <3>2. WaitersQueued'
      BY <2>1, <2>2, Join DEF WaitersQueued
    <3>3. QED
      BY <3>1, <3>2
  <2>5. (\A m \in Nodes : NoRepeat(lockq[m]))'
    BY <2>1, <2>2, Join
  <2>6. QED
    BY <2>3, <2>4, <2>5
<1>3. ASSUME NEW n \in Nodes, LockedClaim(n) PROVE Q'
  <2>1. /\ lockq' = [lockq EXCEPT ![n] = Tail(lockq[n])]
        /\ beat' = [beat EXCEPT ![n] = "post"]
        /\ lockq[n] # << >> /\ Head(lockq[n]) = Claim
        /\ UNCHANGED <<append, at>>
    BY <1>3 DEF LockedClaim, BecomeLeader, appendVars
  <2>2. QueueContent'
    BY <2>1, Leave DEF QueueContent
  <2>3. RpushHoldsLock' /\ WaitersQueued'
    <3>1. RpushHoldsLock'
      BY <2>1, Leave DEF RpushHoldsLock
    <3>2. WaitersQueued'
      BY <2>1, Leave DEF WaitersQueued
    <3>3. QED
      BY <3>1, <3>2
  <2>4. (\A m \in Nodes : NoRepeat(lockq[m]))'
    BY <2>1, Leave
  <2>5. QED
    BY <2>2, <2>3, <2>4
<1>4. ASSUME NEW n \in Nodes, PostHeartbeat(n) \/ EndPosts(n) PROVE Q'
  <2>1. UNCHANGED <<lockq, append, at>> /\ beat'[n] # "claim" /\ beat[n] # "claim"
        /\ \A m \in Nodes \ {n} : beat'[m] = beat[m]
    BY <1>4 DEF PostHeartbeat, EndPosts, appendVars
  <2>2. QED
    BY <2>1 DEF QueueContent, RpushHoldsLock, WaitersQueued
<1>5. ASSUME NEW n \in Nodes, Restart(n) PROVE Q'
  <2>1. /\ lockq' = [lockq EXCEPT ![n] = << >>]
        /\ beat' = [beat EXCEPT ![n] = "idle"]
        /\ UNCHANGED at
        /\ \A r \in Requests : at[r] # n => append'[r] = append[r]
        /\ \A r \in Requests :
             at[r] = n => append'[r] \notin {"wait", "rpush", "answered"}
    BY <1>5 DEF Restart
  <2>2. QueueContent'
    BY <2>1 DEF QueueContent, Tasks
  <2>3. RpushHoldsLock'
    <3>1. \A r \in Requests : append[r] \in {"rpush", "answered"} => at[r] \in Nodes
      BY DEF Located
    <3>2. QED
      BY <2>1, <3>1 DEF RpushHoldsLock
  <2>4. WaitersQueued'
    <3>1. \A r \in Requests : append[r] = "wait" => at[r] \in Nodes
      BY DEF Located
    <3>2. QED
      BY <2>1, <3>1 DEF WaitersQueued
  <2>5. (\A m \in Nodes : NoRepeat(lockq[m]))'
    BY <2>1 DEF NoRepeat
  <2>6. QED
    BY <2>2, <2>3, <2>4, <2>5
<1>6. ASSUME NEW m \in net, ReceiveHeartbeat(m) PROVE Q'
  BY <1>6 DEF ReceiveHeartbeat, QueueContent, RpushHoldsLock,
              WaitersQueued, appendVars
<1>7. ASSUME NEW r \in Requests, NEW n \in Nodes, RefuseAppend(r, n) PROVE Q'
  BY <1>7 DEF RefuseAppend, QueueContent, RpushHoldsLock,
              WaitersQueued, electionVars
<1>8. ASSUME NEW r \in Requests, NEW n \in Nodes, AppendNow(r, n) PROVE Q'
  <2>1. /\ lockq' = [lockq EXCEPT ![n] = <<r>>]
        /\ lockq[n] = << >> /\ append[r] = "new"
        /\ append' = [append EXCEPT ![r] = "rpush"]
        /\ at' = [at EXCEPT ![r] = n]
        /\ UNCHANGED beat
    BY <1>8 DEF AppendNow, Push, electionVars
  <2>2. QueueContent'
    BY <2>1 DEF QueueContent
  <2>3. lockq'[n] = <<r>> /\ ~Queued(<< >>, Claim) /\ \A t : ~Queued(<< >>, t)
    BY <2>1 DEF Queued
  <2>4. RpushHoldsLock'
    BY <2>1, <2>3 DEF RpushHoldsLock
  <2>5. WaitersQueued'
    BY <2>1, <2>3 DEF WaitersQueued
  <2>6. (\A m \in Nodes : NoRepeat(lockq[m]))'
    BY <2>1, <2>3 DEF NoRepeat
  <2>7. QED
    BY <2>2, <2>4, <2>5, <2>6
<1>9. ASSUME NEW r \in Requests, NEW n \in Nodes, AppendWait(r, n) PROVE Q'
  <2>0. append[r] = "new"
    BY <1>9 DEF AppendWait
  <2>1. ~Queued(lockq[n], r)
    BY <2>0 DEF QueueContent, Queued
  <2>2. /\ lockq' = [lockq EXCEPT ![n] = Append(lockq[n], r)]
        /\ lockq[n] # << >> /\ append[r] = "new"
        /\ append' = [append EXCEPT ![r] = "wait"]
        /\ at' = [at EXCEPT ![r] = n]
        /\ UNCHANGED beat
    BY <1>9 DEF AppendWait, electionVars
  <2>3. QueueContent'
    BY <2>1, <2>2, Join DEF QueueContent
  <2>4. RpushHoldsLock' /\ WaitersQueued'
    <3>1. RpushHoldsLock'
      <4>1. /\ Append(lockq[n], r) # << >>
            /\ Head(Append(lockq[n], r)) = Head(lockq[n])
        BY <2>1, <2>2, Join
      <4>2. ASSUME NEW u \in Requests, append'[u] \in {"rpush", "answered"}
            PROVE  /\ append[u] \in {"rpush", "answered"}
                   /\ at'[u] = at[u] /\ at[u] \in Nodes
        BY <2>2, <4>2 DEF Located
      <4>3. QED
        BY <2>2, <4>1, <4>2 DEF RpushHoldsLock
    <3>2. WaitersQueued'
      BY <2>1, <2>2, Join DEF WaitersQueued
    <3>3. QED
      BY <3>1, <3>2
  <2>5. (\A m \in Nodes : NoRepeat(lockq[m]))'
    BY <2>1, <2>2, Join
  <2>6. QED
    BY <2>3, <2>4, <2>5
<1>10. ASSUME NEW r \in Requests, AppendLocked(r) \/ RedisRetry(r) PROVE Q'
  <2>1. /\ append' = [append EXCEPT ![r] = "rpush"]
        /\ lockq[at[r]] # << >> /\ Head(lockq[at[r]]) = r
        /\ UNCHANGED <<lockq, at, beat>>
        /\ append[r] \in {"wait", "rpush", "answered"} /\ at[r] \in Nodes
    <3>1. CASE AppendLocked(r)
      <4>1. append[r] = "wait" /\ at[r] \in Nodes
        BY <3>1 DEF AppendLocked, Located
      <4>2. lockq[at[r]] # << >>
        BY <4>1 DEF WaitersQueued, Queued
      <4>3. QED
        BY <3>1, <4>1, <4>2 DEF AppendLocked, Push, electionVars
    <3>2. CASE RedisRetry(r)
      BY <3>2 DEF RedisRetry, RpushHoldsLock, Located, electionVars
    <3>3. QED
      BY <1>10, <3>1, <3>2
  <2>2. lockq[at[r]][1] = r /\ 1 \in DOMAIN lockq[at[r]]
    BY <2>1
  <2>3. QueueContent'
    BY <2>1, <2>2 DEF QueueContent, NoRepeat
  <2>4. RpushHoldsLock' /\ WaitersQueued'
    BY <2>1 DEF RpushHoldsLock, WaitersQueued
  <2>5. QED
    BY <2>1, <2>3, <2>4
<1>11. ASSUME NEW r \in Requests, NEW how \in {"ok", "error"},
              append[r] \in {"rpush", "answered"}, EndAppend(r, how)
       PROVE  Q'
  <2>1. /\ at[r] \in Nodes
        /\ lockq' = [lockq EXCEPT ![at[r]] = Tail(lockq[at[r]])]
        /\ lockq[at[r]] # << >> /\ Head(lockq[at[r]]) = r
        /\ append' = [append EXCEPT ![r] = how]
        /\ UNCHANGED <<at, beat>>
    BY <1>11 DEF EndAppend, Located, RpushHoldsLock, electionVars
  <2>2. QueueContent'
    BY <2>1, Leave DEF QueueContent
  <2>3. RpushHoldsLock' /\ WaitersQueued'
    <3>1. RpushHoldsLock'
      BY <2>1, Leave DEF RpushHoldsLock
    <3>2. WaitersQueued'
      BY <2>1, Leave DEF WaitersQueued
    <3>3. QED
      BY <3>1, <3>2
  <2>4. (\A m \in Nodes : NoRepeat(lockq[m]))'
    BY <2>1, Leave
  <2>5. QED
    BY <2>2, <2>3, <2>4
<1>12. ASSUME NEW r \in Requests, NEW t \in 1 .. 2, RedisExecutes(r, t) PROVE Q'
  BY <1>12 DEF RedisExecutes, QueueContent, RpushHoldsLock,
              WaitersQueued, electionVars
<1>13. CASE UNCHANGED vars
  BY <1>13 DEF vars, QueueContent, RpushHoldsLock,
              WaitersQueued, electionVars, appendVars
<1>14. QED
  BY <1>1, <1>2, <1>3, <1>4, <1>5, <1>6, <1>7, <1>8, <1>9, <1>10, <1>11, <1>12,
     <1>13 DEF Next, Election, StartAppend, RunAppend, AppendReturns, AppendRaises

LEMMA TypeStep == LockInv /\ [Next]_vars => TypeOK'
<1>. SUFFICES ASSUME LockInv, [Next]_vars PROVE TypeOK'
  OBVIOUS
<1>. USE DEF LockInv
<1>1. CASE UNCHANGED vars
  BY <1>1 DEF vars, electionVars, appendVars, TypeOK
<1>2. CASE Next
  BY <1>2, ElectionTypes, RestartTypes, ReceiveTypes, StartTypes, RunTypes,
     RedisTypes DEF Next
<1>3. QED
  BY <1>1, <1>2

\* Every variable keeps its type: in particular the lock is never passed on by
\* a call that does not hold it (raft_redis.py:48-54).
THEOREM TypeCorrect == Spec => []TypeOK
<1>1. LockInv /\ [Next]_vars => LockInv'
  BY LocatedStep, QueueStep, TypeStep DEF LockInv
<1>2. LockInv => TypeOK
  BY DEF LockInv
<1>3. QED
  BY <1>1, <1>2, LockInvInit, PTL DEF Spec

\* The asyncio lock shared by appends and claims is held by the call whose
\* RPUSH is out, and nobody who waits for it is forgotten or queued twice
\* (raft_redis.py:28, 51), through errors, retries and restarts.
THEOREM LockDisciplined == Spec => []LockDiscipline
<1>1. LockInv /\ [Next]_vars => LockInv'
  BY LocatedStep, QueueStep, TypeStep DEF LockInv
<1>2. LockInv => LockDiscipline
  BY DEF LockInv
<1>3. QED
  BY <1>1, <1>2, LockInvInit, PTL DEF Spec

-----------------------------------------------------------------------------

LEMMA ClaimStep ==
  TypeOK /\ AnnouncesSomeone /\ LeadershipClaimed /\ [Next]_vars
    => AnnouncesSomeone' /\ LeadershipClaimed'
<1>. SUFFICES ASSUME TypeOK, AnnouncesSomeone, LeadershipClaimed, [Next]_vars
              PROVE  AnnouncesSomeone' /\ LeadershipClaimed'
  OBVIOUS
<1>. DEFINE C == AnnouncesSomeone /\ LeadershipClaimed
<1>. USE PeersAssumption DEF TypeOK, AnnouncesSomeone, LeadershipClaimed
<1>1. ASSUME NEW n \in Nodes, BecomeLeader(n), UNCHANGED net PROVE C'
  BY <1>1 DEF BecomeLeader
<1>2. ASSUME NEW n \in Nodes, TimeoutWait(n) \/ EndPosts(n) PROVE C'
  BY <1>2 DEF TimeoutWait, EndPosts
<1>3. ASSUME NEW n \in Nodes, PostHeartbeat(n) PROVE C'
  BY <1>3 DEF PostHeartbeat
<1>4. ASSUME NEW n \in Nodes, Restart(n) PROVE C'
  BY <1>4 DEF Restart
<1>5. ASSUME NEW m \in net, ReceiveHeartbeat(m) PROVE C'
  <2>1. <<m.leader, m.term>> \in Nodes \X Nat /\ m.to \in Nodes
    BY DEF Heartbeat
  <2>2. QED
    BY <1>5, <2>1 DEF ReceiveHeartbeat, Heartbeat
<1>6. CASE UNCHANGED electionVars
  BY <1>6 DEF electionVars
<1>7. QED
  BY <1>1, <1>2, <1>3, <1>4, <1>5, <1>6
  DEF Next, Election, TimeoutClaim, LockedClaim, StartAppend, RefuseAppend,
      AppendNow, AppendWait, RunAppend, AppendLocked, RedisRetry, AppendReturns,
      AppendRaises, EndAppend, RedisExecutes, vars

\* Whoever is believed or announced to lead a term has claimed that term, for
\* any number of nodes, however late heartbeats arrive (raft_redis.py:24-46).
THEOREM LeadersClaimed == Spec => []LeadershipClaimed
<1>1. Init => AnnouncesSomeone /\ LeadershipClaimed
  BY DEF Init, AnnouncesSomeone, LeadershipClaimed
<1>2. QED
  BY <1>1, ClaimStep, TypeCorrect, PTL DEF Spec

\* Terms never go back at a node that does not start again
\* (raft_redis.py:29 and 43-45).
THEOREM TermsGrow == Spec => TermGrows
<1>1. TypeOK /\ [Next]_vars => [\A n \in Nodes : term'[n] >= term[n] \/ leader'[n] = None]_vars
  <2>. SUFFICES ASSUME TypeOK, Next, NEW n \in Nodes
                PROVE  term'[n] >= term[n] \/ leader'[n] = None
    OBVIOUS
  <2>. USE DEF TypeOK
  <2>1. CASE UNCHANGED term
    BY <2>1
  <2>2. ASSUME NEW k \in Nodes, BecomeLeader(k) PROVE term'[n] >= term[n]
    BY <2>2 DEF BecomeLeader
  <2>3. ASSUME NEW m \in net, ReceiveHeartbeat(m) PROVE term'[n] >= term[n]
    <3>1. m.term \in Nat /\ m.to \in Nodes
      BY DEF Heartbeat
    <3>2. CASE m.term >= term[m.to]
      <4>1. term' = [term EXCEPT ![m.to] = m.term]
        BY <2>3, <3>2 DEF ReceiveHeartbeat
      <4>2. CASE n = m.to
        BY <3>1, <3>2, <4>1, <4>2
      <4>3. CASE n # m.to
        BY <4>1, <4>3
      <4>4. QED
        BY <4>2, <4>3
    <3>3. CASE ~(m.term >= term[m.to])
      BY <2>3, <3>3 DEF ReceiveHeartbeat
    <3>4. QED
      BY <3>2, <3>3
  <2>4. ASSUME NEW k \in Nodes, Restart(k)
        PROVE  term'[n] >= term[n] \/ leader'[n] = None
    BY <2>4 DEF Restart
  <2>5. QED
    BY <2>1, <2>2, <2>3, <2>4
    DEF Next, Election, TimeoutClaim, TimeoutWait, LockedClaim, PostHeartbeat,
        EndPosts, StartAppend, RefuseAppend, AppendNow, AppendWait, RunAppend,
        AppendLocked, RedisRetry, AppendReturns, AppendRaises, EndAppend,
        RedisExecutes, electionVars
<1>2. QED
  BY <1>1, TypeCorrect, PTL DEF Spec, TermGrows


-----------------------------------------------------------------------------
(* What is accounted for in the log. *)

LoggedAt(r) == {i \in DOMAIN rlog : rlog[i].req = r}
Sent(r)     == {t \in 1 .. 2 : <<r, t>> \in wire}

\* RPUSHes are numbered in the order they are sent, and an answer means that one
\* has been executed.
CountRight == \A r \in Requests :
  /\ Cardinality(LoggedAt(r)) + Cardinality(Sent(r)) = try[r]
  /\ \A t \in Sent(r) : t <= try[r]
  /\ append[r] \in {"new", "wait", "refused"} => try[r] = 0
  /\ append[r] \in {"answered", "ok"} => LoggedAt(r) # {}

LEMMA LoggedFinite ==
  ASSUME TypeOK, NEW r
  PROVE  /\ IsFiniteSet(LoggedAt(r)) /\ Cardinality(LoggedAt(r)) \in Nat
         /\ LoggedAt(r) = {} <=> Cardinality(LoggedAt(r)) = 0
<1>1. Len(rlog) \in Nat /\ DOMAIN rlog = 1 .. Len(rlog)
  BY LenProperties DEF TypeOK
<1>2. IsFiniteSet(1 .. Len(rlog)) /\ LoggedAt(r) \subseteq 1 .. Len(rlog)
  BY <1>1, FS_Interval DEF LoggedAt
<1>3. QED
  BY <1>2, FS_Subset, FS_CardinalityType, FS_EmptySet

LEMMA SentFinite ==
  ASSUME NEW r
  PROVE  IsFiniteSet(Sent(r)) /\ Cardinality(Sent(r)) \in Nat
<1>1. IsFiniteSet(1 .. 2)
  <2>1. ASSUME NEW n \in Nat PROVE IsFiniteSet(1 .. n)
    BY FS_Interval
  <2>2. QED
    BY <2>1
<1>2. QED
  BY <1>1, FS_Subset, FS_CardinalityType DEF Sent

\* One more entry is one more place of its command.
LEMMA EntryLogged ==
  ASSUME TypeOK, NEW e \in Entry, rlog' = Append(rlog, e)
  PROVE  /\ LoggedAt(e.req)' = LoggedAt(e.req) \cup {Len(rlog) + 1}
         /\ Len(rlog) + 1 \notin LoggedAt(e.req)
         /\ \A r \in Requests \ {e.req} : LoggedAt(r)' = LoggedAt(r)
<1>1. /\ Len(rlog) \in Nat /\ DOMAIN rlog = 1 .. Len(rlog)
      /\ DOMAIN rlog' = 1 .. Len(rlog) + 1
      /\ \A i \in 1 .. Len(rlog) : rlog'[i] = rlog[i]
      /\ rlog'[Len(rlog) + 1] = e
  <2>1. rlog \in Seq(Entry)
    BY DEF TypeOK
  <2>2. QED
    BY <2>1, AppendProperties, LenProperties
<1>2. Len(rlog) + 1 \notin DOMAIN rlog
  BY <1>1
<1>3. ASSUME NEW i
      PROVE  i \in DOMAIN rlog' <=> i \in DOMAIN rlog \/ i = Len(rlog) + 1
  BY <1>1
<1>4. QED
  BY <1>1, <1>2, <1>3 DEF LoggedAt

\* The first RPUSH of a call, and its repetition.
Sends(r, t) ==
  /\ t = try[r] + 1 /\ try' = [try EXCEPT ![r] = t]
  /\ wire' = wire \cup {<<r, t>>} /\ rlog' = rlog
  /\ append' = [append EXCEPT ![r] = "rpush"]

LEMMA SendStep ==
  ASSUME TypeOK, TypeOK', CountRight, NEW r \in Requests, NEW t \in 1 .. 2, Sends(r, t)
  PROVE  CountRight'
<1>. USE DEF Sends
<1>1. \A s \in Requests : LoggedAt(s)' = LoggedAt(s)
  BY DEF LoggedAt
<1>2. Sent(r)' = Sent(r) \cup {t} /\ \A s \in Requests \ {r} : Sent(s)' = Sent(s)
  BY DEF Sent
<1>3. t \notin Sent(r)
  <2>1. try[r] \in 0 .. 2 /\ \A u \in Sent(r) : u <= try[r]
    BY DEF CountRight, TypeOK
  <2>2. ~(t <= try[r])
    BY <2>1
  <2>3. QED
    BY <2>1, <2>2
<1>4. Cardinality(Sent(r)') = Cardinality(Sent(r)) + 1
  <2>1. Cardinality(Sent(r) \cup {t}) = Cardinality(Sent(r)) + 1
    BY <1>3, SentFinite, FS_AddElement
  <2>2. QED
    BY <1>2, <2>1
<1>5. /\ append'[r] = "rpush" /\ try'[r] = t
      /\ \A s \in Requests \ {r} : append'[s] = append[s] /\ try'[s] = try[s]
  BY DEF TypeOK
<1>6. Cardinality(LoggedAt(r)') + Cardinality(Sent(r)') = try'[r]
  <2>1. Cardinality(LoggedAt(r)) \in Nat /\ Cardinality(Sent(r)) \in Nat
    BY LoggedFinite, SentFinite
  <2>2. QED
    BY <1>1, <1>4, <1>5, <2>1 DEF CountRight
<1>7. \A u \in Sent(r)' : u <= try'[r]
  <2>1. \A u \in Sent(r) : u \in 1 .. 2 /\ u <= try[r]
    BY DEF CountRight, Sent
  <2>2. try[r] \in 0 .. 2
    BY DEF TypeOK
  <2>3. QED
    BY <1>2, <1>5, <2>1, <2>2
<1>8. QED
  BY <1>1, <1>2, <1>5, <1>6, <1>7 DEF CountRight

LEMMA RedisStep ==
  ASSUME TypeOK, Located, CountRight, NEW r \in Requests, NEW t \in 1 .. 2,
         RedisExecutes(r, t)
  PROVE  CountRight'
<1>. DEFINE e == [req |-> r, by |-> at[r], term |-> stamp[r]]
<1>1. e \in Entry /\ e.req = r /\ rlog' = Append(rlog, e) /\ try' = try
  BY DEF TypeOK, Entry, Located, RedisExecutes
<1>2. /\ LoggedAt(r)' = LoggedAt(r) \cup {Len(rlog) + 1}
      /\ Len(rlog) + 1 \notin LoggedAt(r)
      /\ \A s \in Requests \ {r} : LoggedAt(s)' = LoggedAt(s)
  <2>. HIDE DEF e
  <2>1. QED
    BY <1>1, EntryLogged
<1>3. /\ t \in Sent(r) /\ Sent(r)' = Sent(r) \ {t}
      /\ \A s \in Requests \ {r} : Sent(s)' = Sent(s)
  BY DEF RedisExecutes, Sent
<1>4. Cardinality(LoggedAt(r)') + Cardinality(Sent(r)') = try'[r]
  <2>1. Cardinality(LoggedAt(r)') = Cardinality(LoggedAt(r)) + 1
    BY <1>2, LoggedFinite, FS_AddElement
  <2>2. Cardinality(Sent(r)') = Cardinality(Sent(r)) - 1
    BY <1>3, SentFinite, FS_RemoveElement
  <2>3. Cardinality(LoggedAt(r)) \in Nat /\ Cardinality(Sent(r)) \in Nat
    BY LoggedFinite, SentFinite
  <2>4. QED
    BY <1>1, <2>1, <2>2, <2>3 DEF CountRight
<1>5. \A s \in Requests :
        \/ append'[s] = append[s]
        \/ s = r /\ append[s] = "rpush" /\ append'[s] = "answered"
  BY DEF RedisExecutes, TypeOK
<1>6. QED
  BY <1>1, <1>2, <1>3, <1>4, <1>5 DEF CountRight

LEMMA CountStep ==
  LockInv /\ LockInv' /\ CountRight /\ [Next]_vars => CountRight'
<1>. SUFFICES ASSUME LockInv, LockInv', CountRight, [Next]_vars PROVE CountRight'
  OBVIOUS
<1>t. /\ TypeOK /\ TypeOK' /\ Located
      /\ append \in [Requests -> AppendStates] /\ try \in [Requests -> 0 .. 2]
  BY DEF LockInv, TypeOK
\* Nothing is sent or executed, and no call is refused or returns for nothing.
<1>s. ASSUME UNCHANGED <<try, wire, rlog>>,
             \A r \in Requests :
               \/ append'[r] = append[r]
               \/ append[r] = "new" /\ append'[r] \in {"wait", "refused"}
               \/ append[r] = "answered" /\ append'[r] = "ok"
               \/ append'[r] \in {"error", "lost"}
      PROVE  CountRight'
  <2>1. \A r \in Requests : LoggedAt(r)' = LoggedAt(r) /\ Sent(r)' = Sent(r)
    BY <1>s DEF LoggedAt, Sent
  <2>2. QED
    BY <1>s, <2>1 DEF CountRight
<1>1. ASSUME NEW n \in Nodes, Election(n) PROVE CountRight'
  BY <1>1, <1>s DEF Election, TimeoutClaim, TimeoutWait, LockedClaim, PostHeartbeat,
                    EndPosts, appendVars
<1>2. ASSUME NEW n \in Nodes, Restart(n) PROVE CountRight'
  BY <1>2, <1>s DEF Restart
<1>3. ASSUME NEW m \in net, ReceiveHeartbeat(m) PROVE CountRight'
  BY <1>3, <1>s DEF ReceiveHeartbeat, appendVars
<1>4. ASSUME NEW r \in Requests, NEW n \in Nodes, StartAppend(r, n) PROVE CountRight'
  <2>1. CASE RefuseAppend(r, n)
    BY <1>t, <1>s, <2>1 DEF RefuseAppend
  <2>2. CASE AppendNow(r, n)
    <3>1. append[r] = "new" /\ try[r] = 0
      BY <2>2 DEF AppendNow, CountRight
    <3>2. Sends(r, 1)
      BY <2>2, <3>1 DEF AppendNow, Push, Sends
    <3>3. QED
      BY <1>t, <3>2, SendStep
  <2>3. CASE AppendWait(r, n)
    BY <1>t, <1>s, <2>3 DEF AppendWait
  <2>4. QED
    BY <1>4, <2>1, <2>2, <2>3 DEF StartAppend
<1>5. ASSUME NEW r \in Requests, RunAppend(r) PROVE CountRight'
  <2>1. CASE AppendLocked(r)
    <3>1. append[r] = "wait" /\ try[r] = 0
      BY <2>1 DEF AppendLocked, CountRight
    <3>2. Sends(r, 1)
      BY <2>1, <3>1 DEF AppendLocked, Push, Sends
    <3>3. QED
      BY <1>t, <3>2, SendStep
  <2>2. CASE RedisRetry(r)
    <3>1. Sends(r, 2)
      BY <2>2 DEF RedisRetry, Sends
    <3>2. QED
      BY <1>t, <3>1, SendStep
  <2>3. CASE AppendReturns(r) \/ AppendRaises(r)
    BY <1>t, <1>s, <2>3 DEF AppendReturns, AppendRaises, EndAppend
  <2>4. QED
    BY <1>5, <2>1, <2>2, <2>3 DEF RunAppend
<1>6. ASSUME NEW r \in Requests, NEW t \in 1 .. 2, RedisExecutes(r, t) PROVE CountRight'
  BY <1>t, <1>6, RedisStep
<1>7. CASE UNCHANGED vars
  BY <1>7, <1>s DEF vars, appendVars
<1>8. QED
  BY <1>1, <1>2, <1>3, <1>4, <1>5, <1>6, <1>7 DEF Next

LEMMA CountInit == Init => CountRight
<1>. SUFFICES ASSUME Init, NEW r \in Requests
              PROVE  /\ LoggedAt(r) = {} /\ Sent(r) = {} /\ try[r] = 0 /\ append[r] = "new"
  BY FS_EmptySet DEF CountRight
<1>1. DOMAIN rlog = {}
  BY DEF Init
<1>2. QED
  BY <1>1 DEF Init, LoggedAt, Sent

LEMMA LogInvariant == Spec => [](LockInv /\ CountRight)
<1>1. LockInv /\ [Next]_vars => LockInv'
  BY LocatedStep, QueueStep, TypeStep DEF LockInv
<1>2. QED
  BY <1>1, LockInvInit, CountInit, CountStep, PTL DEF Spec

LEMMA CountsLog == TypeOK /\ CountRight => LogAccounts
<1>1. ASSUME TypeOK, NEW r \in Requests PROVE LoggedAt(r) # {} => Logged(r) > 0
  <2>1. Logged(r) = Cardinality(LoggedAt(r))
    BY DEF Logged, LoggedAt
  <2>2. QED
    BY <1>1, <2>1, LoggedFinite
<1>2. QED
  BY <1>1 DEF CountRight, LogAccounts, Logged, LoggedAt, Sent

\* Whatever times out, is repeated or dies: an RPUSH that was sent is executed
\* once or still on its way, a call that returned has its command in the log and
\* one that was refused has not (raft_redis.py:48-58).
THEOREM LogAccounted == Spec => []LogAccounts
<1>1. LockInv => TypeOK
  BY DEF LockInv
<1>2. QED
  BY <1>1, LogInvariant, CountsLog, PTL
=============================================================================
