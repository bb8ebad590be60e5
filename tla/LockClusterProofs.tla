------------------------- MODULE LockClusterProofs -------------------------
(***************************************************************************)
(* Clients, nodes and the log together, for any number of each: what is     *)
(* proved of RaftRedis holds under the clients, and the log keeps the order *)
(* of their requests.  It is a log as LockManager's replicas expect it.     *)
(***************************************************************************)
EXTENDS LockCluster, RaftRedisProofs

\* A step of the cluster is one of RaftRedis, or none of its concern.
LEMMA ClusterStep == [ClusterNext]_clusterVars => [Next]_vars
<1>1. ASSUME NEW r \in Requests, NEW n \in Nodes, AskLeader(r, n) PROVE Next
  BY <1>1 DEF AskLeader, StartAppend, Next
<1>2. ASSUME NEW r \in Requests, NEW n \in Nodes, AskFollower(r, n) \/ AskNobody(r, n)
      PROVE  UNCHANGED vars
  BY <1>2 DEF AskFollower, AskNobody
<1>3. ASSUME NEW r \in Requests, NEW n \in Nodes, ForwardArrives(r, n) PROVE Next
  BY <1>3 DEF ForwardArrives, Next
<1>4. ASSUME NEW r \in Requests, ForwardReturns(r) PROVE UNCHANGED vars
  BY <1>4 DEF ForwardReturns
<1>5. ASSUME NEW n \in Nodes, ClusterRestart(n) PROVE Next
  BY <1>5 DEF ClusterRestart, Next
<1>6. ElectionStep \/ AppendStep => Next
  BY DEF ElectionStep, AppendStep, Next
<1>7. QED
  BY <1>1, <1>2, <1>3, <1>4, <1>5, <1>6 DEF ClusterNext, clusterVars

\* Clients add no step of their own to elections, the lock and the log: all that
\* holds of RaftRedis holds in the cluster (lock_manager.py:25-73,
\* handlers.py:72-96).
THEOREM ClusterImplementsRaft == ClusterSpec => Spec
BY ClusterStep, PTL DEF ClusterSpec, ClusterInit, Spec

-----------------------------------------------------------------------------

Ops == {"new", "local", "forwarded", "true", "false", "error"}

ClientTypeOK ==
  /\ op \in [Requests -> Ops]
  /\ via \in [Requests -> Nodes \cup {None}]
  /\ fwd \in SUBSET (Requests \X Nodes)
  /\ after \in [Requests -> SUBSET Requests]

\* What no client has asked for has not been appended or forwarded, and what was
\* answered before another request stays answered.
ClientInv ==
  /\ \A r \in Requests :
       op[r] = "new" => append[r] = "new" /\ \A n : <<r, n>> \notin fwd
  /\ \A r \in Requests : \A b \in after[r] : Answered(b)

LEMMA ClientTypeStep ==
  ASSUME TypeOK, ClientTypeOK, [ClusterNext]_clusterVars
  PROVE  ClientTypeOK'
<1>. USE DEF ClientTypeOK, Ops
<1>t. leader \in [Nodes -> Nodes \cup {None}]
  BY DEF TypeOK
<1>1. ASSUME NEW r \in Requests, NEW n \in Nodes, AskLeader(r, n) PROVE ClientTypeOK'
  BY <1>1 DEF AskLeader, Asks
<1>2. ASSUME NEW r \in Requests, NEW n \in Nodes, AskFollower(r, n) PROVE ClientTypeOK'
  BY <1>t, <1>2 DEF AskFollower, Asks
<1>3. ASSUME NEW r \in Requests, NEW n \in Nodes, AskNobody(r, n) PROVE ClientTypeOK'
  BY <1>3 DEF AskNobody, Asks
<1>4. ASSUME NEW r \in Requests, NEW n \in Nodes, ForwardArrives(r, n) PROVE ClientTypeOK'
  BY <1>4 DEF ForwardArrives
<1>5. ASSUME NEW r \in Requests, ForwardReturns(r) PROVE ClientTypeOK'
  BY <1>5 DEF ForwardReturns
<1>6. ASSUME NEW n \in Nodes, ClusterRestart(n) PROVE ClientTypeOK'
  BY <1>6 DEF ClusterRestart
<1>7. CASE UNCHANGED clientVars
  BY <1>7 DEF clientVars
<1>8. QED
  BY <1>1, <1>2, <1>3, <1>4, <1>5, <1>6, <1>7 DEF ClusterNext, clusterVars

\* A call that is over stays as it is, and one nobody has asked for is new.
AppendMoves(r) ==
  /\ append[r] \in {"ok", "error", "lost", "refused"} => append'[r] = append[r]
  /\ append'[r] = "ok" => append[r] \in {"ok", "answered"}
  /\ append[r] = "new" /\ append'[r] # "new" =>
       \E n \in Nodes : AskLeader(r, n) \/ ForwardArrives(r, n)

LEMMA AppendMove ==
  ASSUME LockInv, CountRight, [ClusterNext]_clusterVars, NEW r \in Requests
  PROVE  AppendMoves(r)
<1>t. append \in [Requests -> AppendStates] /\ Located
  BY DEF LockInv, TypeOK
<1>. USE DEF AppendMoves
<1>1. ASSUME append' = append PROVE AppendMoves(r)
  BY <1>1
<1>2. ASSUME NEW s \in Requests, NEW n \in Nodes, StartAppend(s, n),
             s = r => AskLeader(r, n) \/ ForwardArrives(r, n)
      PROVE  AppendMoves(r)
  BY <1>t, <1>2 DEF StartAppend, RefuseAppend, AppendNow, AppendWait, Push
<1>3. ASSUME NEW s \in Requests, RunAppend(s) PROVE AppendMoves(r)
  BY <1>t, <1>3 DEF RunAppend, AppendLocked, Push, RedisRetry, AppendReturns,
                    AppendRaises, EndAppend
<1>4. ASSUME NEW s \in Requests, NEW t \in 1 .. 2, RedisExecutes(s, t) PROVE AppendMoves(r)
  BY <1>t, <1>4 DEF RedisExecutes
<1>5. ASSUME NEW n \in Nodes, Restart(n) PROVE AppendMoves(r)
  BY <1>t, <1>5 DEF Restart
<1>6. CASE ElectionStep
  <2>1. append' = append
    BY <1>6 DEF ElectionStep, Election, TimeoutClaim, TimeoutWait, LockedClaim,
                PostHeartbeat, EndPosts, ReceiveHeartbeat, appendVars
  <2>2. QED
    BY <1>1, <2>1
<1>7. CASE AppendStep
  BY <1>3, <1>4, <1>7 DEF AppendStep
<1>8. ASSUME NEW s \in Requests, NEW n \in Nodes, AskLeader(s, n) PROVE AppendMoves(r)
  BY <1>2, <1>8 DEF AskLeader, StartAppend
<1>9. ASSUME NEW s \in Requests, NEW n \in Nodes, ForwardArrives(s, n) PROVE AppendMoves(r)
  BY <1>2, <1>9 DEF ForwardArrives
<1>10. ASSUME NEW n \in Nodes, ClusterRestart(n) PROVE AppendMoves(r)
  BY <1>5, <1>10 DEF ClusterRestart
<1>11. CASE UNCHANGED vars
  BY <1>1, <1>11 DEF vars, appendVars
<1>12. QED
  BY <1>6, <1>7, <1>8, <1>9, <1>10, <1>11
  DEF ClusterNext, clusterVars, AskFollower, AskNobody, ForwardReturns

\* How an answered request stays answered, and when its successors are noted.
ClientMoves(r) ==
  /\ op[r] \in {"local", "true", "false", "error"} => op'[r] = op[r]
  /\ op'[r] = "new" => op[r] = "new"
  /\ \A n : <<r, n>> \in fwd' /\ <<r, n>> \notin fwd => op'[r] # "new"
  /\ \/ after'[r] = after[r]
     \/ /\ op[r] = "new" /\ rlog' = rlog
        /\ after'[r] = {b \in Requests : Answered(b)}

LEMMA ClientMove ==
  ASSUME ClientTypeOK, [ClusterNext]_clusterVars, NEW r \in Requests
  PROVE  ClientMoves(r)
<1>. USE DEF ClientMoves, ClientTypeOK, Asks
<1>1. ASSUME NEW s \in Requests, NEW n \in Nodes, AskLeader(s, n) PROVE ClientMoves(r)
  BY <1>1 DEF AskLeader, AppendNow, AppendWait
<1>2. ASSUME NEW s \in Requests, NEW n \in Nodes, AskFollower(s, n) PROVE ClientMoves(r)
  BY <1>2 DEF AskFollower, vars, appendVars
<1>3. ASSUME NEW s \in Requests, NEW n \in Nodes, AskNobody(s, n) PROVE ClientMoves(r)
  BY <1>3 DEF AskNobody, vars, appendVars
<1>4. ASSUME NEW s \in Requests, NEW n \in Nodes, ForwardArrives(s, n) PROVE ClientMoves(r)
  BY <1>4 DEF ForwardArrives
<1>5. ASSUME NEW s \in Requests, ForwardReturns(s) PROVE ClientMoves(r)
  BY <1>5 DEF ForwardReturns
<1>6. ASSUME NEW n \in Nodes, ClusterRestart(n) PROVE ClientMoves(r)
  BY <1>6 DEF ClusterRestart
<1>7. CASE UNCHANGED clientVars
  BY <1>7 DEF clientVars
<1>8. QED
  BY <1>1, <1>2, <1>3, <1>4, <1>5, <1>6, <1>7 DEF ClusterNext, clusterVars

LEMMA ClientStep ==
  ASSUME LockInv, CountRight, ClientTypeOK, ClientInv, [ClusterNext]_clusterVars
  PROVE  ClientInv'
<1>1. ASSUME NEW b \in Requests, Answered(b)
      PROVE  Answered(b)' /\ op'[b] = op[b]
             /\ (op[b] = "local" => append'[b] = append[b])
  BY <1>1, AppendMove, ClientMove DEF Answered, AppendMoves, ClientMoves
<1>2. ASSUME NEW r \in Requests, op'[r] = "new"
      PROVE  append'[r] = "new" /\ \A n : <<r, n>> \notin fwd'
  <2>1. op[r] = "new" /\ append[r] = "new" /\ \A n : <<r, n>> \notin fwd
    BY <1>2, ClientMove DEF ClientMoves, ClientInv
  <2>2. \A n \in Nodes : ~AskLeader(r, n) /\ ~ForwardArrives(r, n)
    BY <1>2, <2>1 DEF AskLeader, Asks, ForwardArrives, ClientTypeOK
  <2>3. QED
    BY <1>2, <2>1, <2>2, AppendMove, ClientMove DEF AppendMoves, ClientMoves
<1>3. ASSUME NEW r \in Requests, NEW b \in after'[r] PROVE Answered(b)'
  <2>1. b \in Requests /\ Answered(b)
    BY ClientMove DEF ClientMoves, ClientInv, ClientTypeOK
  <2>2. QED
    BY <1>1, <2>1
<1>4. QED
  BY <1>2, <1>3 DEF ClientInv

\* A call that has returned is in the log, one nobody has asked for is not.
LEMMA LogMembers ==
  ASSUME TypeOK, CountRight, ClientInv, NEW r \in Requests
  PROVE  /\ append[r] = "ok" => \E j \in DOMAIN rlog : rlog[j].req = r
         /\ op[r] = "new" => \A j \in DOMAIN rlog : rlog[j].req # r
<1>1. append[r] = "ok" => LoggedAt(r) # {}
  BY DEF CountRight
<1>2. op[r] = "new" => LoggedAt(r) = {}
  <2>1. op[r] = "new" => Cardinality(LoggedAt(r)) + Cardinality(Sent(r)) = 0
    BY DEF CountRight, ClientInv
  <2>2. QED
    BY <2>1, LoggedFinite, SentFinite
<1>3. QED
  BY <1>1, <1>2 DEF LoggedAt

LEMMA LogGrows ==
  ASSUME LockInv, [ClusterNext]_clusterVars
  PROVE  rlog' = rlog \/ \E e \in Entry : rlog' = Append(rlog, e)
<1>1. [Next]_vars
  BY ClusterStep
<1>2. ASSUME NEW r \in Requests, NEW t \in 1 .. 2, RedisExecutes(r, t)
      PROVE  \E e \in Entry : rlog' = Append(rlog, e)
  <2>1. [req |-> r, by |-> at[r], term |-> stamp[r]] \in Entry
    BY <1>2 DEF LockInv, TypeOK, Entry, Located, RedisExecutes
  <2>2. QED
    BY <1>2, <2>1 DEF RedisExecutes
<1>3. ASSUME NEW n \in Nodes, Election(n) \/ Restart(n) PROVE rlog' = rlog
  BY <1>3 DEF Election, TimeoutClaim, TimeoutWait, LockedClaim, PostHeartbeat,
              EndPosts, Restart, appendVars
<1>4. ASSUME NEW m \in net, ReceiveHeartbeat(m) PROVE rlog' = rlog
  BY <1>4 DEF ReceiveHeartbeat, appendVars
<1>5. ASSUME NEW r \in Requests, NEW n \in Nodes, StartAppend(r, n) PROVE rlog' = rlog
  BY <1>5 DEF StartAppend, RefuseAppend, AppendNow, AppendWait
<1>6. ASSUME NEW r \in Requests, RunAppend(r) PROVE rlog' = rlog
  BY <1>6 DEF RunAppend, AppendLocked, RedisRetry, AppendReturns, AppendRaises, EndAppend
<1>7. CASE UNCHANGED vars
  BY <1>7 DEF vars, appendVars
<1>8. QED
  BY <1>1, <1>2, <1>3, <1>4, <1>5, <1>6, <1>7 DEF Next

LEMMA LogOrderStep ==
  ASSUME LockInv, CountRight, ClientTypeOK, ClientInv, LogOrder,
         [ClusterNext]_clusterVars
  PROVE  LogOrder'
<1>. SUFFICES ASSUME NEW r \in Requests, NEW b \in after'[r],
                     op'[b] = "local", append'[b] = "ok",
                     NEW i \in DOMAIN rlog', rlog'[i].req = r
              PROVE  \E j \in 1 .. i - 1 : rlog'[j].req = b
  BY DEF LogOrder
<1>1. b \in Requests /\ Answered(b)
  BY ClientMove DEF ClientMoves, ClientInv, ClientTypeOK
<1>2. op[b] = "local" /\ append[b] = "ok"
  BY <1>1, AppendMove, ClientMove DEF Answered, AppendMoves, ClientMoves
<1>3. /\ TypeOK /\ rlog \in Seq(Entry) /\ Len(rlog) \in Nat
      /\ DOMAIN rlog = 1 .. Len(rlog)
  BY LenProperties DEF LockInv, TypeOK
<1>4. CASE b \notin after[r]
  <2>1. op[r] = "new" /\ rlog' = rlog
    BY <1>4, ClientMove DEF ClientMoves
  <2>2. QED
    BY <1>3, <2>1, LogMembers
<1>5. CASE b \in after[r]
  <2>1. \A k \in DOMAIN rlog : rlog[k].req = r => \E j \in 1 .. k - 1 : rlog[j].req = b
    BY <1>2, <1>5 DEF LogOrder
  <2>2. CASE rlog' = rlog
    BY <2>1, <2>2
  <2>3. ASSUME NEW e \in Entry, rlog' = Append(rlog, e)
        PROVE  \E j \in 1 .. i - 1 : rlog'[j].req = b
    <3>1. /\ DOMAIN rlog' = 1 .. Len(rlog) + 1
          /\ \A k \in 1 .. Len(rlog) : rlog'[k] = rlog[k]
      BY <1>3, <2>3, AppendProperties, LenProperties
    <3>2. CASE i \in 1 .. Len(rlog)
      <4>1. PICK j \in 1 .. i - 1 : rlog[j].req = b
        BY <1>3, <2>1, <3>1, <3>2
      <4>2. j \in 1 .. Len(rlog)
        BY <1>3, <3>2, <4>1
      <4>3. QED
        BY <3>1, <4>1, <4>2
    <3>3. CASE i = Len(rlog) + 1
      <4>1. PICK j \in 1 .. Len(rlog) : rlog[j].req = b
        BY <1>1, <1>2, <1>3, LogMembers
      <4>2. j \in 1 .. i - 1
        BY <1>3, <3>3, <4>1
      <4>3. QED
        BY <3>1, <4>1, <4>2
    <3>4. QED
      BY <1>3, <3>1, <3>2, <3>3
  <2>4. QED
    BY <2>2, <2>3, LogGrows
<1>6. QED
  BY <1>4, <1>5

-----------------------------------------------------------------------------

\* The inductive invariant behind LogOrder.
ClusterInv == ClientTypeOK /\ ClientInv /\ LogOrder

LEMMA ClusterInvInit == ClusterInit => ClusterInv
BY DEF ClusterInit, Init, ClusterInv, ClientTypeOK, Ops, ClientInv, LogOrder

LEMMA ClusterInvStep ==
  LockInv /\ CountRight /\ ClusterInv /\ [ClusterNext]_clusterVars => ClusterInv'
<1>1. LockInv => TypeOK
  BY DEF LockInv
<1>2. QED
  BY <1>1, ClientTypeStep, ClientStep, LogOrderStep DEF ClusterInv

LEMMA ClusterInvariant == ClusterSpec => [](LockInv /\ CountRight /\ ClusterInv)
BY ClusterImplementsRaft, LogInvariant, ClusterInvInit, ClusterInvStep, PTL DEF ClusterSpec

\* Clients, nodes and the log keep their types (lock_manager.py:25-73).
THEOREM ClusterTypes == ClusterSpec => []ClusterTypeOK
<1>1. LockInv /\ ClusterInv => ClusterTypeOK
  BY DEF LockInv, ClusterInv, ClientTypeOK, Ops, ClusterTypeOK
<1>2. QED
  BY <1>1, ClusterInvariant, PTL

\* Whatever is elected, repeated, forwarded late or dies: what the leader has
\* answered a client comes in the log before all that is asked afterwards, at
\* whatever node (lock_manager.py:25-73, raft_redis.py:48-58).
THEOREM LogKeepsOrder == ClusterSpec => []LogOrder
<1>1. ClusterInv => LogOrder
  BY DEF ClusterInv
<1>2. QED
  BY <1>1, ClusterInvariant, PTL

-----------------------------------------------------------------------------
(* What the replicas read *)

\* The cmd fields of the list: the variable log of LockManager.
Commands == [i \in DOMAIN rlog |-> Cmd[rlog[i].req]]

\* One step of LockManager's AppendCommand.
CommandAppended == \E cmd \in Command : Commands' = Append(Commands, cmd)

\* A step of the cluster appends one command to what the replicas read, or nothing.
LEMMA CommandsStep ==
  LockInv /\ [ClusterNext]_clusterVars => [CommandAppended]_Commands
<1>. SUFFICES ASSUME LockInv, [ClusterNext]_clusterVars, rlog' # rlog
              PROVE  CommandAppended
  BY DEF Commands
<1>0. TypeOK
  BY DEF LockInv
<1>1. PICK e \in Entry : rlog' = Append(rlog, e)
  BY LogGrows
<1>2. rlog \in Seq(Entry) /\ e.req \in Requests
  BY <1>0 DEF TypeOK, Entry
<1>3. /\ Len(rlog) \in Nat /\ DOMAIN rlog = 1 .. Len(rlog)
      /\ DOMAIN rlog' = 1 .. Len(rlog) + 1
      /\ \A i \in 1 .. Len(rlog) : rlog'[i] = rlog[i]
      /\ rlog'[Len(rlog) + 1] = e
  BY <1>1, <1>2, AppendProperties, LenProperties
<1>4. ASSUME NEW i \in 1 .. Len(rlog) PROVE rlog[i].req \in Requests
  <2>1. rlog[i] \in Entry
    BY <1>2, ElementOfSeq
  <2>2. QED
    BY <2>1 DEF Entry
<1>5. Cmd[e.req] \in Command /\ \A q \in Requests : Cmd[q] \in Command
  BY <1>2, ClientsAssumption DEF Command
<1>6. Commands \in Seq(Command) /\ Len(Commands) = Len(rlog)
  BY <1>3, <1>4, <1>5 DEF Commands
<1>7. Commands' = [i \in 1 .. Len(rlog) + 1 |->
                    IF i = Len(rlog) + 1 THEN Cmd[e.req] ELSE Commands[i]]
  BY <1>3 DEF Commands
<1>8. Append(Commands, Cmd[e.req]) =
        [i \in 1 .. Len(rlog) + 1 |->
           IF i = Len(rlog) + 1 THEN Cmd[e.req] ELSE Commands[i]]
  BY <1>3, <1>5, <1>6
<1>9. QED
  BY <1>5, <1>7, <1>8 DEF CommandAppended

\* The log the cluster writes is one LockManager's replicas may read: empty at
\* first, and one command longer at a time, nothing else (raft_redis.py:48-58,
\* lock_manager.py:21-28).
THEOREM ClusterFeedsReplicas ==
  ClusterSpec => Commands = << >> /\ [][CommandAppended]_Commands
<1>1. ClusterInit => Commands = << >>
  BY DEF ClusterInit, Init, Commands
<1>2. QED
  BY <1>1, CommandsStep, ClusterInvariant, PTL DEF ClusterSpec

=============================================================================
