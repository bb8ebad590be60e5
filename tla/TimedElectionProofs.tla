------------------------ MODULE TimedElectionProofs ------------------------
(***************************************************************************)
(* How long a silent leader is believed in, for any time-outs and any       *)
(* number of nodes, peers and terms.                                        *)
(***************************************************************************)
EXTENDS TimedElection, RaftRedisProofs

\* No call holds a lock, so no claim waits for one.
NoWaits == \A n \in Nodes : lockq[n] = << >> /\ beat[n] # "claim"

\* Only a restart takes a node away from the bound on terms.
TermsCapped == /\ \A n \in Nodes : term[n] <= MaxTerm
               /\ \A m \in net : m.term <= MaxTerm

Clocks == age \in [Nodes -> Nat] /\ spent \in [Nodes -> Nat]

\* A post, and j of them, take no longer than this.
Post == PostMax + Lag
Posts(j) == Post * j

\* How old what n believes may be when its sleep, or its post, begins: asleep it
\* has looked at the beginning, or has posted to all its peers.
Since(n) ==
  IF beat[n] = "idle" THEN Larger(Timeout, Posts(Len(Peers[n])))
  ELSE IF left[n] = Peers[n] THEN 0
  ELSE Posts(Len(Peers[n]) - Len(left[n]) - 1)

InTime(n) ==
  /\ spent[n] <= Deadline(n)
  /\ age[n] <= Since(n) + spent[n]
  /\ left[n] = Peers[n] \/ Len(left[n]) < Len(Peers[n]) \/ beat[n] = "idle"

\* The inductive invariant behind FailoverBound.
TimedInv ==
  NoWaits /\ TermsCapped /\ Clocks /\ \A n \in Nodes : ~Capped(n) => InTime(n)

-----------------------------------------------------------------------------

\* A step in seconds is a step of the election, or none: what RaftRedis
\* guarantees holds here too.
LEMMA TimedStep == [TimedNext]_timedVars => [Next]_vars
BY DEF TimedNext, timedVars, Tick, LookAndClaim, LookAndSleep, NextWait, Hear,
       TimedRestart, Next, Election

LEMMA Implements == TimedSpec => Spec
<1>1. TimedInit => Init
  BY DEF TimedInit
<1>2. QED
  BY <1>1, TimedStep, PTL DEF TimedSpec, Spec

\* One more post fits in the time of one more peer.
LEMMA MorePosts ==
  /\ Post \in Nat
  /\ Posts(0) = 0
  /\ \A j \in Nat : Posts(j) \in Nat /\ Posts(j + 1) = Posts(j) + Post
  /\ \A i, j \in Nat : i <= j => Posts(i) <= Posts(j)
<1>1. Post \in Nat
  BY TimesAssumption DEF Post
<1>. HIDE DEF Post
<1>2. ASSUME NEW i \in Nat, NEW d \in Nat
      PROVE  Post * i \in Nat /\ Post * (i + d) = Post * i + Post * d
  BY <1>1
<1>3. ASSUME NEW i \in Nat, NEW j \in Nat, i <= j PROVE Post * i <= Post * j
  <2>1. PICK d \in Nat : j = i + d
    BY <1>3
  <2>2. QED
    BY <1>1, <1>2, <2>1
<1>4. Post * 0 = 0 /\ Post * 1 = Post
  BY <1>1
<1>5. QED
  BY <1>1, <1>2, <1>3, <1>4 DEF Posts

LEMMA LargerBounds ==
  ASSUME NEW i \in Nat, NEW j \in Nat
  PROVE  Larger(i, j) \in Nat /\ Larger(i, j) >= i /\ Larger(i, j) >= j
BY DEF Larger

LEMMA Constants ==
  ASSUME NEW n \in Nodes
  PROVE  /\ Timeout \in Nat /\ Period \in Nat /\ Lag \in Nat /\ Post \in Nat
         /\ Len(Peers[n]) \in Nat /\ Posts(Len(Peers[n])) \in Nat
         /\ Larger(Timeout, Posts(Len(Peers[n]))) \in Nat
         /\ Larger(Timeout, Posts(Len(Peers[n]))) >= Timeout
         /\ Larger(Timeout, Posts(Len(Peers[n]))) >= Posts(Len(Peers[n]))
<1>1. Timeout \in Nat /\ Period \in Nat /\ Lag \in Nat /\ PostMax \in Nat
  BY TimesAssumption
<1>2. Len(Peers[n]) \in Nat
  BY PeersAssumption
<1>3. Post \in Nat /\ Posts(Len(Peers[n])) \in Nat
  BY <1>2, MorePosts
<1>4. QED
  BY <1>1, <1>2, <1>3, LargerBounds

LEMMA StateTypes ==
  ASSUME TypeOK, TimedInv, NEW n \in Nodes
  PROVE  /\ beat[n] \in {"idle", "post"}
         /\ left[n] \in Seq(Nodes) /\ Len(left[n]) \in Nat
         /\ age[n] \in Nat /\ spent[n] \in Nat
BY DEF TypeOK, TimedInv, NoWaits, Clocks

LEMMA BoundTypes ==
  ASSUME TypeOK, TimedInv, NEW n \in Nodes, InTime(n)
  PROVE  Since(n) \in Nat /\ Deadline(n) \in Nat
<1>1. Deadline(n) \in Nat
  BY TimesAssumption DEF Deadline
<1>2. CASE beat[n] = "idle"
  <2>1. Since(n) = Larger(Timeout, Posts(Len(Peers[n])))
    BY <1>2 DEF Since
  <2>2. QED
    BY <1>1, <2>1, Constants
<1>3. CASE beat[n] # "idle" /\ left[n] = Peers[n]
  BY <1>1, <1>3 DEF Since
<1>4. CASE beat[n] # "idle" /\ left[n] # Peers[n]
  <2>. DEFINE over == Len(Peers[n]) - Len(left[n]) - 1
  <2>1. over \in Nat
    BY <1>4, StateTypes, Constants DEF InTime
  <2>2. Since(n) = Posts(over)
    BY <1>4 DEF Since
  <2>. HIDE DEF over
  <2>3. QED
    BY <1>1, <2>1, <2>2, MorePosts
<1>5. QED
  BY <1>2, <1>3, <1>4

\* When a post ends, what n believes is no older than all the posts so far.
LEMMA PostsSoFar ==
  ASSUME TypeOK, TimedInv, NEW n \in Nodes, InTime(n), beat[n] = "post"
  PROVE  /\ Len(left[n]) <= Len(Peers[n])
         /\ Posts(Len(Peers[n]) - Len(left[n])) \in Nat
         /\ Posts(Len(Peers[n]) - Len(left[n])) <= Posts(Len(Peers[n]))
         /\ age[n] <= Posts(Len(Peers[n]) - Len(left[n]))
<1>. DEFINE done == Len(Peers[n]) - Len(left[n])
<1>1. /\ Len(left[n]) \in Nat /\ Len(Peers[n]) \in Nat /\ Post \in Nat
  BY StateTypes, Constants
<1>2. /\ Len(left[n]) <= Len(Peers[n]) /\ done \in Nat /\ done <= Len(Peers[n])
      /\ left[n] # Peers[n] => done - 1 \in Nat
  <2>1. CASE left[n] = Peers[n]
    BY <1>1, <2>1
  <2>2. CASE left[n] # Peers[n]
    <3>1. Len(left[n]) < Len(Peers[n])
      BY <2>2 DEF InTime
    <3>2. ASSUME NEW i \in Nat, NEW j \in Nat, i < j
          PROVE  i <= j /\ j - i \in Nat /\ j - i <= j /\ j - i - 1 \in Nat
      BY <3>2
    <3>3. QED
      BY <1>1, <3>1, <3>2
  <2>3. QED
    BY <2>1, <2>2
<1>3. Since(n) + Deadline(n) = Posts(done)
  <2>1. CASE left[n] = Peers[n]
    <3>1. Posts(done) = 0
      BY <1>1, <2>1, MorePosts
    <3>2. QED
      BY <2>1, <3>1 DEF Since, Deadline
  <2>2. CASE left[n] # Peers[n]
    <3>1. Since(n) = Posts(done - 1) /\ Deadline(n) = Post
      BY <2>2 DEF Since, Deadline, Post
    <3>. HIDE DEF done
    <3>2. done = (done - 1) + 1
      BY <1>2
    <3>3. Posts(done) = Posts(done - 1) + Post
      BY <1>2, <2>2, <3>2, MorePosts
    <3>4. QED
      BY <3>1, <3>3
  <2>3. QED
    BY <2>1, <2>2
<1>4. age[n] <= Since(n) + Deadline(n)
  BY BoundTypes, StateTypes DEF InTime
<1>. HIDE DEF done
<1>5. Posts(done) \in Nat /\ Posts(done) <= Posts(Len(Peers[n]))
  BY <1>1, <1>2, MorePosts
<1>6. QED
  BY <1>2, <1>3, <1>4, <1>5 DEF done

LEMMA TimedInvInit == TimedInit => TimedInv
<1>. SUFFICES ASSUME TimedInit PROVE TimedInv
  OBVIOUS
<1>. USE DEF TimedInit, Init
<1>1. NoWaits /\ TermsCapped /\ Clocks
  BY MaxTermAssumption, TimesAssumption DEF NoWaits, TermsCapped, Clocks
<1>2. ASSUME NEW n \in Nodes PROVE InTime(n)
  <2>1. beat[n] = "idle" /\ age[n] = 0 /\ spent[n] = Period
    OBVIOUS
  <2>2. Since(n) \in Nat
    BY <2>1, Constants DEF Since
  <2>3. QED
    BY <2>1, <2>2, Constants DEF InTime, Deadline
<1>3. QED
  BY <1>1, <1>2 DEF TimedInv

\* What the steps do to the parts that do not depend on time.
LEMMA UntimedStep ==
  ASSUME TypeOK, TimedInv, [TimedNext]_timedVars
  PROVE  NoWaits' /\ TermsCapped' /\ Clocks'
<1>. DEFINE U == NoWaits /\ TermsCapped /\ Clocks
<1>. USE MaxTermAssumption, TimesAssumption
     DEF TypeOK, TimedInv, NoWaits, TermsCapped, Clocks
<1>1. CASE Tick
  BY <1>1 DEF Tick, vars, electionVars
<1>2. ASSUME NEW n \in Nodes, LookAndClaim(n) PROVE U'
  BY <1>2 DEF LookAndClaim, Looks, TimeoutClaim, BecomeLeader
<1>3. ASSUME NEW n \in Nodes, LookAndSleep(n) PROVE U'
  BY <1>3 DEF LookAndSleep, Looks, vars, electionVars
<1>4. ASSUME NEW n \in Nodes, NextWait(n) PROVE U'
  BY <1>4 DEF NextWait, PostHeartbeat, EndPosts
<1>5. ASSUME NEW n \in Nodes, TimedRestart(n) PROVE U'
  BY <1>5 DEF TimedRestart, Restart
<1>6. ASSUME NEW m \in net, Hear(m) PROVE U'
  <2>1. m.to \in Nodes /\ m.term \in Nat
    BY DEF Heartbeat
  <2>2. QED
    BY <1>6, <2>1 DEF Hear, ReceiveHeartbeat
<1>7. CASE UNCHANGED timedVars
  BY <1>7 DEF timedVars, vars, electionVars
<1>8. QED
  BY <1>1, <1>2, <1>3, <1>4, <1>5, <1>6, <1>7 DEF TimedNext

\* A node to which nothing happens, or that hears a heartbeat, is in time.
LEMMA NothingHappens ==
  ASSUME TypeOK, TimedInv, NEW k \in Nodes, ~Capped(k),
         beat'[k] = beat[k], left'[k] = left[k], spent'[k] = spent[k],
         age'[k] \in {0, age[k]}
  PROVE  InTime(k)'
<1>1. InTime(k)
  BY DEF TimedInv
<1>2. Since(k)' = Since(k) /\ Deadline(k)' = Deadline(k)
  BY DEF Since, Deadline
<1>3. QED
  BY <1>1, <1>2, BoundTypes, StateTypes DEF InTime

LEMMA InTimeStep ==
  ASSUME TypeOK, TimedInv, [TimedNext]_timedVars,
         NEW k \in Nodes, ~Capped(k)'
  PROVE  InTime(k)'
<1>t. /\ term \in [Nodes -> Nat] /\ leader \in [Nodes -> Nodes \cup {None}]
      /\ beat \in [Nodes -> {"idle", "claim", "post"}]
      /\ left \in [Nodes -> Seq(Nodes)]
      /\ age \in [Nodes -> Nat] /\ spent \in [Nodes -> Nat]
  BY DEF TypeOK, TimedInv, Clocks
<1>i. ~Capped(k) => InTime(k)
  BY DEF TimedInv
<1>1. CASE Tick
  <2>1. ~Capped(k) /\ UNCHANGED <<term, leader, beat, left>>
    BY <1>1 DEF Tick, vars, electionVars, Capped
  <2>2. /\ spent[k] < Deadline(k) /\ spent'[k] = spent[k] + 1
        /\ age'[k] = 0 \/ age'[k] = age[k] + 1
    BY <1>1, <1>t, <2>1 DEF Tick
  <2>3. Since(k)' = Since(k) /\ Deadline(k)' = Deadline(k)
    BY <2>1 DEF Since, Deadline
  <2>4. InTime(k)
    BY <1>i, <2>1
  <2>5. QED
    BY <2>1, <2>2, <2>3, <2>4, BoundTypes, StateTypes DEF InTime
<1>2. ASSUME NEW n \in Nodes, LookAndClaim(n) PROVE InTime(k)'
  <2>1. CASE n = k
    <3>1. /\ beat'[k] = "post" /\ left'[k] = Peers[k]
          /\ age'[k] = 0 /\ spent'[k] = 0
      BY <1>2, <1>t, <2>1 DEF LookAndClaim, Looks, TimeoutClaim, BecomeLeader
    <3>2. QED
      BY <3>1 DEF InTime, Since, Deadline
  <2>2. CASE n # k
    <3>1. /\ beat'[k] = beat[k] /\ left'[k] = left[k] /\ term'[k] = term[k]
          /\ age'[k] = age[k] /\ spent'[k] = spent[k]
      BY <1>2, <1>t, <2>2 DEF LookAndClaim, Looks, TimeoutClaim, BecomeLeader
    <3>2. QED
      BY <3>1, NothingHappens DEF Capped
  <2>3. QED
    BY <2>1, <2>2
<1>3. ASSUME NEW n \in Nodes, LookAndSleep(n) PROVE InTime(k)'
  <2>1. UNCHANGED <<term, beat, left, age>>
    BY <1>3 DEF LookAndSleep, vars, electionVars
  <2>2. CASE n # k
    <3>1. spent'[k] = spent[k]
      BY <1>3, <1>t, <2>2 DEF LookAndSleep, Looks
    <3>2. QED
      BY <2>1, <3>1, NothingHappens DEF Capped
  <2>3. CASE n = k
    <3>1. spent'[k] = 0 /\ beat[k] = "idle" /\ age[k] <= Timeout
      BY <1>3, <1>t, <2>3 DEF LookAndSleep, Looks
    <3>2. /\ Since(k)' = Larger(Timeout, Posts(Len(Peers[k])))
          /\ Deadline(k)' = Period + Lag
      BY <2>1, <3>1 DEF Since, Deadline
    <3>3. QED
      BY <2>1, <3>1, <3>2, Constants, StateTypes DEF InTime
  <2>4. QED
    BY <2>2, <2>3
<1>4. ASSUME NEW n \in Nodes, NextWait(n) PROVE InTime(k)'
  <2>1. UNCHANGED <<term, age>>
    BY <1>4 DEF NextWait, PostHeartbeat, EndPosts
  <2>2. CASE n # k
    <3>1. beat'[k] = beat[k] /\ left'[k] = left[k] /\ spent'[k] = spent[k]
      BY <1>4, <1>t, <2>2 DEF NextWait, PostHeartbeat, EndPosts
    <3>2. QED
      BY <2>1, <3>1, NothingHappens DEF Capped
  <2>3. CASE n = k
    <3>1. InTime(k) /\ spent'[k] = 0 /\ beat[k] = "post"
      BY <1>4, <1>i, <1>t, <2>1, <2>3 DEF NextWait, Capped, PostHeartbeat, EndPosts
    <3>2. /\ Len(left[k]) <= Len(Peers[k])
          /\ age[k] <= Posts(Len(Peers[k]) - Len(left[k]))
          /\ Posts(Len(Peers[k]) - Len(left[k])) \in Nat
      BY <3>1, PostsSoFar
    <3>3. Deadline(k)' \in Nat
      BY TimesAssumption DEF Deadline
    <3>4. CASE PostHeartbeat(k)
      <4>1. beat'[k] = "post" /\ left'[k] = Tail(left[k]) /\ left[k] # << >>
        BY <1>t, <3>1, <3>4 DEF PostHeartbeat
      <4>2. Len(left'[k]) = Len(left[k]) - 1
        BY <1>t, <4>1
      <4>n. Len(left[k]) \in Nat /\ Len(Peers[k]) \in Nat
        BY StateTypes, Constants
      <4>3. Len(left'[k]) < Len(Peers[k])
        BY <3>2, <4>2, <4>n
      <4>4. Len(Peers[k]) - Len(left'[k]) - 1 = Len(Peers[k]) - Len(left[k])
        BY <4>2, <4>n
      <4>5. left'[k] # Peers[k]
        BY <4>3, Constants
      <4>6. Since(k)' = Posts(Len(Peers[k]) - Len(left[k]))
        BY <4>1, <4>4, <4>5 DEF Since
      <4>7. QED
        <5>1. age'[k] <= Since(k)' + spent'[k]
          BY <1>t, <2>1, <3>1, <3>2, <4>6
        <5>2. QED
          BY <3>1, <3>3, <4>3, <5>1 DEF InTime
    <3>5. CASE EndPosts(k)
      <4>1. beat'[k] = "idle" /\ left[k] = << >>
        BY <1>t, <3>5 DEF EndPosts
      <4>2. Len(Peers[k]) - Len(left[k]) = Len(Peers[k])
        BY <4>1, Constants
      <4>3. Since(k)' = Larger(Timeout, Posts(Len(Peers[k])))
        BY <4>1 DEF Since
      <4>4. age'[k] <= Since(k)' + spent'[k]
        <5>1. /\ age[k] <= Posts(Len(Peers[k])) /\ age[k] \in Nat
              /\ age'[k] = age[k] /\ spent'[k] = 0
          BY <1>t, <2>1, <3>1, <3>2, <4>2
        <5>2. /\ Posts(Len(Peers[k])) \in Nat
              /\ Larger(Timeout, Posts(Len(Peers[k]))) \in Nat
              /\ Larger(Timeout, Posts(Len(Peers[k]))) >= Posts(Len(Peers[k]))
          BY Constants
        <5>3. QED
          BY <4>3, <5>1, <5>2
      <4>5. QED
        BY <3>1, <3>3, <4>1, <4>4 DEF InTime
    <3>6. QED
      BY <1>4, <2>3, <3>4, <3>5 DEF NextWait
  <2>4. QED
    BY <2>2, <2>3
<1>5. ASSUME NEW n \in Nodes, TimedRestart(n) PROVE InTime(k)'
  <2>1. CASE n = k
    <3>1. beat'[k] = "idle" /\ age'[k] = 0 /\ spent'[k] = Period
      BY <1>5, <1>t, <2>1 DEF TimedRestart, Restart
    <3>2. Since(k)' \in Nat
      BY <3>1, Constants DEF Since
    <3>3. QED
      BY <3>1, <3>2, Constants DEF InTime, Deadline
  <2>2. CASE n # k
    <3>1. /\ beat'[k] = beat[k] /\ left'[k] = left[k] /\ term'[k] = term[k]
          /\ age'[k] = age[k] /\ spent'[k] = spent[k]
      BY <1>5, <1>t, <2>2 DEF TimedRestart, Restart
    <3>2. QED
      BY <3>1, NothingHappens DEF Capped
  <2>3. QED
    BY <2>1, <2>2
<1>6. ASSUME NEW m \in net, Hear(m) PROVE InTime(k)'
  <2>1. m.to \in Nodes /\ m.term \in Nat /\ m.term <= MaxTerm
    BY DEF TypeOK, Heartbeat, TimedInv, TermsCapped
  <2>2. /\ UNCHANGED <<beat, left, spent>>
        /\ age'[k] \in {0, age[k]}
    BY <1>6, <1>t, <2>1 DEF Hear, ReceiveHeartbeat
  <2>3. ~Capped(k)
    <3>1. CASE k = m.to /\ m.term >= term[k]
      <4>1. term'[k] = m.term
        BY <1>6, <1>t, <3>1 DEF Hear, ReceiveHeartbeat
      <4>2. QED
        BY <1>t, <2>1, <3>1, <4>1, MaxTermAssumption DEF Capped
    <3>2. CASE ~(k = m.to /\ m.term >= term[k])
      <4>1. term'[k] = term[k]
        BY <1>6, <1>t, <2>1, <3>2 DEF Hear, ReceiveHeartbeat
      <4>2. QED
        BY <4>1 DEF Capped
    <3>3. QED
      BY <3>1, <3>2
  <2>4. QED
    BY <2>2, <2>3, NothingHappens
<1>7. CASE UNCHANGED timedVars
  BY <1>7, NothingHappens DEF timedVars, vars, electionVars, Capped
<1>8. QED
  BY <1>1, <1>2, <1>3, <1>4, <1>5, <1>6, <1>7 DEF TimedNext

LEMMA TimedInvariant == TimedSpec => [](TypeOK /\ TimedInv)
<1>1. TimedSpec => []TypeOK
  BY Implements, TypeCorrect, PTL
<1>2. TypeOK /\ TimedInv /\ [TimedNext]_timedVars => TimedInv'
  BY UntimedStep, InTimeStep DEF TimedInv
<1>3. QED
  BY <1>1, <1>2, TimedInvInit, PTL DEF TimedSpec

\* A leader that is not heard is given up after three seconds or the time of the
\* posts, and one more look, for any number of peers and any times
\* (raft_redis.py:27-38, message_passing.py:22, metrics.py:134).
THEOREM FailsOver == TimedSpec => []FailoverBound
<1>1. TypeOK /\ TimedInv => FailoverBound
  <2>. SUFFICES ASSUME TypeOK, TimedInv, NEW n \in Nodes, ~Capped(n)
                PROVE  age[n] <= Larger(Timeout, Posts(Len(Peers[n]))) + Period + Lag
    BY DEF FailoverBound, Posts, Post
  <2>1. InTime(n)
    BY DEF TimedInv
  <2>2. age[n] <= Since(n) + Deadline(n)
    BY <2>1, BoundTypes, StateTypes DEF InTime
  <2>3. CASE beat[n] = "idle"
    <3>1. /\ Since(n) = Larger(Timeout, Posts(Len(Peers[n])))
          /\ Deadline(n) = Period + Lag
      BY <2>3 DEF Since, Deadline
    <3>2. QED
      BY <2>2, <3>1, Constants, StateTypes
  <2>4. CASE beat[n] = "post"
    <3>1. age[n] <= Posts(Len(Peers[n])) /\ age[n] \in Nat
      <4>. DEFINE done == Len(Peers[n]) - Len(left[n])
      <4>1. Posts(done) \in Nat /\ Posts(done) <= Posts(Len(Peers[n])) /\ age[n] <= Posts(done)
        BY <2>1, <2>4, PostsSoFar
      <4>. HIDE DEF done
      <4>2. Posts(Len(Peers[n])) \in Nat /\ age[n] \in Nat
        BY Constants, StateTypes
      <4>3. QED
        BY <4>1, <4>2
    <3>2. /\ Timeout \in Nat /\ Period \in Nat /\ Lag \in Nat
          /\ Posts(Len(Peers[n])) \in Nat
          /\ Larger(Timeout, Posts(Len(Peers[n]))) \in Nat
          /\ Larger(Timeout, Posts(Len(Peers[n]))) >= Posts(Len(Peers[n]))
      BY Constants
    <3>3. QED
      BY <3>1, <3>2
  <2>5. QED
    BY <2>3, <2>4, StateTypes
<1>2. QED
  BY <1>1, TimedInvariant, PTL

\* With clocks, leaders and terms are those of RaftRedis: a leader is one that
\* has claimed, and terms do not fall back (raft_redis.py:24-46).
THEOREM TimedLeaders == TimedSpec => []LeadershipClaimed /\ TermGrows
BY Implements, LeadersClaimed, TermsGrow, PTL

=============================================================================
