------------------------- MODULE LockManagerProofs -------------------------
(***************************************************************************)
(* The safety of LockManager for any nodes, resources, owners and modes and *)
(* a log of any length, on a Redis that may lose the end of the log.  Two   *)
(* inductive invariants: TableInv gives the well-formedness of every        *)
(* replica; ReplicaInv adds that replicas follow the log as long as they    *)
(* have counted nothing that was lost.  HistoryHolds, beside them, says     *)
(* what replicas at different places in the log may disagree about.         *)
(***************************************************************************)
EXTENDS LockManager, LockTableProofs, SequenceTheorems

\* The history has the table of every prefix, the empty one included, and an
\* index that is being fetched is not the -1 of __init__.
Shape ==
  /\ Len(history) = Len(log) + 1
  /\ \A n \in Nodes : loop[n] = "fetch" => lastApplied[n] >= 0

TableInv == TypeOK /\ Shape /\ LocksWellFormed

\* The history is the run of Apply over the log.
HistoryOfLog ==
  /\ history[1] = EmptyTable
  /\ \A k \in 1 .. Len(log) : history[k + 1] = Apply(history[k], log[k])

\* The loop has read no length, and takes no entry, past the end of the log.
FetchInLog ==
  \A n \in Nodes \ stranded :
    loop[n] = "fetch" => length[n] <= Len(log) /\ lastApplied[n] < Len(log)

ReplicaInv == TypeOK /\ Shape /\ HistoryOfLog /\ FetchInLog /\ ReplicaOfLog

-----------------------------------------------------------------------------

\* An entry fetched from the log leaves the table well typed and well formed;
\* one that Redis no longer has leaves it alone.
LEMMA FetchedGood ==
  ASSUME TableInv, NEW n \in Nodes, loop[n] = "fetch"
  PROVE  /\ Fetched(n) \in Table
         /\ TableWellFormed(Fetched(n))
<1>1. locks[n] \in Table /\ TableWellFormed(locks[n])
  BY DEF TableInv, TypeOK, LocksWellFormed
<1>2. CASE lastApplied[n] < Len(log)
  <2>1. lastApplied[n] \in Nat /\ log \in Seq(Command)
    BY DEF TableInv, TypeOK, Shape
  <2>2. log[lastApplied[n] + 1] \in Command
    BY <1>2, <2>1
  <2>3. QED
    BY <1>1, <1>2, <2>2, ApplyType, ApplyWellFormed DEF Fetched
<1>3. CASE ~(lastApplied[n] < Len(log))
  BY <1>1, <1>3 DEF Fetched
<1>4. QED
  BY <1>2, <1>3

LEMMA TableInvInit == Init => TableInv
BY EmptyTableGood
   DEF Init, TableInv, TypeOK, Shape, LocksWellFormed

LEMMA TableInvStep == TableInv /\ [Next \/ RedisLosesTail]_vars => TableInv'
<1>. SUFFICES ASSUME TableInv, [Next \/ RedisLosesTail]_vars
              PROVE  TableInv'
  OBVIOUS
<1>. USE DEF TableInv, TypeOK, Shape, LocksWellFormed
<1>1. ASSUME NEW cmd \in Command, AppendCommand(cmd) PROVE TableInv'
  <2>1. Apply(history[Len(history)], cmd) \in Table
    BY ApplyType
  <2>2. QED
    BY <1>1, <2>1 DEF AppendCommand
<1>2. ASSUME NEW n \in Nodes, Poll(n) PROVE TableInv'
  BY <1>2 DEF Poll
<1>3. ASSUME NEW n \in Nodes, FetchApply(n) PROVE TableInv'
  <2>1. Fetched(n) \in Table /\ TableWellFormed(Fetched(n))
    BY <1>3, FetchedGood DEF FetchApply
  <2>2. /\ locks' \in [Nodes -> Table]
        /\ LocksWellFormed'
    BY <1>3, <2>1 DEF FetchApply
  <2>3. lastApplied[n] \in Nat
    BY <1>3 DEF FetchApply
  <2>4. /\ lastApplied' \in [Nodes -> Nat \cup {-1}]
        /\ loop' \in [Nodes -> {"poll", "fetch", "dead"}]
        /\ \A m \in Nodes : loop'[m] = "fetch" => lastApplied'[m] >= 0
    <3>1. CASE lastApplied[n] < length[n] - 1
      <4>1. /\ lastApplied' = [lastApplied EXCEPT ![n] = lastApplied[n] + 1]
            /\ UNCHANGED loop
        BY <1>3, <3>1 DEF FetchApply
      <4>2. QED
        BY <2>3, <4>1
    <3>2. CASE ~(lastApplied[n] < length[n] - 1)
      BY <1>3, <2>3, <3>2 DEF FetchApply
    <3>3. QED
      BY <3>1, <3>2
  <2>5. UNCHANGED <<log, length, history, stranded>>
    BY <1>3 DEF FetchApply
  <2>6. QED
    BY <2>2, <2>4, <2>5
<1>4. ASSUME NEW n \in Nodes, LoopDies(n) PROVE TableInv'
  BY <1>4 DEF LoopDies
<1>5. ASSUME NEW n \in Nodes, Restart(n) PROVE TableInv'
  BY <1>5, EmptyTableGood DEF Restart
<1>6. ASSUME RedisLosesTail PROVE TableInv'
  <2>1. PICK k \in 0 .. Len(log) - 1 : /\ log' = SubSeq(log, 1, k)
                                       /\ history' = SubSeq(history, 1, k + 1)
    BY <1>6 DEF RedisLosesTail
  <2>2. log' \in Seq(Command) /\ Len(log') = k
    BY <2>1, SubSeqProperties
  <2>3. history' \in Seq(Table) /\ Len(history') = k + 1
    BY <2>1, SubSeqProperties
  <2>4. QED
    BY <1>6, <2>2, <2>3 DEF RedisLosesTail
<1>7. CASE UNCHANGED vars
  BY <1>7 DEF vars
<1>8. QED
  BY <1>1, <1>2, <1>3, <1>4, <1>5, <1>6, <1>7 DEF Next, Step

\* Whatever the log loses, every variable keeps its type and no replica ever
\* has an exclusive lock with two holders, a free lock with waiters or a request
\* waiting twice (_apply_acquire, _apply_release, lock_manager.py:37-61).
THEOREM LossyTables == LossySpec => [](TypeOK /\ LocksWellFormed)
<1>1. LossySpec => []TableInv
  BY TableInvInit, TableInvStep, PTL DEF LossySpec
<1>2. TableInv => TypeOK /\ LocksWellFormed
  BY DEF TableInv
<1>3. QED
  BY <1>1, <1>2, PTL

\* Types, on a Redis that keeps its log.
THEOREM TypeCorrect == Spec => []TypeOK
<1>1. [Next]_vars => [Next \/ RedisLosesTail]_vars
  OBVIOUS
<1>2. Spec => []TableInv
  BY <1>1, TableInvInit, TableInvStep, PTL DEF Spec
<1>3. TableInv => TypeOK
  BY DEF TableInv
<1>4. QED
  BY <1>2, <1>3, PTL

\* On a Redis that keeps its log no replica has an exclusive lock with two
\* holders, a free lock with waiters or a request waiting twice.
THEOREM TablesWellFormed == Spec => []LocksWellFormed
<1>1. [Next]_vars => [Next \/ RedisLosesTail]_vars
  OBVIOUS
<1>2. Spec => []TableInv
  BY <1>1, TableInvInit, TableInvStep, PTL DEF Spec
<1>3. TableInv => LocksWellFormed
  BY DEF TableInv
<1>4. QED
  BY <1>2, <1>3, PTL

-----------------------------------------------------------------------------

LEMMA ReplicaInvInit == Init => ReplicaInv
BY TableInvInit
   DEF Init, ReplicaInv, TableInv, Shape, HistoryOfLog, FetchInLog,
       ReplicaOfLog, Reflects

LEMMA ReplicaInvStep ==
  ReplicaInv /\ TableInv' /\ [Next \/ RedisLosesTail]_vars => ReplicaInv'
<1>. SUFFICES ASSUME ReplicaInv, TableInv', [Next \/ RedisLosesTail]_vars
              PROVE  ReplicaInv'
  OBVIOUS
<1>0. TypeOK' /\ Shape'
  BY DEF TableInv
<1>. USE DEF ReplicaInv, TypeOK, Shape
<1>1. ASSUME NEW cmd \in Command, AppendCommand(cmd) PROVE ReplicaInv'
  <2>1. /\ Len(log') = Len(log) + 1
        /\ \A k \in 1 .. Len(log) : log'[k] = log[k]
        /\ log'[Len(log) + 1] = cmd
    BY <1>1 DEF AppendCommand
  <2>2. /\ \A k \in 1 .. Len(history) : history'[k] = history[k]
        /\ history'[Len(history) + 1] = Apply(history[Len(history)], cmd)
    BY <1>1 DEF AppendCommand
  <2>3. UNCHANGED <<locks, lastApplied, length, loop, stranded>> /\ Len(log) \in Nat
    BY <1>1 DEF AppendCommand
  <2>4. HistoryOfLog'
    <3>1. history'[1] = EmptyTable
      BY <2>2, <2>3 DEF HistoryOfLog
    <3>2. ASSUME NEW k \in 1 .. Len(log')
          PROVE  history'[k + 1] = Apply(history'[k], log'[k])
      <4>1. CASE k \in 1 .. Len(log)
        <5>1. history[k + 1] = Apply(history[k], log[k])
          BY <4>1 DEF HistoryOfLog
        <5>2. k \in 1 .. Len(history) /\ k + 1 \in 1 .. Len(history)
          BY <2>3, <4>1
        <5>3. QED
          BY <2>1, <2>2, <4>1, <5>1, <5>2
      <4>2. CASE k = Len(log) + 1
        BY <2>1, <2>2, <2>3, <4>2
      <4>3. QED
        BY <2>1, <2>3, <4>1, <4>2
    <3>3. QED
      BY <3>1, <3>2 DEF HistoryOfLog
  <2>5. FetchInLog'
    <3>. SUFFICES ASSUME NEW n \in Nodes \ stranded, loop[n] = "fetch"
                  PROVE  length[n] <= Len(log) + 1 /\ lastApplied[n] < Len(log) + 1
      BY <2>1, <2>3 DEF FetchInLog
    <3>. QED
      BY <2>3 DEF FetchInLog
  <2>6. ASSUME NEW n \in Nodes, NEW k \in Int, Reflects(n, k)
        PROVE  Reflects(n, k)'
    BY <2>1, <2>2, <2>3, <2>6 DEF Reflects
  <2>7. ReplicaOfLog'
    <3>1. SUFFICES ASSUME NEW n \in Nodes \ stranded
                   PROVE  /\ loop[n] = "poll" => Reflects(n, lastApplied[n] + 1)'
                          /\ loop[n] = "fetch" => Reflects(n, lastApplied[n])'
                          /\ loop[n] = "dead" =>
                               \/ Reflects(n, lastApplied[n])'
                               \/ Reflects(n, lastApplied[n] + 1)'
      BY <2>3 DEF ReplicaOfLog
    <3>2. lastApplied[n] \in Int /\ lastApplied[n] + 1 \in Int
      BY <3>1
    <3>3. /\ Reflects(n, lastApplied[n]) => Reflects(n, lastApplied[n])'
          /\ Reflects(n, lastApplied[n] + 1) => Reflects(n, lastApplied[n] + 1)'
      BY <2>3, <2>6, <3>2
    <3>4. QED
      BY <3>3 DEF ReplicaOfLog
  <2>8. QED
    BY <1>0, <2>4, <2>5, <2>7
<1>2. ASSUME NEW n \in Nodes, Poll(n) PROVE ReplicaInv'
  <2>1. HistoryOfLog' /\ FetchInLog'
    BY <1>2 DEF Poll, HistoryOfLog, FetchInLog
  <2>2. ReplicaOfLog'
    BY <1>2 DEF Poll, ReplicaOfLog, Reflects
  <2>3. QED
    BY <1>0, <2>1, <2>2
<1>3. ASSUME NEW n \in Nodes, FetchApply(n) PROVE ReplicaInv'
  <2>1. n \notin stranded =>
          lastApplied[n] \in 0 .. Len(log) - 1 /\ Reflects(n, lastApplied[n])
    BY <1>3 DEF FetchApply, FetchInLog, ReplicaOfLog
  <2>2. n \notin stranded => locks'[n] = history[lastApplied[n] + 2]
    <3>. SUFFICES ASSUME n \notin stranded
                  PROVE  locks'[n] = history[lastApplied[n] + 2]
      OBVIOUS
    <3>1. locks'[n] = Apply(locks[n], log[lastApplied[n] + 1])
      BY <1>3, <2>1 DEF FetchApply, Fetched
    <3>2. history[lastApplied[n] + 2] =
            Apply(history[lastApplied[n] + 1], log[lastApplied[n] + 1])
      BY <2>1 DEF HistoryOfLog
    <3>3. QED
      BY <2>1, <3>1, <3>2 DEF Reflects
  <2>3. HistoryOfLog' /\ FetchInLog'
    <3>1. HistoryOfLog'
      BY <1>3 DEF FetchApply, HistoryOfLog
    <3>2. ASSUME NEW m \in Nodes \ stranded, loop'[m] = "fetch"
          PROVE  length'[m] <= Len(log') /\ lastApplied'[m] < Len(log')
      <4>1. UNCHANGED <<log, length>> /\ Len(log) \in Nat /\ length[m] \in Nat
        BY <1>3 DEF FetchApply
      <4>2. loop[m] = "fetch"
        BY <1>3, <3>2 DEF FetchApply
      <4>3. length[m] <= Len(log) /\ lastApplied[m] < Len(log)
        BY <4>2 DEF FetchInLog
      <4>4. lastApplied'[m] = lastApplied[m] \/ lastApplied'[m] < length[m]
        <5>1. CASE lastApplied[n] < length[n] - 1
          <6>1. lastApplied' = [lastApplied EXCEPT ![n] = lastApplied[n] + 1]
            BY <1>3, <5>1 DEF FetchApply
          <6>2. /\ lastApplied[n] \in Nat \cup {-1} /\ length[n] \in Nat
                /\ lastApplied \in [Nodes -> Nat \cup {-1}]
            OBVIOUS
          <6>3. CASE m = n
            BY <5>1, <6>1, <6>2, <6>3
          <6>4. CASE m # n
            BY <6>1, <6>2, <6>4
          <6>5. QED
            BY <6>3, <6>4
        <5>2. CASE ~(lastApplied[n] < length[n] - 1)
          BY <1>3, <5>2 DEF FetchApply
        <5>3. QED
          BY <5>1, <5>2
      <4>5. lastApplied'[m] \in Nat \cup {-1}
        BY <1>0
      <4>6. QED
        BY <4>1, <4>3, <4>4, <4>5
    <3>3. QED
      BY <1>3, <3>1, <3>2 DEF FetchInLog, FetchApply
  <2>4. ReplicaOfLog'
    <3>1. SUFFICES ASSUME NEW m \in Nodes \ stranded
                   PROVE  /\ loop'[m] = "poll" =>
                               Reflects(m, lastApplied[m] + 1)'
                          /\ loop'[m] = "fetch" => Reflects(m, lastApplied[m])'
                          /\ loop'[m] = "dead" =>
                               \/ Reflects(m, lastApplied[m])'
                               \/ Reflects(m, lastApplied[m] + 1)'
      BY <1>0, <1>3 DEF ReplicaOfLog, FetchApply
    <3>2. CASE m = n
      BY <1>3, <2>1, <2>2, <3>2 DEF FetchApply, Reflects
    <3>3. CASE m # n
      BY <1>3, <3>3 DEF FetchApply, Reflects, ReplicaOfLog
    <3>4. QED
      BY <3>2, <3>3
  <2>5. QED
    BY <1>0, <2>3, <2>4
<1>4. ASSUME NEW n \in Nodes, LoopDies(n) PROVE ReplicaInv'
  <2>1. HistoryOfLog' /\ FetchInLog'
    BY <1>4 DEF LoopDies, HistoryOfLog, FetchInLog
  <2>2. ReplicaOfLog'
    BY <1>4 DEF LoopDies, ReplicaOfLog, Reflects
  <2>3. QED
    BY <1>0, <2>1, <2>2
<1>5. ASSUME NEW n \in Nodes, Restart(n) PROVE ReplicaInv'
  <2>1. HistoryOfLog' /\ FetchInLog'
    BY <1>5 DEF Restart, HistoryOfLog, FetchInLog
  <2>2. ReplicaOfLog'
    BY <1>5 DEF Restart, ReplicaOfLog, Reflects, HistoryOfLog
  <2>3. QED
    BY <1>0, <2>1, <2>2
<1>6. ASSUME RedisLosesTail PROVE ReplicaInv'
  <2>1. PICK k \in 0 .. Len(log) - 1 :
          /\ log' = SubSeq(log, 1, k)
          /\ history' = SubSeq(history, 1, k + 1)
          /\ stranded' = stranded \cup
               {n \in Nodes : lastApplied[n] >= k \/ (loop[n] = "fetch" /\ length[n] > k)}
    BY <1>6 DEF RedisLosesTail
  <2>2. UNCHANGED <<locks, lastApplied, length, loop>> /\ Len(log) \in Nat
    BY <1>6 DEF RedisLosesTail
  <2>3. Len(log') = k /\ \A i \in 1 .. k : log'[i] = log[i]
    BY <2>1, <2>2, SubSeqProperties
  <2>4. Len(history') = k + 1 /\ \A i \in 1 .. k + 1 : history'[i] = history[i]
    BY <2>1, <2>2, SubSeqProperties
  <2>5. HistoryOfLog'
    BY <2>1, <2>2, <2>3, <2>4 DEF HistoryOfLog
  <2>6. ASSUME NEW n \in Nodes \ stranded'
        PROVE  /\ n \notin stranded /\ lastApplied[n] < k
               /\ loop[n] = "fetch" => length[n] <= k
    BY <2>1
  <2>7. FetchInLog'
    BY <2>2, <2>3, <2>6 DEF FetchInLog
  <2>8. ASSUME NEW n \in Nodes, NEW i \in 0 .. k, Reflects(n, i)
        PROVE  Reflects(n, i)'
    BY <2>2, <2>3, <2>4, <2>8 DEF Reflects
  <2>9. ReplicaOfLog'
    <3>1. SUFFICES ASSUME NEW n \in Nodes \ stranded'
                   PROVE  /\ loop'[n] = "poll" =>
                               Reflects(n, lastApplied[n] + 1)'
                          /\ loop'[n] = "fetch" => Reflects(n, lastApplied[n])'
                          /\ loop'[n] = "dead" =>
                               \/ Reflects(n, lastApplied[n])'
                               \/ Reflects(n, lastApplied[n] + 1)'
      BY DEF ReplicaOfLog
    <3>2. n \in Nodes \ stranded /\ lastApplied[n] < k
      BY <2>6
    <3>3. lastApplied[n] + 1 \in 0 .. k /\ lastApplied[n] \in Nat \cup {-1}
      BY <3>2
    <3>4. Reflects(n, lastApplied[n]) => lastApplied[n] \in 0 .. k
      BY <3>3 DEF Reflects
    <3>5. QED
      BY <2>2, <2>8, <3>2, <3>3, <3>4 DEF ReplicaOfLog
  <2>10. QED
    BY <1>0, <2>5, <2>7, <2>9
<1>7. CASE UNCHANGED vars
  BY <1>7 DEF vars, HistoryOfLog, FetchInLog, ReplicaOfLog, Reflects
<1>8. QED
  BY <1>1, <1>2, <1>3, <1>4, <1>5, <1>6, <1>7 DEF Next, Step

\* The two invariants, on any Redis.
LEMMA LossyInvariants == LossySpec => [](TableInv /\ ReplicaInv)
<1>1. LossySpec => []TableInv
  BY TableInvInit, TableInvStep, PTL DEF LossySpec
<1>2. LossySpec => []ReplicaInv
  BY <1>1, ReplicaInvInit, ReplicaInvStep, PTL DEF LossySpec
<1>3. QED
  BY <1>1, <1>2, PTL

\* Every replica is the table of the log prefix its node has consumed, through
\* restarts, the death of the apply loop (lock_manager.py:16-35) and the loss of
\* entries the node has not counted.
THEOREM LossyReplicas == LossySpec => []ReplicaOfLog
<1>1. ReplicaInv => ReplicaOfLog
  BY DEF ReplicaInv
<1>2. QED
  BY <1>1, LossyInvariants, PTL

\* As long as Redis loses nothing, no node is left out of that.
LEMMA NobodyStranded == Spec => [](stranded = {})
<1>1. Init => stranded = {}
  BY DEF Init
<1>2. stranded = {} /\ [Next]_vars => (stranded = {})'
  BY DEF Next, Step, AppendCommand, Poll, FetchApply, LoopDies, Restart, vars
<1>3. QED
  BY <1>1, <1>2, PTL DEF Spec

\* The same on a Redis that keeps its log, and of every node.
THEOREM ReplicasFollowLog == Spec => [](ReplicaOfLog /\ stranded = {})
<1>1. [Next]_vars => [Next \/ RedisLosesTail]_vars
  OBVIOUS
<1>2. Spec => LossySpec
  BY <1>1, PTL DEF Spec, LossySpec
<1>3. QED
  BY <1>2, LossyReplicas, NobodyStranded, PTL

-----------------------------------------------------------------------------
(* Nobody loses a lock without a release in the log *)

Holds(info, o, m) == o \in info.holders /\ info.mode = m

\* What HeldUntilReleased says of two replicas, said of two tables of the history:
\* the entries of the log between them are the i-th to the one before the j-th.
HistoryHolds ==
  \A i, j \in 1 .. Len(history) : i <= j =>
    \A r \in Resources : \A o \in history[i][r].holders :
      \/ Holds(history[j][r], o, history[i][r].mode)
      \/ \E k \in i .. j - 1 : Releases(log[k], r, o)

\* One command takes a lock from nobody but the owner it releases.
LEMMA ApplyHolds ==
  ASSUME NEW t \in Table, NEW cmd \in Command, NEW r \in Resources,
         NEW o \in t[r].holders, ~Holds(Apply(t, cmd)[r], o, t[r].mode)
  PROVE  Releases(cmd, r, o)
<1>0. t[r] \in LockInfo /\ t[r].holders # {}
  BY DEF Table
<1>1. CASE cmd \in Acquire
  <2>1. /\ cmd.type = "acquire" /\ cmd.resource \in Resources
        /\ cmd.owner \in Owners /\ cmd.mode \in Modes
    BY <1>1 DEF Acquire
  <2>2. Apply(t, cmd) =
          [t EXCEPT ![cmd.resource] = Grant(t[cmd.resource], cmd.owner, cmd.mode)]
    BY <2>1 DEF Apply
  <2>3. Holds(Grant(t[r], cmd.owner, cmd.mode), o, t[r].mode)
    BY <1>0 DEF Grant, LockInfo, Holds
  <2>4. QED
    BY <2>1, <2>2, <2>3 DEF Table, Holds
<1>2. CASE cmd \in Release
  <2>1. /\ cmd.type = "release" /\ cmd.resource \in Resources /\ cmd.owner \in Owners
    BY <1>2 DEF Release
  <2>2. Apply(t, cmd) = [t EXCEPT ![cmd.resource] = Free(t[cmd.resource], cmd.owner)]
    BY <2>1 DEF Apply
  <2>3. cmd.resource = r
    BY <2>1, <2>2 DEF Table, Holds
  <2>4. ~Holds(Free(t[r], cmd.owner), o, t[r].mode)
    BY <2>1, <2>2, <2>3 DEF Table
  <2>5. o = cmd.owner
    <3>1. SUFFICES ASSUME o # cmd.owner PROVE FALSE
      OBVIOUS
    <3>2. o \in t[r].holders \ {cmd.owner}
      BY <3>1
    <3>3. Holds(Free(t[r], cmd.owner), o, t[r].mode)
      BY <1>0, <3>2 DEF Free, LockInfo, Holds
    <3>4. QED
      BY <2>4, <3>3
  <2>6. QED
    BY <2>1, <2>3, <2>5 DEF Releases
<1>3. CASE cmd \in Other
  BY <1>3 DEF Other, Apply, Holds
<1>4. QED
  BY <1>1, <1>2, <1>3 DEF Command

LEMMA HistoryHoldsInit == Init => HistoryHolds
BY DEF Init, HistoryHolds, Holds

LEMMA HistoryHoldsStep ==
  TableInv /\ HistoryHolds /\ [Next \/ RedisLosesTail]_vars => HistoryHolds'
<1>. SUFFICES ASSUME TableInv, HistoryHolds, [Next \/ RedisLosesTail]_vars
              PROVE  HistoryHolds'
  OBVIOUS
<1>0. /\ history \in Seq(Table) /\ log \in Seq(Command)
      /\ Len(history) = Len(log) + 1 /\ Len(log) \in Nat
  BY DEF TableInv, TypeOK, Shape
<1>1. ASSUME NEW cmd \in Command, AppendCommand(cmd) PROVE HistoryHolds'
  <2>1. /\ Len(log') = Len(log) + 1
        /\ \A k \in 1 .. Len(log) : log'[k] = log[k]
        /\ log'[Len(log) + 1] = cmd
    BY <1>0, <1>1 DEF AppendCommand
  <2>2. /\ Len(history') = Len(history) + 1
        /\ \A k \in 1 .. Len(history) : history'[k] = history[k]
        /\ history'[Len(history) + 1] = Apply(history[Len(history)], cmd)
    BY <1>0, <1>1, ApplyType DEF AppendCommand
  <2>3. SUFFICES ASSUME NEW i \in 1 .. Len(history'), NEW j \in 1 .. Len(history'),
                        i <= j, NEW r \in Resources,
                        NEW o \in history'[i][r].holders,
                        ~Holds(history'[j][r], o, history'[i][r].mode)
                 PROVE  \E k \in i .. j - 1 : Releases(log'[k], r, o)
    BY DEF HistoryHolds, Releases, Holds
  <2>4. CASE j \in 1 .. Len(history)
    <3>1. history'[i] = history[i] /\ history'[j] = history[j]
      BY <1>0, <2>2, <2>3, <2>4
    <3>2. /\ i \in 1 .. Len(history) /\ o \in history[i][r].holders
          /\ ~Holds(history[j][r], o, history[i][r].mode)
      BY <1>0, <2>2, <2>3, <2>4, <3>1
    <3>3. PICK k \in i .. j - 1 : Releases(log[k], r, o)
      BY <2>3, <2>4, <3>2 DEF HistoryHolds
    <3>4. log'[k] = log[k]
      BY <1>0, <2>1, <2>4
    <3>5. QED
      BY <3>3, <3>4
  <2>5. CASE j = Len(history) + 1
    <3>. DEFINE last == Len(history)
    <3>1. i # j
      BY <2>3 DEF Holds
    <3>2. i \in 1 .. last /\ history'[i] = history[i]
      BY <1>0, <2>2, <2>3, <2>5, <3>1
    <3>3. CASE Holds(history[last][r], o, history[i][r].mode)
      <4>1. o \in history[last][r].holders /\ history[last][r].mode = history[i][r].mode
        BY <3>3 DEF Holds
      <4>2. ~Holds(Apply(history[last], cmd)[r], o, history[last][r].mode)
        BY <2>2, <2>3, <2>5, <3>2, <4>1
      <4>3. history[last] \in Table
        BY <1>0
      <4>4. Releases(cmd, r, o)
        BY <4>1, <4>2, <4>3, ApplyHolds
      <4>5. last \in i .. j - 1 /\ log'[last] = cmd
        BY <1>0, <2>1, <2>5, <3>2
      <4>6. QED
        BY <4>4, <4>5
    <3>4. CASE ~Holds(history[last][r], o, history[i][r].mode)
      <4>1. PICK k \in i .. last - 1 : Releases(log[k], r, o)
        BY <1>0, <2>3, <3>2, <3>4 DEF HistoryHolds
      <4>2. k \in i .. j - 1 /\ log'[k] = log[k]
        BY <1>0, <2>1, <2>5, <3>2
      <4>3. QED
        BY <4>1, <4>2
    <3>5. QED
      BY <3>3, <3>4
  <2>6. QED
    BY <1>0, <2>2, <2>4, <2>5
<1>2. ASSUME RedisLosesTail PROVE HistoryHolds'
  <2>1. PICK c \in 0 .. Len(log) - 1 : /\ log' = SubSeq(log, 1, c)
                                       /\ history' = SubSeq(history, 1, c + 1)
    BY <1>2 DEF RedisLosesTail
  <2>2. Len(log') = c /\ \A i \in 1 .. c : log'[i] = log[i]
    BY <1>0, <2>1, SubSeqProperties
  <2>3. Len(history') = c + 1 /\ \A i \in 1 .. c + 1 : history'[i] = history[i]
    BY <1>0, <2>1, SubSeqProperties
  <2>4. SUFFICES ASSUME NEW i \in 1 .. c + 1, NEW j \in 1 .. c + 1, i <= j,
                        NEW r \in Resources, NEW o \in history'[i][r].holders,
                        ~Holds(history'[j][r], o, history'[i][r].mode)
                 PROVE  \E k \in i .. j - 1 : Releases(log'[k], r, o)
    BY <2>3 DEF HistoryHolds, Releases, Holds
  <2>5. i \in 1 .. Len(history) /\ j \in 1 .. Len(history)
    BY <1>0, <2>1
  <2>6. PICK k \in i .. j - 1 : Releases(log[k], r, o)
    BY <2>3, <2>4, <2>5 DEF HistoryHolds
  <2>7. log'[k] = log[k]
    BY <2>1, <2>2
  <2>8. QED
    BY <2>6, <2>7
<1>3. CASE UNCHANGED <<log, history>>
  BY <1>3 DEF HistoryHolds, Releases, Holds
<1>4. QED
  BY <1>1, <1>2, <1>3 DEF Next, Step, Poll, FetchApply, LoopDies, Restart, vars

\* Nodes disagree on a holder only about a release one of them has not applied yet,
\* through restarts and the loss of entries the nodes have not counted
\* (lock_manager.py:16-61).
THEOREM HeldTillReleased == LossySpec => []HeldUntilReleased
<1>1. LossySpec => []HistoryHolds
  BY LossyInvariants, HistoryHoldsInit, HistoryHoldsStep, PTL DEF LossySpec
<1>2. ReplicaInv /\ HistoryHolds => HeldUntilReleased
  <2>. SUFFICES ASSUME ReplicaInv, HistoryHolds,
                       NEW m \in Nodes \ stranded, NEW n \in Nodes \ stranded,
                       loop[m] # "dead", loop[n] # "dead",
                       Consumed(m) <= Consumed(n), NEW r \in Resources,
                       NEW o \in locks[m][r].holders,
                       ~Holds(locks[n][r], o, locks[m][r].mode)
                PROVE  \E k \in Consumed(m) + 1 .. Consumed(n) : Releases(log[k], r, o)
    BY DEF HeldUntilReleased, Holds
  <2>1. ASSUME NEW p \in Nodes \ stranded, loop[p] # "dead"
        PROVE  Reflects(p, Consumed(p))
    BY <2>1 DEF ReplicaInv, TypeOK, ReplicaOfLog, Consumed
  <2>2. /\ Consumed(m) \in 0 .. Len(log) /\ locks[m] = history[Consumed(m) + 1]
        /\ Consumed(n) \in 0 .. Len(log) /\ locks[n] = history[Consumed(n) + 1]
    BY <2>1 DEF Reflects
  <2>3. Len(history) = Len(log) + 1 /\ Len(log) \in Nat
    BY DEF ReplicaInv, TypeOK, Shape
  <2>4. PICK i \in 1 .. Len(history), j \in 1 .. Len(history) :
          /\ i = Consumed(m) + 1 /\ j = Consumed(n) + 1 /\ i <= j
          /\ locks[m] = history[i] /\ locks[n] = history[j]
    BY <2>2, <2>3
  <2>5. PICK k \in i .. j - 1 : Releases(log[k], r, o)
    BY <2>4 DEF HistoryHolds
  <2>6. QED
    BY <2>2, <2>4, <2>5
<1>3. QED
  BY <1>1, <1>2, LossyInvariants, PTL

\* No two nodes show different owners of a lock that is not in shared mode, as long
\* as the one that lags behind shows an owner that has not released it.
MutualExclusion ==
  \A m, n \in Nodes \ stranded :
    /\ loop[m] # "dead"
    /\ loop[n] # "dead"
    /\ Consumed(m) <= Consumed(n)
    => \A r \in Resources :
         \A a \in locks[m][r].holders, b \in locks[n][r].holders :
           /\ locks[m][r].mode # Shared
           /\ ~ \E k \in Consumed(m) + 1 .. Consumed(n) : Releases(log[k], r, a)
           => a = b

\* Mutual exclusion between nodes at different places in the log, through restarts
\* and the loss of entries the nodes have not counted (lock_manager.py:16-61).
THEOREM NodesExclude == LossySpec => []MutualExclusion
<1>1. LocksWellFormed /\ HeldUntilReleased => MutualExclusion
  <2>. SUFFICES ASSUME LocksWellFormed, HeldUntilReleased,
                       NEW m \in Nodes \ stranded, NEW n \in Nodes \ stranded,
                       loop[m] # "dead", loop[n] # "dead",
                       Consumed(m) <= Consumed(n), NEW r \in Resources,
                       NEW a \in locks[m][r].holders, NEW b \in locks[n][r].holders,
                       locks[m][r].mode # Shared,
                       ~ \E k \in Consumed(m) + 1 .. Consumed(n) : Releases(log[k], r, a)
                PROVE  a = b
    BY DEF MutualExclusion
  <2>1. a \in locks[n][r].holders /\ locks[n][r].mode # Shared
    BY DEF HeldUntilReleased
  <2>2. Exclusive(locks[n][r])
    BY DEF LocksWellFormed, TableWellFormed, WellFormed
  <2>3. QED
    BY <2>1, <2>2 DEF Exclusive
<1>2. QED
  BY <1>1, HeldTillReleased, LossyTables, PTL

-----------------------------------------------------------------------------
(* Each replica is a lock server *)

\* An acquire takes, shares or queues for the lock, or changes nothing.
LEMMA GrantServes ==
  ASSUME NEW info \in LockInfo, WellFormed(info), NEW o \in Owners, NEW m \in Modes
  PROVE  Grant(info, o, m) = info \/ Service!Changes(info, Grant(info, o, m))
<1>. DEFINE new == Grant(info, o, m)
<1>. USE DEF LockInfo
<1>1. CASE info.holders = {}
  <2>1. info = Service!Free
    BY <1>1 DEF WellFormed, NoLostWakeup, Service!Free
  <2>2. new = [mode |-> m, holders |-> {o}, queue |-> << >>]
    BY <1>1, <2>1 DEF Grant, Service!Free
  <2>3. QED
    BY <2>1, <2>2 DEF Service!Changes, Service!Taken
<1>2. CASE info.holders # {} /\ m = Shared /\ info.mode = Shared
  BY <1>2 DEF Grant, Service!Changes, Service!Joined
<1>3. CASE info.holders # {} /\ ~(m = Shared /\ info.mode = Shared)
  BY <1>3 DEF Grant, Service!Changes, Service!Waits
<1>4. QED
  BY <1>1, <1>2, <1>3

\* A release leaves the lock, hands it to the head of its queue, or changes nothing.
LEMMA FreeServes ==
  ASSUME NEW info \in LockInfo, WellFormed(info), NEW o \in Owners
  PROVE  Free(info, o) = info \/ Service!Changes(info, Free(info, o))
<1>. USE DEF LockInfo
<1>1. CASE info.holders \ {o} # {}
  BY <1>1 DEF Free, Service!Changes, Service!Left
<1>2. CASE info.holders = {}
  BY <1>2 DEF WellFormed, NoLostWakeup, Free
<1>3. CASE info.holders = {o} /\ info.queue # << >>
  BY <1>3 DEF Free, Service!Changes, Service!HandedOver
<1>4. CASE info.holders = {o} /\ info.queue = << >>
  <2>1. Free(info, o) = Service!Free
    BY <1>4 DEF Free, Service!Free
  <2>2. QED
    BY <1>4, <2>1 DEF Service!Changes, Service!LastLeft
<1>5. QED
  BY <1>1, <1>2, <1>3, <1>4

\* A table is as it was, or one lock of it has changed the way a lock server does.
TableServes(t, u) ==
  \/ u = t
  \/ \E r \in Resources :
       Service!Changes(t[r], u[r]) /\ u = [t EXCEPT ![r] = u[r]]

\* It is enough that the one new entry does.
LEMMA EntryServes ==
  ASSUME NEW t \in Table, NEW u, NEW r \in Resources, NEW new,
         new = t[r] \/ Service!Changes(t[r], new),
         u = [t EXCEPT ![r] = new]
  PROVE  TableServes(t, u)
<1>1. u[r] = new
  BY DEF Table
<1>2. CASE new = t[r]
  BY <1>2 DEF Table, TableServes
<1>3. CASE Service!Changes(t[r], new)
  BY <1>1, <1>3 DEF TableServes
<1>4. QED
  BY <1>2, <1>3

\* A command changes one lock of the table, the way a lock server does.
LEMMA ApplyServes ==
  ASSUME NEW t \in Table, TableWellFormed(t), NEW cmd \in Command
  PROVE  TableServes(t, Apply(t, cmd))
<1>0. \A r \in Resources : t[r] \in LockInfo /\ WellFormed(t[r])
  BY DEF Table, TableWellFormed
<1>1. CASE cmd \in Acquire
  <2>1. /\ cmd.type = "acquire" /\ cmd.resource \in Resources
        /\ cmd.owner \in Owners /\ cmd.mode \in Modes
    BY <1>1 DEF Acquire
  <2>2. Apply(t, cmd) =
          [t EXCEPT ![cmd.resource] = Grant(t[cmd.resource], cmd.owner, cmd.mode)]
    BY <2>1 DEF Apply
  <2>3. QED
    <3>1. LET new == Grant(t[cmd.resource], cmd.owner, cmd.mode)
          IN  new = t[cmd.resource] \/ Service!Changes(t[cmd.resource], new)
      BY <1>0, <2>1, GrantServes
    <3>2. QED
      BY <2>1, <2>2, <3>1, EntryServes
<1>2. CASE cmd \in Release
  <2>1. /\ cmd.type = "release" /\ cmd.resource \in Resources /\ cmd.owner \in Owners
    BY <1>2 DEF Release
  <2>2. Apply(t, cmd) = [t EXCEPT ![cmd.resource] = Free(t[cmd.resource], cmd.owner)]
    BY <2>1 DEF Apply
  <2>3. QED
    <3>1. LET new == Free(t[cmd.resource], cmd.owner)
          IN  new = t[cmd.resource] \/ Service!Changes(t[cmd.resource], new)
      BY <1>0, <2>1, FreeServes
    <3>2. QED
      BY <2>1, <2>2, <3>1, EntryServes
<1>3. CASE cmd \in Other
  BY <1>3 DEF Other, Apply, TableServes
<1>4. QED
  BY <1>1, <1>2, <1>3 DEF Command

LEMMA ServiceStep ==
  TableInv /\ [Next \/ RedisLosesTail]_vars => [Service!Next]_locks
<1>. SUFFICES ASSUME TableInv, [Next \/ RedisLosesTail]_vars, locks' # locks
              PROVE  Service!Next
  OBVIOUS
<1>. USE DEF TableInv, TypeOK, Shape, LocksWellFormed
<1>1. ASSUME NEW n \in Nodes, FetchApply(n) PROVE Service!Next
  <2>1. locks' = [locks EXCEPT ![n] = Fetched(n)] /\ lastApplied[n] \in Nat
    BY <1>1 DEF FetchApply
  <2>2. lastApplied[n] < Len(log) /\ Fetched(n) # locks[n]
    <3>1. Fetched(n) # locks[n]
      BY <2>1
    <3>2. QED
      BY <3>1 DEF Fetched
  <2>3. log[lastApplied[n] + 1] \in Command
    BY <2>1, <2>2
  <2>4. Fetched(n) = Apply(locks[n], log[lastApplied[n] + 1])
    BY <2>2 DEF Fetched
  <2>5. PICK r \in Resources :
          /\ Service!Changes(locks[n][r], Fetched(n)[r])
          /\ Fetched(n) = [locks[n] EXCEPT ![r] = Fetched(n)[r]]
    <3>1. TableServes(locks[n], Fetched(n))
      BY <2>3, <2>4, ApplyServes
    <3>2. QED
      BY <2>2, <3>1 DEF TableServes
  <2>6. locks'[n] = Fetched(n)
    BY <2>1
  <2>7. locks' = [locks EXCEPT ![n] = [locks[n] EXCEPT ![r] = locks'[n][r]]]
    BY <2>1, <2>5, <2>6
  <2>8. QED
    BY <2>5, <2>6, <2>7 DEF Service!Next
<1>2. ASSUME NEW n \in Nodes, Restart(n) PROVE Service!Next
  BY <1>2 DEF Restart, Service!Next, Service!Empty, Service!Free, EmptyTable, FreeLock
<1>3. QED
  BY <1>1, <1>2
     DEF Next, Step, AppendCommand, Poll, LoopDies, RedisLosesTail, vars

\* Each replica behaves as a lock server whatever Redis loses: the apply loop
\* (lock_manager.py:16-61) grants free and shared locks, queues the rest and hands
\* each lock to the head of its queue.
THEOREM ServesLocks == LossySpec => ReplicasServeLocks
<1>1. Init => Service!Init
  BY DEF Init, Service!Init, Service!Empty, Service!Free, EmptyTable, FreeLock
<1>2. LossySpec => []TableInv
  BY LossyInvariants, PTL
<1>3. QED
  BY <1>1, <1>2, ServiceStep, PTL DEF LossySpec, ReplicasServeLocks, Service!Spec

=============================================================================
