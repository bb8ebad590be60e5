-------------------------- MODULE LockTableProofs --------------------------
(***************************************************************************)
(* What _apply_acquire and _apply_release preserve, for any sets of         *)
(* resources, owners and modes: the lemmas the proofs about the replicas    *)
(* rest on.                                                                 *)
(***************************************************************************)
EXTENDS LockTable, TLAPS

\* An acquire keeps the entry of a resource well typed.
LEMMA GrantType ==
  ASSUME NEW info \in LockInfo, NEW o \in Owners, NEW m \in Modes
  PROVE  Grant(info, o, m) \in LockInfo
<1>. DEFINE q == Append(info.queue, <<o, m>>)
<1>1. q \in Seq(Waiter)
  BY DEF LockInfo, Waiter
<1>2. CASE info.holders = {}
  BY <1>2 DEF Grant, LockInfo
<1>3. CASE info.holders # {} /\ m = Shared /\ info.mode = Shared
  BY <1>3 DEF Grant, LockInfo
<1>4. CASE info.holders # {} /\ ~(m = Shared /\ info.mode = Shared)
  <2>1. Grant(info, o, m) \in {info, [info EXCEPT !.queue = q]}
    BY <1>4 DEF Grant
  <2>2. [info EXCEPT !.queue = q] \in LockInfo
    BY <1>1 DEF LockInfo
  <2>3. QED
    BY <2>1, <2>2
<1>5. QED
  BY <1>2, <1>3, <1>4

\* A release keeps the entry of a resource well typed.
LEMMA FreeType ==
  ASSUME NEW info \in LockInfo, NEW o \in Owners
  PROVE  Free(info, o) \in LockInfo
<1>1. info.queue \in Seq(Waiter)
  BY DEF LockInfo
<1>2. ASSUME info.queue # << >>
      PROVE  /\ Head(info.queue) \in Waiter
             /\ Tail(info.queue) \in Seq(Waiter)
  BY <1>1, <1>2
<1>3. QED
  BY <1>1, <1>2 DEF Free, LockInfo, Waiter

\* An acquire grants a lock to a second owner only in shared mode, leaves
\* nobody behind on a free lock and queues a request only once.
LEMMA GrantWellFormed ==
  ASSUME NEW info \in LockInfo, NEW o \in Owners, NEW m \in Modes,
         WellFormed(info)
  PROVE  WellFormed(Grant(info, o, m))
<1>. USE ModesAssumption
<1>1. CASE info.holders = {}
  BY <1>1 DEF Grant, LockInfo, WellFormed, Exclusive, NoLostWakeup, ModeSet,
              NoDoubleWait
<1>2. CASE info.holders # {} /\ m = Shared /\ info.mode = Shared
  BY <1>2 DEF Grant, LockInfo, WellFormed, Exclusive, NoLostWakeup, ModeSet,
              NoDoubleWait
<1>3. CASE info.holders # {} /\ ~(m = Shared /\ info.mode = Shared)
  <2>1. CASE IsQueued(info, <<o, m>>)
    BY <1>3, <2>1 DEF Grant
  <2>2. CASE ~IsQueued(info, <<o, m>>)
    <3>. DEFINE q == Append(info.queue, <<o, m>>)
    <3>1. Grant(info, o, m) = [info EXCEPT !.queue = q]
      BY <1>3, <2>2 DEF Grant
    <3>2. \A i, j \in DOMAIN q : q[i] = q[j] => i = j
      BY <2>2 DEF LockInfo, Waiter, IsQueued, WellFormed, NoDoubleWait
    <3>3. QED
      BY <1>3, <3>1, <3>2 DEF LockInfo, WellFormed, Exclusive, NoLostWakeup,
                              ModeSet, NoDoubleWait
  <2>3. QED
    BY <2>1, <2>2
<1>4. QED
  BY <1>1, <1>2, <1>3

\* A release that empties a lock hands it to the head of its queue.
LEMMA FreeWellFormed ==
  ASSUME NEW info \in LockInfo, NEW o \in Owners, WellFormed(info)
  PROVE  WellFormed(Free(info, o))
<1>. USE ModesAssumption
<1>. DEFINE left == info.holders \ {o}
<1>1. CASE left # {}
  BY <1>1 DEF Free, LockInfo, WellFormed, Exclusive, NoLostWakeup, ModeSet,
              NoDoubleWait
<1>2. CASE left = {} /\ info.queue # << >>
  <2>1. /\ info.queue \in Seq(Waiter)
        /\ Head(info.queue) \in Waiter
        /\ Tail(info.queue) \in Seq(Waiter)
    BY <1>2 DEF LockInfo
  <2>2. Free(info, o) = [mode |-> Head(info.queue)[2],
                         holders |-> {Head(info.queue)[1]},
                         queue |-> Tail(info.queue)]
    BY <1>2 DEF Free
  <2>3. NoDoubleWait(Free(info, o))
    BY <1>2, <2>1, <2>2 DEF WellFormed, NoDoubleWait
  <2>4. Head(info.queue)[2] # NoMode
    BY <2>1 DEF Waiter
  <2>5. /\ Free(info, o).mode = Head(info.queue)[2]
        /\ Free(info, o).holders = {Head(info.queue)[1]}
    BY <2>2
  <2>6. QED
    BY <2>3, <2>4, <2>5 DEF WellFormed, Exclusive, NoLostWakeup, ModeSet
<1>3. CASE left = {} /\ info.queue = << >>
  BY <1>3 DEF Free, LockInfo, WellFormed, Exclusive, NoLostWakeup, ModeSet,
              NoDoubleWait
<1>4. QED
  BY <1>1, <1>2, <1>3

-----------------------------------------------------------------------------

\* The table __init__ starts from.
LEMMA EmptyTableGood == EmptyTable \in Table /\ TableWellFormed(EmptyTable)
BY ModesAssumption DEF EmptyTable, FreeLock, Table, LockInfo, TableWellFormed,
   WellFormed, Exclusive, NoLostWakeup, ModeSet, NoDoubleWait

\* One log entry, whatever it is, keeps the table well typed.
LEMMA ApplyType ==
  ASSUME NEW table \in Table, NEW cmd \in Command
  PROVE  Apply(table, cmd) \in Table
<1>1. CASE cmd \in Acquire
  <2>1. Apply(table, cmd) = [table EXCEPT ![cmd.resource] =
                              Grant(table[cmd.resource], cmd.owner, cmd.mode)]
    BY <1>1 DEF Apply, Acquire, Table
  <2>2. Grant(table[cmd.resource], cmd.owner, cmd.mode) \in LockInfo
    BY <1>1, GrantType DEF Acquire, Table
  <2>3. QED
    BY <2>1, <2>2 DEF Table
<1>2. CASE cmd \in Release
  <2>1. Apply(table, cmd) = [table EXCEPT ![cmd.resource] =
                              Free(table[cmd.resource], cmd.owner)]
    BY <1>2 DEF Apply, Release, Table
  <2>2. Free(table[cmd.resource], cmd.owner) \in LockInfo
    BY <1>2, FreeType DEF Release, Table
  <2>3. QED
    BY <2>1, <2>2 DEF Table
<1>3. CASE cmd \in Other
  BY <1>3 DEF Apply, Other
<1>4. QED
  BY <1>1, <1>2, <1>3 DEF Command

\* One log entry, whatever it is, keeps every lock well formed.
LEMMA ApplyWellFormed ==
  ASSUME NEW table \in Table, NEW cmd \in Command, TableWellFormed(table)
  PROVE  TableWellFormed(Apply(table, cmd))
<1>1. CASE cmd \in Acquire
  <2>1. Apply(table, cmd) = [table EXCEPT ![cmd.resource] =
                              Grant(table[cmd.resource], cmd.owner, cmd.mode)]
    BY <1>1 DEF Apply, Acquire, Table
  <2>2. WellFormed(Grant(table[cmd.resource], cmd.owner, cmd.mode))
    BY <1>1, GrantWellFormed DEF Acquire, Table, TableWellFormed
  <2>3. QED
    BY <2>1, <2>2 DEF Table, TableWellFormed
<1>2. CASE cmd \in Release
  <2>1. Apply(table, cmd) = [table EXCEPT ![cmd.resource] =
                              Free(table[cmd.resource], cmd.owner)]
    BY <1>2 DEF Apply, Release, Table
  <2>2. WellFormed(Free(table[cmd.resource], cmd.owner))
    BY <1>2, FreeWellFormed DEF Release, Table, TableWellFormed
  <2>3. QED
    BY <2>1, <2>2 DEF Table, TableWellFormed
<1>3. CASE cmd \in Other
  BY <1>3 DEF Apply, Other
<1>4. QED
  BY <1>1, <1>2, <1>3 DEF Command

-----------------------------------------------------------------------------

\* An edge is one of a waiter and a holder of the same lock.
LEMMA WaitForEdge ==
  ASSUME NEW table, NEW e
  PROVE  e \in WaitFor(table) <=>
           \E r \in Resources : \E i \in DOMAIN table[r].queue,
                                   h \in table[r].holders :
             e = <<table[r].queue[i][1], h>>
BY DEF WaitFor

\* An acquire lets holders hold and waiters wait where they do.
LEMMA GrantKeeps ==
  ASSUME NEW info \in LockInfo, NEW o \in Owners, NEW m \in Modes
  PROVE  /\ info.holders \subseteq Grant(info, o, m).holders
         /\ \A i \in DOMAIN info.queue :
              /\ i \in DOMAIN Grant(info, o, m).queue
              /\ Grant(info, o, m).queue[i] = info.queue[i]
<1>. DEFINE q == Append(info.queue, <<o, m>>)
<1>1. info.queue \in Seq(Waiter) /\ info.holders \subseteq Owners
  BY DEF LockInfo
<1>2. \A i \in DOMAIN info.queue : i \in DOMAIN q /\ q[i] = info.queue[i]
  BY <1>1 DEF Waiter
<1>4. CASE info.holders = {}
  BY <1>1, <1>4 DEF Grant, LockInfo
<1>5. CASE info.holders # {}
  <2>1. Grant(info, o, m) \in
          {[info EXCEPT !.holders = @ \cup {o}], info, [info EXCEPT !.queue = q]}
    BY <1>5 DEF Grant
  <2>2. QED
    BY <1>1, <1>2, <2>1 DEF LockInfo
<1>6. QED
  BY <1>4, <1>5

\* An acquire takes no edge away from the wait-for graph.
LEMMA AcquireKeepsWaits ==
  ASSUME NEW table \in Table, NEW cmd \in Acquire
  PROVE  WaitFor(table) \subseteq WaitFor(Apply(table, cmd))
<1>. DEFINE next == Apply(table, cmd)
<1>1. /\ cmd.type = "acquire" /\ cmd.resource \in Resources
      /\ cmd.owner \in Owners /\ cmd.mode \in Modes
  BY DEF Acquire
<1>2. next = [table EXCEPT ![cmd.resource] =
                Grant(table[cmd.resource], cmd.owner, cmd.mode)]
  BY <1>1 DEF Apply
<1>3. ASSUME NEW r \in Resources
      PROVE  /\ table[r].holders \subseteq next[r].holders
             /\ \A i \in DOMAIN table[r].queue :
                  i \in DOMAIN next[r].queue /\ next[r].queue[i] = table[r].queue[i]
  <2>1. table[r] \in LockInfo
    BY DEF Table
  <2>2. CASE r = cmd.resource
    <3>1. next[r] = Grant(table[r], cmd.owner, cmd.mode)
      BY <1>2, <2>2 DEF Table
    <3>2. QED
      BY <1>1, <2>1, <3>1, GrantKeeps
  <2>3. CASE r # cmd.resource
    BY <1>2, <2>3 DEF Table
  <2>4. QED
    BY <2>2, <2>3
<1>. HIDE DEF next
<1>4. ASSUME NEW e \in WaitFor(table)
      PROVE  e \in WaitFor(next)
  <2>1. PICK r \in Resources : \E i \in DOMAIN table[r].queue,
                                  h \in table[r].holders :
               e = <<table[r].queue[i][1], h>>
    BY WaitForEdge
  <2>2. PICK i \in DOMAIN table[r].queue, h \in table[r].holders :
               e = <<table[r].queue[i][1], h>>
    BY <2>1
  <2>3. /\ i \in DOMAIN next[r].queue /\ h \in next[r].holders
        /\ e = <<next[r].queue[i][1], h>>
    BY <1>3, <2>2
  <2>4. QED
    BY <2>3, WaitForEdge
<1>5. QED
  BY <1>4 DEF next

\* An owner on a cycle stays on it when edges are added.
LEMMA OnCycleGrows ==
  ASSUME NEW E, NEW F, E \subseteq F, NEW o \in Owners, OnCycle(E, o)
  PROVE  OnCycle(F, o)
BY DEF OnCycle

\* The edges of a table are edges between owners.
LEMMA WaitForType ==
  ASSUME NEW table \in Table
  PROVE  WaitFor(table) \subseteq Owners \X Owners
<1>1. ASSUME NEW e \in WaitFor(table)
      PROVE  e \in Owners \X Owners
  <2>1. PICK r \in Resources : \E i \in DOMAIN table[r].queue,
                                  h \in table[r].holders :
               e = <<table[r].queue[i][1], h>>
    BY WaitForEdge
  <2>2. table[r].queue \in Seq(Owners \X Modes) /\ table[r].holders \subseteq Owners
    BY DEF Table, LockInfo, Waiter
  <2>3. QED
    BY <2>1, <2>2
<1>2. QED
  BY <1>1

=============================================================================
