------------------------- MODULE DeadlockLoopProofs -------------------------
(***************************************************************************)
(* AbortIsJustified for every number of nodes, owners and resources.        *)
(*                                                                          *)
(* An acquire never takes an edge away from the wait-for graph, so without  *)
(* a release every edge that was ever reported is still there.  What makes  *)
(* this inductive is KeepsWaits: it speaks of every table of the history,   *)
(* because the next answer may come from any of them.                       *)
(*                                                                          *)
(* Then the search itself: _detect_cycle reports a cycle just when there is *)
(* one, for any list of edges, and repeats no turn.  The owners dfs has     *)
(* returned for are closed under the edges and on no cycle (DoneRight); the *)
(* stack is a path whose loops have passed edges to those only              *)
(* (LookedRight).                                                           *)
(***************************************************************************)
EXTENDS DeadlockLoop, DetectCycle, LockTableProofs, SequenceTheorems

\* Without a release, every edge of an earlier table is one of the current.
KeepsWaits ==
  \A k \in 0 .. Len(log) :
    NoReleaseSince(k) => WaitFor(history[k + 1]) \subseteq WaitFor(Current)

\* So is every edge that was gathered.
EdgesHold ==
  \A n \in Nodes :
    NoReleaseSince(from[n]) => edges[n] \subseteq WaitFor(Current)

\* A loop that sleeps has no edges, one that aborts has a victim on a cycle of
\* its edges, and the edges come from prefixes of the log.
LoopStates ==
  \A n \in Nodes :
    /\ from[n] <= Len(log)
    /\ loop[n] = "sleep" => edges[n] = {}
    /\ loop[n] = "abort" => /\ abort[n] \in Owners \X Resources
                            /\ OnCycle(edges[n], abort[n][1])

AbortInv == TypeOK /\ KeepsWaits /\ EdgesHold /\ LoopStates

-----------------------------------------------------------------------------

\* The nodes a loop asks are nodes.
LEMMA AsksNodes ==
  ASSUME NEW n \in Nodes
  PROVE  Asks(n) \in Seq(Nodes)
BY PeersAssumption DEF Asks

\* The log grows by one command: the history follows it, and while nothing is
\* released no edge is lost.
LEMMA LogGrows ==
  ASSUME TypeOK, KeepsWaits, NEW cmd \in Acquire \cup Release, NEW bound,
         AppendLog(cmd, bound)
  PROVE  /\ log' \in Seq(Acquire \cup Release)
         /\ history' \in Seq(Table)
         /\ Len(log') = Len(log) + 1 /\ Len(history') = Len(log') + 1
         /\ \A k \in 0 .. Len(log) : history'[k + 1] = history[k + 1]
         /\ \A k \in 0 .. Len(log) :
              NoReleaseSince(k)' =>
                NoReleaseSince(k) /\ WaitFor(Current) \subseteq WaitFor(Current')
         /\ KeepsWaits'
<1>1. /\ log \in Seq(Acquire \cup Release) /\ history \in Seq(Table)
      /\ Len(history) = Len(log) + 1 /\ Len(log) \in Nat
      /\ Current \in Table
  BY DEF TypeOK, Current
<1>2. Apply(Current, cmd) \in Table
  BY <1>1, ApplyType DEF Command
<1>3. /\ log' = Append(log, cmd) /\ history' = Append(history, Apply(Current, cmd))
  BY DEF AppendLog
<1>4. /\ log' \in Seq(Acquire \cup Release) /\ history' \in Seq(Table)
      /\ Len(log') = Len(log) + 1 /\ Len(history') = Len(log') + 1
      /\ \A k \in 0 .. Len(log) : history'[k + 1] = history[k + 1]
  BY <1>1, <1>2, <1>3
<1>5. Current' = Apply(Current, cmd)
  BY <1>1, <1>3, <1>4 DEF Current
<1>6. ASSUME NEW k \in 0 .. Len(log), NoReleaseSince(k)'
      PROVE  NoReleaseSince(k) /\ WaitFor(Current) \subseteq WaitFor(Current')
  <2>1. /\ Len(log) + 1 \in k + 1 .. Len(log') /\ log'[Len(log) + 1] = cmd
        /\ \A i \in k + 1 .. Len(log) : i \in k + 1 .. Len(log') /\ log'[i] = log[i]
    BY <1>1, <1>3, <1>4
  <2>2. cmd.type # "release"
    BY <1>6, <2>1 DEF NoReleaseSince
  <2>3. cmd \in Acquire
    BY <2>2 DEF Release
  <2>4. QED
    BY <1>1, <1>5, <1>6, <2>1, <2>3, AcquireKeepsWaits DEF NoReleaseSince
<1>7. KeepsWaits'
  <2>1. SUFFICES ASSUME NEW k \in 0 .. Len(log'), NoReleaseSince(k)'
                 PROVE  WaitFor(history'[k + 1]) \subseteq WaitFor(Current')
    BY DEF KeepsWaits
  <2>2. CASE k = Len(log')
    <3>1. history'[k + 1] = Current'
      BY <1>4, <2>2 DEF Current
    <3>2. QED
      BY <3>1
  <2>3. CASE k # Len(log')
    <3>1. k \in 0 .. Len(log)
      BY <1>1, <1>4, <2>3
    <3>2. /\ NoReleaseSince(k) /\ WaitFor(Current) \subseteq WaitFor(Current')
          /\ history'[k + 1] = history[k + 1]
      BY <1>4, <1>6, <2>1, <3>1
    <3>3. WaitFor(history[k + 1]) \subseteq WaitFor(Current)
      BY <3>1, <3>2 DEF KeepsWaits
    <3>4. QED
      BY <3>2, <3>3
  <2>4. QED
    BY <2>2, <2>3
<1>8. QED
  BY <1>4, <1>6, <1>7

\* A step that leaves the log alone leaves what is said of it true.
LEMMA LogStays ==
  ASSUME KeepsWaits, UNCHANGED <<log, history>>
  PROVE  /\ KeepsWaits' /\ Current' = Current
         /\ \A k : NoReleaseSince(k)' <=> NoReleaseSince(k)
BY DEF KeepsWaits, Current, NoReleaseSince

\* In the initial state.
LEMMA AbortInvInit == Init => AbortInv
<1>. SUFFICES ASSUME Init PROVE AbortInv
  OBVIOUS
<1>1. EmptyTable \in Table
  BY EmptyTableGood
<1>2. TypeOK
  BY <1>1 DEF Init, TypeOK
<1>3. KeepsWaits
  BY DEF Init, KeepsWaits, Current
<1>4. EdgesHold /\ LoopStates
  BY DEF Init, EdgesHold, LoopStates
<1>5. QED
  BY <1>2, <1>3, <1>4 DEF AbortInv

\* ClientCommand: the loops stay where they are.
LEMMA CommandKeepsInv ==
  ASSUME AbortInv, NEW cmd \in Acquire \cup Release, ClientCommand(cmd)
  PROVE  AbortInv'
<1>. USE DEF AbortInv, ClientCommand, loopVars
<1>1. TypeOK'
  BY LogGrows DEF TypeOK
<1>2. KeepsWaits'
  BY LogGrows
<1>3. EdgesHold'
  <2>1. SUFFICES ASSUME NEW n \in Nodes, NoReleaseSince(from[n])'
                 PROVE  edges[n] \subseteq WaitFor(Current')
    BY DEF EdgesHold
  <2>2. from[n] \in 0 .. Len(log)
    BY DEF LoopStates, TypeOK
  <2>3. NoReleaseSince(from[n]) /\ WaitFor(Current) \subseteq WaitFor(Current')
    BY <2>1, <2>2, LogGrows DEF NoReleaseSince
  <2>4. QED
    BY <2>3 DEF EdgesHold
<1>4. LoopStates'
  BY LogGrows DEF LoopStates, TypeOK
<1>5. QED
  BY <1>1, <1>2, <1>3, <1>4

\* ApplyEntry: only the distance of one replica changes.
LEMMA ApplyKeepsInv ==
  ASSUME AbortInv, NEW n \in Nodes, ApplyEntry(n)
  PROVE  AbortInv'
<1>. USE DEF AbortInv, ApplyEntry, loopVars
<1>1. TypeOK'
  BY DEF TypeOK
<1>2. KeepsWaits' /\ EdgesHold'
  BY LogStays DEF EdgesHold, NoReleaseSince
<1>3. LoopStates'
  BY DEF LoopStates
<1>4. QED
  BY <1>1, <1>2, <1>3

\* BeginGather: no edge has been gathered.
LEMMA BeginKeepsInv ==
  ASSUME AbortInv, NEW n \in Nodes, BeginGather(n)
  PROVE  AbortInv'
<1>. USE DEF AbortInv, BeginGather
<1>1. TypeOK'
  BY DEF TypeOK
<1>2. KeepsWaits' /\ Current' = Current
  BY LogStays
<1>3. EdgesHold'
  <2>1. SUFFICES ASSUME NEW p \in Nodes, NoReleaseSince(from[p])'
                 PROVE  edges[p] \subseteq WaitFor(Current')
    BY DEF EdgesHold
  <2>2. CASE p = n
    BY <2>2 DEF LoopStates
  <2>3. CASE p # n
    BY <1>2, <2>1, <2>3 DEF EdgesHold, NoReleaseSince, TypeOK
  <2>4. QED
    BY <2>2, <2>3
<1>4. LoopStates'
  BY DEF LoopStates, TypeOK
<1>5. QED
  BY <1>1, <1>2, <1>3, <1>4

\* Reported: the edges of one more table of the history.
LEMMA ReportKeepsInv ==
  ASSUME AbortInv, NEW n \in Nodes, Reported(n)
  PROVE  AbortInv'
<1>. USE DEF AbortInv
<1>. DEFINE p == Asks(n)[asked[n] + 1]
<1>1. p \in Nodes
  BY AsksNodes DEF Reported, TypeOK
<1>2. /\ loop[n] = "ask" /\ UNCHANGED <<log, history, applied, loop, abort>>
      /\ edges' = [edges EXCEPT ![n] = @ \cup WaitFor(TableOf(p))]
      /\ from' = [from EXCEPT ![n] = IF applied[p] < @ THEN applied[p] ELSE @]
      /\ asked' = [asked EXCEPT ![n] = @ + 1]
  BY DEF Reported
<1>. HIDE DEF p
<1>3. /\ applied[p] \in 0 .. Len(log) /\ TableOf(p) \in Table
      /\ TableOf(p) = history[applied[p] + 1]
  BY <1>1 DEF TypeOK, TableOf
<1>4. /\ from'[n] <= from[n] /\ from'[n] <= applied[p] /\ from'[n] \in Nat
      /\ \A m \in Nodes \ {n} : from'[m] = from[m]
  BY <1>2, <1>3 DEF TypeOK
<1>5. TypeOK'
  <2>1. WaitFor(TableOf(p)) \subseteq Owners \X Owners
    BY <1>3, WaitForType
  <2>2. edges' \in [Nodes -> SUBSET (Owners \X Owners)]
    BY <1>2, <2>1 DEF TypeOK
  <2>3. from' \in [Nodes -> Nat]
    BY <1>2, <1>3 DEF TypeOK
  <2>4. QED
    BY <1>2, <2>2, <2>3 DEF TypeOK
<1>6. KeepsWaits' /\ Current' = Current
  BY <1>2, LogStays
<1>7. EdgesHold'
  <2>1. SUFFICES ASSUME NEW m \in Nodes, NoReleaseSince(from[m])'
                 PROVE  edges'[m] \subseteq WaitFor(Current)
    BY <1>6 DEF EdgesHold
  <2>2. CASE m = n
    <3>1. NoReleaseSince(from[n]) /\ NoReleaseSince(applied[p])
      BY <1>2, <1>3, <1>4, <2>1, <2>2 DEF NoReleaseSince, TypeOK
    <3>2. edges[n] \subseteq WaitFor(Current)
      BY <3>1 DEF EdgesHold
    <3>3. WaitFor(TableOf(p)) \subseteq WaitFor(Current)
      BY <1>3, <3>1 DEF KeepsWaits
    <3>4. edges'[n] = edges[n] \cup WaitFor(TableOf(p))
      BY <1>2 DEF TypeOK
    <3>5. QED
      BY <2>2, <3>2, <3>3, <3>4
  <2>3. CASE m # n
    BY <1>2, <1>4, <2>1, <2>3 DEF EdgesHold, NoReleaseSince, TypeOK
  <2>4. QED
    BY <2>2, <2>3
<1>8. LoopStates'
  <2>1. SUFFICES ASSUME NEW m \in Nodes
                 PROVE  /\ from'[m] <= Len(log)
                        /\ loop[m] = "sleep" => edges'[m] = {}
                        /\ loop[m] = "abort" => /\ abort[m] \in Owners \X Resources
                                                /\ OnCycle(edges'[m], abort[m][1])
    BY <1>2 DEF LoopStates
  <2>2. CASE m = n
    BY <1>2, <1>3, <1>4, <2>2 DEF TypeOK
  <2>3. CASE m # n
    <3>1. edges'[m] = edges[m] /\ from'[m] = from[m]
      BY <1>2, <2>3 DEF TypeOK
    <3>2. QED
      BY <3>1 DEF LoopStates
  <2>4. QED
    BY <2>2, <2>3
<1>9. QED
  BY <1>5, <1>6, <1>7, <1>8

\* Silent: nothing is added.
LEMMA SilentKeepsInv ==
  ASSUME AbortInv, NEW n \in Nodes, Silent(n)
  PROVE  AbortInv'
<1>. USE DEF AbortInv, Silent
<1>1. TypeOK'
  BY DEF TypeOK
<1>2. KeepsWaits' /\ EdgesHold'
  BY LogStays DEF EdgesHold, NoReleaseSince
<1>3. LoopStates'
  BY DEF LoopStates
<1>4. QED
  BY <1>1, <1>2, <1>3

\* PickVictim: the victim is on a cycle of the edges.
LEMMA PickKeepsInv ==
  ASSUME AbortInv, NEW n \in Nodes, PickVictim(n)
  PROVE  AbortInv'
<1>. USE DEF AbortInv
<1>1. PICK v \in Owners, r \in Resources :
        /\ OnCycle(edges[n], v)
        /\ abort' = [abort EXCEPT ![n] = <<v, r>>]
  BY DEF PickVictim
<1>2. /\ loop' = [loop EXCEPT ![n] = "abort"]
      /\ UNCHANGED <<log, history, applied, asked, edges, from>>
  BY DEF PickVictim
<1>3. TypeOK'
  BY <1>1, <1>2 DEF TypeOK
<1>4. KeepsWaits' /\ EdgesHold'
  BY <1>2, LogStays DEF EdgesHold, NoReleaseSince
<1>5. LoopStates'
  <2>1. SUFFICES ASSUME NEW m \in Nodes
                 PROVE  /\ from[m] <= Len(log)
                        /\ loop'[m] = "sleep" => edges[m] = {}
                        /\ loop'[m] = "abort" => /\ abort'[m] \in Owners \X Resources
                                                 /\ OnCycle(edges[m], abort'[m][1])
    BY <1>2 DEF LoopStates
  <2>2. CASE m = n
    <3>1. abort'[m] = <<v, r>> /\ loop'[m] = "abort"
      BY <1>1, <1>2, <2>2 DEF TypeOK
    <3>2. QED
      BY <1>1, <2>2, <3>1 DEF LoopStates
  <2>3. CASE m # n
    <3>1. abort'[m] = abort[m] /\ loop'[m] = loop[m]
      BY <1>1, <1>2, <2>3 DEF TypeOK
    <3>2. QED
      BY <3>1 DEF LoopStates
  <2>4. QED
    BY <2>2, <2>3
<1>6. QED
  BY <1>3, <1>4, <1>5

\* A loop that ends its round has nothing left to account for; the log may have
\* grown by its release.
LEMMA EndKeepsInv ==
  ASSUME AbortInv, NEW n \in Nodes, NEW s \in {"sleep", "dead"}, EndGather(n, s),
         \/ UNCHANGED <<log, history>>
         \/ \E cmd \in Release : AppendLog(cmd, MaxLog),
         applied' \in [Nodes -> Nat], \A p \in Nodes : applied'[p] <= Len(log)
  PROVE  AbortInv'
<1>. USE DEF AbortInv
<1>1. /\ log' \in Seq(Acquire \cup Release) /\ history' \in Seq(Table)
      /\ Len(history') = Len(log') + 1 /\ Len(log) <= Len(log')
      /\ KeepsWaits'
      /\ \A k \in 0 .. Len(log) :
           NoReleaseSince(k)' =>
             NoReleaseSince(k) /\ WaitFor(Current) \subseteq WaitFor(Current')
  <2>1. CASE UNCHANGED <<log, history>>
    BY <2>1, LogStays DEF TypeOK
  <2>2. CASE \E cmd \in Release : AppendLog(cmd, MaxLog)
    <3>1. PICK cmd \in Acquire \cup Release : AppendLog(cmd, MaxLog)
      BY <2>2
    <3>2. Len(log) \in Nat
      BY DEF TypeOK
    <3>3. QED
      BY <3>1, <3>2, LogGrows
  <2>3. QED
    BY <2>1, <2>2
<1>2. TypeOK'
  <2>1. \A p \in Nodes : applied'[p] <= Len(log')
    BY <1>1 DEF TypeOK
  <2>2. loop' \in [Nodes -> {"sleep", "ask", "abort", "dead"}]
    BY DEF TypeOK, EndGather
  <2>3. /\ asked' \in [Nodes -> Nat] /\ from' \in [Nodes -> Nat]
        /\ edges' \in [Nodes -> SUBSET (Owners \X Owners)]
        /\ abort' \in [Nodes -> (Owners \X Resources) \cup {NoAbort}]
    BY DEF TypeOK, EndGather
  <2>4. QED
    BY <1>1, <2>1, <2>2, <2>3 DEF TypeOK
<1>3. \A m \in Nodes : /\ m = n => /\ edges'[m] = {} /\ from'[m] = 0
                                   /\ loop'[m] = s
                       /\ m # n => /\ edges'[m] = edges[m] /\ from'[m] = from[m]
                                   /\ loop'[m] = loop[m] /\ abort'[m] = abort[m]
  BY DEF EndGather, TypeOK
<1>4. EdgesHold'
  <2>1. SUFFICES ASSUME NEW m \in Nodes, NoReleaseSince(from[m])', m # n
                 PROVE  edges'[m] \subseteq WaitFor(Current')
    BY <1>3 DEF EdgesHold
  <2>2. from[m] \in 0 .. Len(log) /\ from'[m] = from[m]
    BY <1>3, <2>1 DEF LoopStates, TypeOK
  <2>3. NoReleaseSince(from[m]) /\ WaitFor(Current) \subseteq WaitFor(Current')
    BY <1>1, <2>1, <2>2 DEF NoReleaseSince
  <2>4. QED
    BY <1>3, <2>1, <2>3 DEF EdgesHold
<1>5. LoopStates'
  <2>1. SUFFICES ASSUME NEW m \in Nodes
                 PROVE  /\ from'[m] <= Len(log')
                        /\ loop'[m] = "sleep" => edges'[m] = {}
                        /\ loop'[m] = "abort" => /\ abort'[m] \in Owners \X Resources
                                                 /\ OnCycle(edges'[m], abort'[m][1])
    BY DEF LoopStates
  <2>2. from[m] \in Nat /\ Len(log) \in Nat /\ Len(log') \in Nat
    BY <1>1 DEF TypeOK
  <2>3. CASE m = n
    BY <1>3, <2>2, <2>3
  <2>4. CASE m # n
    BY <1>1, <1>3, <2>2, <2>4 DEF LoopStates
  <2>5. QED
    BY <2>3, <2>4
<1>6. QED
  BY <1>1, <1>2, <1>4, <1>5

\* Every step.
LEMMA AbortInvNext ==
  ASSUME AbortInv, [Next]_vars
  PROVE  AbortInv'
<1>1. ASSUME NEW cmd \in Commands, ClientCommand(cmd)
      PROVE  AbortInv'
  BY <1>1, CommandsAssumption, CommandKeepsInv
<1>2. ASSUME NEW n \in Nodes, ApplyEntry(n)
      PROVE  AbortInv'
  BY <1>2, ApplyKeepsInv
<1>3. ASSUME NEW n \in Nodes, BeginGather(n)
      PROVE  AbortInv'
  BY <1>3, BeginKeepsInv
<1>4. ASSUME NEW n \in Nodes, Reported(n)
      PROVE  AbortInv'
  BY <1>4, ReportKeepsInv
<1>5. ASSUME NEW n \in Nodes, Silent(n)
      PROVE  AbortInv'
  BY <1>5, SilentKeepsInv
<1>6. ASSUME NEW n \in Nodes, PickVictim(n)
      PROVE  AbortInv'
  BY <1>6, PickKeepsInv
<1>7. ASSUME NEW n \in Nodes, NoVictim(n) \/ AbortFails(n)
      PROVE  AbortInv'
  <2>1. applied' \in [Nodes -> Nat] /\ \A p \in Nodes : applied'[p] <= Len(log)
    BY <1>7 DEF AbortInv, TypeOK, NoVictim, AbortFails
  <2>2. /\ UNCHANGED <<log, history>>
        /\ EndGather(n, "sleep") \/ EndGather(n, "dead")
    BY <1>7 DEF NoVictim, AbortFails
  <2>3. QED
    BY <2>1, <2>2, EndKeepsInv
<1>8. ASSUME NEW n \in Nodes, LogAbort(n)
      PROVE  AbortInv'
  <2>1. abort[n] \in Owners \X Resources
    BY <1>8 DEF AbortInv, LoopStates, LogAbort
  <2>2. \E cmd \in Release : AppendLog(cmd, MaxLog)
    BY <1>8, <2>1 DEF LogAbort, Release
  <2>3. /\ EndGather(n, "sleep")
        /\ applied' \in [Nodes -> Nat] /\ \A p \in Nodes : applied'[p] <= Len(log)
    BY <1>8 DEF LogAbort, AbortInv, TypeOK
  <2>4. QED
    BY <2>2, <2>3, EndKeepsInv
<1>9. ASSUME NEW n \in Nodes, Restart(n)
      PROVE  AbortInv'
  <2>1. applied' \in [Nodes -> Nat] /\ \A p \in Nodes : applied'[p] <= Len(log)
    BY <1>9 DEF AbortInv, TypeOK, Restart
  <2>2. QED
    BY <1>9, <2>1, EndKeepsInv DEF Restart
<1>10. CASE UNCHANGED vars
  <2>1. TypeOK' /\ LoopStates'
    BY <1>10 DEF AbortInv, TypeOK, LoopStates, vars
  <2>2. KeepsWaits' /\ EdgesHold'
    BY <1>10, LogStays DEF AbortInv, EdgesHold, NoReleaseSince, vars
  <2>3. QED
    BY <2>1, <2>2 DEF AbortInv
<1>11. QED
  BY <1>1, <1>2, <1>3, <1>4, <1>5, <1>6, <1>7, <1>8, <1>9, <1>10
     DEF Next, Outside, LoopStep, Decide

\* The inductive invariant of the deadlock loop.
THEOREM AbortInvariant == Spec => []AbortInv
BY AbortInvInit, AbortInvNext, PTL DEF Spec

\* Every variable of the deadlock loop keeps its type: in particular an abort
\* always names an owner and a resource (_deadlock_loop).
THEOREM TypeCorrect == Spec => []TypeOK
<1>1. AbortInv => TypeOK
  BY DEF AbortInv
<1>2. QED
  BY <1>1, AbortInvariant, PTL

\* Whatever replicas have answered, and when: if nothing was released since the
\* oldest table the edges come from, the victim of _deadlock_loop is in a
\* deadlock of the current table.
THEOREM AbortsJustified == Spec => []AbortIsJustified
<1>1. AbortInv => AbortIsJustified
  <2>1. SUFFICES ASSUME AbortInv, NEW n \in Nodes, loop[n] = "abort",
                        NoReleaseSince(from[n])
                 PROVE  OnCycle(WaitFor(Current), abort[n][1])
    BY DEF AbortIsJustified
  <2>2. edges[n] \subseteq WaitFor(Current)
    BY <2>1 DEF AbortInv, EdgesHold
  <2>3. OnCycle(edges[n], abort[n][1]) /\ abort[n][1] \in Owners
    BY <2>1 DEF AbortInv, LoopStates
  <2>4. QED
    BY <2>2, <2>3, OnCycleGrows
<1>2. QED
  BY <1>1, AbortInvariant, PTL

-----------------------------------------------------------------------------
(* _detect_cycle, half-way: the search of any list of edges                  *)

\* Owners dfs has returned for, with None.
Done == visited \ ToSet(stack)

\* q is in every set that has the owners p waits for and, with an owner, the
\* ones that owner waits for.
Leads(p, q) ==
  \A S \in SUBSET Owners :
    /\ \A x \in Owners : <<p, x>> \in ToSet(given) => x \in S
    /\ \A x, y \in Owners : <<x, y>> \in ToSet(given) /\ x \in S => y \in S
    => q \in S

SearchTypes ==
  /\ given \in Seq(Owners \X Owners)
  /\ phase \in {"gather", "search", "ended"}
  /\ root \in Nat /\ root <= Len(given)
  /\ visited \subseteq Owners
  /\ stack \in Seq(Owners)
  /\ looked \in Seq(Nat) /\ Len(looked) = Len(stack)
  /\ cycle \in Seq(Owners)
  /\ phase # "ended" => cycle = << >>
  /\ phase = "gather" => root = 0 /\ visited = {} /\ stack = << >>

\* The owners on the stack are different, visited, and each was called from the
\* one before it, for the edge its loop has come to.
PathRight ==
  /\ \A i, j \in DOMAIN stack : stack[i] = stack[j] => i = j
  /\ \A i \in DOMAIN stack : stack[i] \in visited
  /\ \A i, j \in DOMAIN stack : j = i + 1 =>
       looked[i] \in DOMAIN given /\ given[looked[i]] = <<stack[i], stack[j]>>
  /\ \A i, j \in DOMAIN stack : i < j => Leads(stack[i], stack[j])

\* The other edges a loop has passed lead to owners dfs has returned for.
LookedRight ==
  \A i \in DOMAIN stack, j \in DOMAIN given :
    given[j][1] = stack[i] /\ j <= looked[i] /\ ~(j = looked[i] /\ i < Len(stack))
      => given[j][2] \in Done

\* So do all edges of those, and none of them is on a cycle.
DoneRight ==
  /\ \A p, q \in Owners : <<p, q>> \in ToSet(given) /\ p \in Done => q \in Done
  /\ \A p \in Done : ~OnCycle(ToSet(given), p)

RootsRight == \A j \in 1 .. root : given[j][1] \in visited

SearchRight == PathRight /\ LookedRight /\ DoneRight /\ RootsRight

SearchInv ==
  /\ SearchTypes
  /\ phase = "search" => SearchRight
  /\ CycleIsReal /\ CycleIsFound

\* dfs is called for n by the last owner of the stack, whose loop has come to the
\* edge that l says.
Called(n, l) ==
  /\ n \in Owners /\ l \in Seq(Nat) /\ Len(l) = Len(stack)
  /\ \A i \in DOMAIN stack : l[i] \in DOMAIN given
  /\ \A i, j \in DOMAIN stack : j = i + 1 => given[l[i]] = <<stack[i], stack[j]>>
  /\ stack # << >> => given[l[Len(stack)]] = <<stack[Len(stack)], n>>
  /\ \A i \in DOMAIN stack, j \in DOMAIN given :
       given[j][1] = stack[i] /\ j < l[i] => given[j][2] \in Done

LEMMA LeadsIsCycle ==
  ASSUME NEW o PROVE OnCycle(ToSet(given), o) <=> Leads(o, o)
BY DEF OnCycle, Leads

LEMMA LeadsOn ==
  ASSUME NEW p \in Owners, NEW q \in Owners, NEW r \in Owners,
         p = q \/ Leads(p, q), <<q, r>> \in ToSet(given)
  PROVE  Leads(p, r)
BY DEF Leads

LEMMA StackTypes ==
  ASSUME SearchTypes
  PROVE  /\ Len(stack) \in Nat /\ DOMAIN stack = 1 .. Len(stack)
         /\ Len(given) \in Nat /\ DOMAIN given = 1 .. Len(given)
         /\ \A i \in DOMAIN stack : stack[i] \in Owners /\ looked[i] \in Nat
         /\ \A j \in DOMAIN given : /\ given[j] \in ToSet(given)
                                    /\ given[j] = <<given[j][1], given[j][2]>>
                                    /\ given[j][1] \in Owners /\ given[j][2] \in Owners
         /\ ToSet(given) \subseteq Owners \X Owners
         /\ stack # << >> => Len(stack) \in DOMAIN stack /\ Last(stack) = stack[Len(stack)]
                             /\ Last(looked) = looked[Len(stack)]
<1>1. /\ Len(stack) \in Nat /\ DOMAIN stack = 1 .. Len(stack)
      /\ Len(given) \in Nat /\ DOMAIN given = 1 .. Len(given)
      /\ \A i \in DOMAIN stack : stack[i] \in Owners /\ looked[i] \in Nat
  BY LenProperties, ElementOfSeq DEF SearchTypes
<1>2. \A j \in DOMAIN given : given[j] \in Owners \X Owners
  BY <1>1, ElementOfSeq DEF SearchTypes
<1>3. ToSet(given) \subseteq Owners \X Owners /\ \A j \in DOMAIN given : given[j] \in ToSet(given)
  BY <1>2 DEF ToSet
<1>4. stack # << >> => Len(stack) \in Nat \ {0}
  BY EmptySeq DEF SearchTypes
<1>5. Last(stack) = stack[Len(stack)] /\ Last(looked) = looked[Len(stack)]
  BY DEF Last, SearchTypes
<1>6. QED
  BY <1>1, <1>2, <1>3, <1>4, <1>5

\* The stack when an owner is entered, and when it is left.
LEMMA StackGrows ==
  ASSUME SearchTypes, NEW n \in Owners, NEW l \in Seq(Nat), Len(l) = Len(stack)
  PROVE  /\ Append(stack, n) \in Seq(Owners) /\ Append(l, 0) \in Seq(Nat)
         /\ Len(Append(stack, n)) = Len(stack) + 1 /\ Len(Append(l, 0)) = Len(stack) + 1
         /\ DOMAIN Append(stack, n) = 1 .. Len(stack) + 1
         /\ \A i \in DOMAIN stack : Append(stack, n)[i] = stack[i] /\ Append(l, 0)[i] = l[i]
         /\ Append(stack, n)[Len(stack) + 1] = n /\ Append(l, 0)[Len(stack) + 1] = 0
         /\ ToSet(Append(stack, n)) = ToSet(stack) \cup {n}
<1>1. /\ Append(stack, n) \in Seq(Owners) /\ Append(l, 0) \in Seq(Nat)
      /\ Len(Append(stack, n)) = Len(stack) + 1 /\ Len(Append(l, 0)) = Len(stack) + 1
      /\ \A i \in 1 .. Len(stack) : Append(stack, n)[i] = stack[i] /\ Append(l, 0)[i] = l[i]
      /\ Append(stack, n)[Len(stack) + 1] = n /\ Append(l, 0)[Len(stack) + 1] = 0
  BY DEF SearchTypes
<1>2. DOMAIN Append(stack, n) = 1 .. Len(stack) + 1
  BY <1>1, LenProperties
<1>3. ToSet(Append(stack, n)) = ToSet(stack) \cup {n}
  BY <1>1, <1>2, StackTypes DEF ToSet
<1>4. QED
  BY <1>1, <1>2, <1>3, StackTypes

LEMMA StackShrinks ==
  ASSUME SearchTypes, stack # << >>
  PROVE  /\ Front(stack) \in Seq(Owners) /\ Front(looked) \in Seq(Nat)
         /\ Len(Front(stack)) = Len(stack) - 1 /\ Len(Front(looked)) = Len(stack) - 1
         /\ DOMAIN Front(stack) = 1 .. Len(stack) - 1
         /\ \A i \in 1 .. Len(stack) - 1 : /\ Front(stack)[i] = stack[i]
                                           /\ Front(looked)[i] = looked[i]
<1>1. /\ Len(stack) \in Nat \ {0} /\ Len(looked) = Len(stack)
      /\ \A i \in 1 .. Len(stack) - 1 : stack[i] \in Owners /\ looked[i] \in Nat
  BY StackTypes, EmptySeq DEF SearchTypes
<1>2. /\ Front(stack) = SubSeq(stack, 1, Len(stack) - 1)
      /\ Front(looked) = SubSeq(looked, 1, Len(stack) - 1)
  BY <1>1 DEF Front
<1>3. /\ Front(stack) \in Seq(Owners) /\ Len(Front(stack)) = Len(stack) - 1
      /\ \A i \in 1 .. Len(stack) - 1 : Front(stack)[i] = stack[i]
  BY <1>1, <1>2, SubSeqProperties
<1>4. /\ Front(looked) \in Seq(Nat) /\ Len(Front(looked)) = Len(stack) - 1
      /\ \A i \in 1 .. Len(stack) - 1 : Front(looked)[i] = looked[i]
  BY <1>1, <1>2, SubSeqProperties
<1>5. QED
  BY <1>3, <1>4, LenProperties

\* What dfs does, one step per way it returns or goes on.
LEMMA DfsMeets ==
  ASSUME SearchTypes, PathRight, NEW n, NEW l, Called(n, l), Contains(stack, n),
         cycle' = FromOn(n)
  PROVE  /\ cycle' \in Seq(Owners) /\ cycle' # << >>
         /\ \A i, j \in DOMAIN cycle' : cycle'[i] = cycle'[j] => i = j
         /\ \A i \in DOMAIN cycle' :
              <<cycle'[i], IF i = Len(cycle') THEN cycle'[1] ELSE cycle'[i + 1]>>
                \in ToSet(given)
         /\ OnCycle(ToSet(given), cycle'[1])
<1>. DEFINE m == CHOOSE i \in DOMAIN stack : stack[i] = n
            k == Len(stack) - m + 1
<1>1. m \in 1 .. Len(stack) /\ stack[m] = n
  BY StackTypes DEF Contains
<1>2. Len(stack) \in Nat /\ k \in Nat \ {0} /\ stack # << >>
  <2>1. Len(stack) \in Nat /\ k \in Nat \ {0}
    BY <1>1, StackTypes
  <2>2. stack # << >>
    BY <1>1, EmptySeq
  <2>3. QED
    BY <2>1, <2>2
<1>3. /\ cycle' \in Seq(Owners) /\ Len(cycle') = k
      /\ \A i \in 1 .. k : cycle'[i] = stack[m + i - 1]
  <2>1. cycle' = SubSeq(stack, m, Len(stack))
    BY DEF FromOn
  <2>2. m \in Int /\ Len(stack) \in Int /\ m <= Len(stack)
        /\ \A i \in m .. Len(stack) : stack[i] \in Owners
    BY <1>1, <1>2, StackTypes
  <2>. HIDE DEF m
  <2>3. QED
    BY <2>1, <2>2, SubSeqProperties
<1>4. DOMAIN cycle' = 1 .. k /\ cycle' # << >>
  <2>1. DOMAIN cycle' = 1 .. k
    BY <1>3, LenProperties
  <2>2. cycle' # << >>
    BY <1>2, <1>3, EmptySeq
  <2>3. QED
    BY <2>1, <2>2
<1>. HIDE DEF m
<1>5. ASSUME NEW i \in DOMAIN cycle', NEW j \in DOMAIN cycle', cycle'[i] = cycle'[j]
      PROVE  i = j
  <2>1. /\ i \in 1 .. k /\ j \in 1 .. k
        /\ m + i - 1 \in DOMAIN stack /\ m + j - 1 \in DOMAIN stack
    BY <1>1, <1>2, <1>4, StackTypes
  <2>2. m + i - 1 = m + j - 1
    BY <1>3, <1>5, <2>1 DEF PathRight
  <2>3. QED
    BY <1>1, <2>1, <2>2
<1>6. ASSUME NEW i \in DOMAIN cycle'
      PROVE  <<cycle'[i], IF i = Len(cycle') THEN cycle'[1] ELSE cycle'[i + 1]>>
               \in ToSet(given)
  <2>0. i \in 1 .. k /\ cycle'[i] = stack[m + i - 1] /\ cycle'[1] = stack[m + 1 - 1]
    BY <1>2, <1>3, <1>4
  <2>1. /\ m + i - 1 \in DOMAIN stack /\ cycle'[i] = stack[m + i - 1]
        /\ i \in 1 .. k /\ cycle'[1] = n
    <3>1. m + 1 - 1 = m /\ m + i - 1 \in 1 .. Len(stack)
      BY <1>1, <1>2, <2>0
    <3>2. QED
      BY <1>1, <2>0, <3>1, StackTypes
  <2>2. CASE i = Len(cycle')
    <3>1. m + i - 1 = Len(stack)
      BY <1>1, <1>2, <1>3, <2>1, <2>2
    <3>2. l[Len(stack)] \in DOMAIN given /\ given[l[Len(stack)]] = <<stack[Len(stack)], n>>
      BY <1>2, <2>1, <3>1 DEF Called
    <3>3. QED
      BY <2>1, <2>2, <3>1, <3>2, StackTypes
  <2>3. CASE i # Len(cycle')
    <3>0. i + 1 \in 1 .. k /\ m + i \in 1 .. Len(stack)
          /\ m + i = (m + i - 1) + 1 /\ m + (i + 1) - 1 = m + i
      <4>1. i # k /\ i \in 1 .. k
        BY <1>3, <2>1, <2>3
      <4>2. QED
        BY <1>1, <1>2, <4>1
    <3>1. m + i \in DOMAIN stack /\ cycle'[i + 1] = stack[m + i]
          /\ m + i = (m + i - 1) + 1
      BY <1>3, <3>0, StackTypes
    <3>2. l[m + i - 1] \in DOMAIN given
          /\ given[l[m + i - 1]] = <<stack[m + i - 1], stack[m + i]>>
      BY <2>1, <3>1 DEF Called
    <3>3. QED
      BY <2>1, <2>3, <3>1, <3>2, StackTypes
  <2>4. QED
    BY <2>2, <2>3
<1>7. OnCycle(ToSet(given), n)
  <2>1. l[Len(stack)] \in DOMAIN given /\ given[l[Len(stack)]] = <<stack[Len(stack)], n>>
    BY <1>2, StackTypes DEF Called
  <2>2. <<stack[Len(stack)], n>> \in ToSet(given) /\ n \in Owners /\ stack[Len(stack)] \in Owners
    BY <1>2, <2>1, StackTypes DEF Called
  <2>3. n = stack[Len(stack)] \/ Leads(n, stack[Len(stack)])
    BY <1>1, <1>2, StackTypes DEF PathRight
  <2>4. QED
    BY <2>2, <2>3, LeadsOn, LeadsIsCycle
<1>8. cycle'[1] = n
  BY <1>1, <1>2, <1>3, StackTypes
<1>9. QED
  BY <1>3, <1>4, <1>5, <1>6, <1>7, <1>8

\* The path after a step, whatever the step was.
LEMMA PathHolds ==
  ASSUME given' = given, NEW k \in Nat, DOMAIN stack' = 1 .. k,
         \A i, j \in 1 .. k : stack'[i] = stack'[j] => i = j,
         \A i \in 1 .. k : stack'[i] \in visited',
         \A i, j \in 1 .. k : j = i + 1 =>
           looked'[i] \in DOMAIN given /\ given[looked'[i]] = <<stack'[i], stack'[j]>>,
         \A i, j \in 1 .. k : i < j => Leads(stack'[i], stack'[j])
  PROVE  PathRight'
<1>1. \A i, j \in DOMAIN stack' : i < j => Leads(stack[i], stack[j])'
  BY DEF Leads
<1>2. \A i, j \in DOMAIN stack' : j = i + 1 =>
        looked'[i] \in DOMAIN given' /\ given'[looked'[i]] = <<stack'[i], stack'[j]>>
  OBVIOUS
<1>3. QED
  BY <1>1, <1>2 DEF PathRight

LEMMA DfsReturns ==
  ASSUME SearchTypes, SearchRight, NEW n, NEW l, Called(n, l),
         ~Contains(stack, n), n \in visited, looked' = l,
         UNCHANGED <<given, visited, stack>>
  PROVE  PathRight' /\ LookedRight' /\ DoneRight'
<1>1. Done' = Done /\ n \in Done
  BY DEF Done, ToSet, Contains
<1>2. DoneRight'
  BY <1>1 DEF SearchRight, DoneRight, OnCycle
<1>3. PathRight'
  <2>1. \A i, j \in DOMAIN stack : j = i + 1 =>
          looked'[i] \in DOMAIN given /\ given[looked'[i]] = <<stack[i], stack[j]>>
    BY DEF Called
  <2>2. \A i, j \in DOMAIN stack : i < j => Leads(stack[i], stack[j])'
    BY DEF SearchRight, PathRight, Leads
  <2>3. QED
    BY <2>1, <2>2 DEF SearchRight, PathRight
<1>4. ASSUME NEW i \in DOMAIN stack, NEW j \in DOMAIN given,
             given[j][1] = stack[i], j <= l[i], ~(j = l[i] /\ i < Len(stack))
      PROVE  given[j][2] \in Done
  <2>1. CASE j < l[i]
    BY <1>4, <2>1 DEF Called
  <2>2. CASE ~(j < l[i])
    <3>1. l[i] \in Nat /\ j \in Nat /\ i \in Nat /\ i <= Len(stack) /\ Len(stack) \in Nat
      BY StackTypes, ElementOfSeq DEF Called
    <3>2. j = l[i] /\ i = Len(stack) /\ stack # << >>
      BY <1>4, <2>2, <3>1
    <3>3. given[j][2] = n
      BY <3>2 DEF Called
    <3>4. QED
      BY <1>1, <3>3
  <2>3. QED
    BY <2>1, <2>2
<1>5. LookedRight'
  BY <1>1, <1>4 DEF LookedRight
<1>6. QED
  BY <1>2, <1>3, <1>5

LEMMA DfsEnters ==
  ASSUME SearchTypes, SearchRight, NEW n, NEW l, Called(n, l), n \notin visited,
         visited' = visited \cup {n}, stack' = Append(stack, n), looked' = Append(l, 0),
         UNCHANGED given
  PROVE  PathRight' /\ LookedRight' /\ DoneRight'
<1>. DEFINE k == Len(stack)
<1>0. n \in Owners /\ l \in Seq(Nat) /\ Len(l) = k /\ k \in Nat
  BY StackTypes DEF Called
<1>1. /\ stack' \in Seq(Owners) /\ Len(stack') = k + 1
      /\ DOMAIN stack = 1 .. k /\ DOMAIN stack' = 1 .. k + 1
      /\ \A i \in 1 .. k : stack'[i] = stack[i] /\ looked'[i] = l[i]
      /\ stack'[k + 1] = n /\ looked'[k + 1] = 0
      /\ ToSet(stack)' = ToSet(stack) \cup {n}
  BY <1>0, StackGrows, StackTypes
<1>2. Done' = Done
  BY <1>1 DEF Done
<1>3. DoneRight'
  BY <1>2 DEF SearchRight, DoneRight, OnCycle
<1>4. \A i \in 1 .. k : stack[i] \in visited /\ stack[i] \in Owners /\ stack[i] # n
  <2>1. \A i \in DOMAIN stack : stack[i] \in visited /\ stack[i] \in Owners
    BY StackTypes DEF SearchRight, PathRight
  <2>2. QED
    BY <1>1, <2>1
<1>5. PathRight'
  <2>1. ASSUME NEW i \in 1 .. k + 1, NEW j \in 1 .. k + 1, stack'[i] = stack'[j]
        PROVE  i = j
    <3>1. CASE i \in 1 .. k /\ j \in 1 .. k
      BY <1>1, <2>1, <3>1 DEF SearchRight, PathRight
    <3>2. CASE i = k + 1 \/ j = k + 1
      BY <1>0, <1>1, <1>4, <2>1, <3>2
    <3>3. QED
      BY <1>0, <3>1, <3>2
  <2>2. ASSUME NEW i \in 1 .. k + 1 PROVE stack'[i] \in visited'
    BY <1>0, <1>1, <1>4
  <2>3. ASSUME NEW i \in 1 .. k + 1, NEW j \in 1 .. k + 1, j = i + 1
        PROVE  looked'[i] \in DOMAIN given /\ given[looked'[i]] = <<stack'[i], stack'[j]>>
    <3>1. i \in 1 .. k /\ looked'[i] = l[i] /\ stack'[i] = stack[i]
      BY <1>0, <1>1, <2>3
    <3>2. CASE j \in 1 .. k
      <4>1. i \in DOMAIN stack /\ j \in DOMAIN stack
        BY <1>1, <3>1, <3>2
      <4>2. l[i] \in DOMAIN given /\ given[l[i]] = <<stack[i], stack[j]>>
        BY <2>3, <4>1 DEF Called
      <4>3. QED
        BY <1>1, <3>1, <3>2, <4>2
    <3>3. CASE j = k + 1
      <4>1. i = k /\ stack # << >>
        BY <1>0, <2>3, <3>1, <3>3
      <4>2. QED
        BY <1>1, <3>1, <3>3, <4>1 DEF Called
    <3>4. QED
      BY <1>0, <3>2, <3>3
  <2>4. ASSUME NEW i \in 1 .. k + 1, NEW j \in 1 .. k + 1, i < j
        PROVE  Leads(stack'[i], stack'[j])
    <3>1. i \in 1 .. k /\ stack'[i] = stack[i] /\ k \in 1 .. k
      BY <1>0, <1>1, <2>4
    <3>2. CASE j \in 1 .. k
      BY <1>1, <2>4, <3>1, <3>2 DEF SearchRight, PathRight
    <3>3. CASE j = k + 1
      <4>1. given[l[k]] = <<stack[k], n>> /\ l[k] \in DOMAIN given
        BY <1>1, <3>1, EmptySeq DEF Called
      <4>2. <<stack[k], n>> \in ToSet(given)
        BY <4>1, StackTypes
      <4>3. stack[i] = stack[k] \/ Leads(stack[i], stack[k])
        BY <1>0, <1>1, <3>1 DEF SearchRight, PathRight
      <4>4. Leads(stack[i], n)
        BY <1>0, <1>4, <3>1, <4>2, <4>3, LeadsOn
      <4>5. QED
        BY <1>1, <3>1, <3>3, <4>4
    <3>4. QED
      BY <1>0, <3>2, <3>3
  <2>5. k + 1 \in Nat
    BY <1>0
  <2>6. QED
    BY <1>1, <2>1, <2>2, <2>3, <2>4, <2>5, PathHolds
<1>6. ASSUME NEW i \in 1 .. k + 1, NEW j \in DOMAIN given, given[j][1] = stack'[i],
             j <= looked'[i], ~(j = looked'[i] /\ i < k + 1)
      PROVE  given[j][2] \in Done
  <2>1. j \in Nat \ {0}
    BY StackTypes
  <2>2. i \in 1 .. k
    BY <1>0, <1>1, <1>6, <2>1
  <2>3. l[i] \in Nat
    BY <1>0, <2>2, ElementOfSeq
  <2>4. j < l[i] /\ given[j][1] = stack[i]
    BY <1>0, <1>1, <1>6, <2>1, <2>2, <2>3
  <2>5. QED
    BY <1>1, <2>2, <2>4 DEF Called
<1>7. LookedRight'
  BY <1>1, <1>2, <1>6 DEF LookedRight
<1>8. QED
  BY <1>3, <1>5, <1>7

\* The calls of dfs: of a key with an empty stack, or of a neighbour.
LEMMA RootCalled ==
  ASSUME SearchTypes, stack = << >>, root < Len(given)
  PROVE  /\ root + 1 \in DOMAIN given /\ given[root + 1][1] \in Owners
         /\ Called(given[root + 1][1], << >>)
<1>1. root + 1 \in DOMAIN given /\ given[root + 1][1] \in Owners
  BY StackTypes DEF SearchTypes
<1>2. DOMAIN stack = {} /\ << >> \in Seq(Nat) /\ Len(<< >>) = Len(stack)
  BY EmptySeq
<1>3. QED
  BY <1>1, <1>2 DEF Called

LEMMA LoopMoves ==
  ASSUME NEW s \in Seq(Nat), NEW i \in 1 .. Len(s), NEW j \in Nat
  PROVE  /\ [s EXCEPT ![i] = j] \in Seq(Nat) /\ Len([s EXCEPT ![i] = j]) = Len(s)
         /\ \A h \in 1 .. Len(s) : [s EXCEPT ![i] = j][h] = IF h = i THEN j ELSE s[h]
BY ExceptSeq

LEMMA NeighbourCalled ==
  ASSUME SearchTypes, SearchRight, Len(stack) # 0, NEW j \in DOMAIN given,
         NextEdge(j, Last(stack), Last(looked))
  PROVE  Called(given[j][2], [looked EXCEPT ![Len(looked)] = j])
<1>. DEFINE k == Len(stack)
            l == [looked EXCEPT ![Len(looked)] = j]
<1>0. k \in Nat \ {0} /\ DOMAIN stack = 1 .. k /\ j \in Nat
  BY StackTypes, EmptySeq DEF SearchTypes
<1>1. /\ looked \in Seq(Nat) /\ Len(looked) = k /\ looked[k] \in Nat
      /\ Last(stack) = stack[k] /\ Last(looked) = looked[k]
  BY <1>0, StackTypes, EmptySeq DEF SearchTypes
<1>2. /\ l \in Seq(Nat) /\ Len(l) = k
      /\ \A i \in 1 .. k : l[i] = IF i = k THEN j ELSE looked[i]
  <2>. HIDE DEF k
  <2>1. l = [looked EXCEPT ![k] = j] /\ k \in 1 .. Len(looked)
    BY <1>0, <1>1
  <2>. HIDE DEF l
  <2>2. QED
    BY <1>0, <1>1, <2>1, LoopMoves
<1>. HIDE DEF l, k
<1>3. given[j] = <<stack[k], given[j][2]>> /\ given[j][2] \in Owners
  BY <1>0, <1>1, StackTypes DEF NextEdge
<1>4. ASSUME NEW i \in 1 .. k, i # k
      PROVE  /\ looked[i] \in DOMAIN given
             /\ given[looked[i]] = <<stack[i], stack[i + 1]>>
  <2>1. i \in DOMAIN stack /\ i + 1 \in DOMAIN stack
    BY <1>0, <1>4
  <2>2. QED
    BY <2>1 DEF SearchRight, PathRight
<1>5. ASSUME NEW i \in 1 .. k, NEW h \in DOMAIN given, given[h][1] = stack[i], h < l[i]
      PROVE  given[h][2] \in Done
  <2>1. h \in Nat /\ looked[i] \in Nat
    BY <1>0, <1>1, StackTypes
  <2>2. h <= looked[i] /\ ~(h = looked[i] /\ i < k)
    <3>1. CASE i # k
      <4>1. l[i] = looked[i]
        BY <1>2, <3>1
      <4>2. QED
        BY <1>5, <2>1, <4>1
    <3>2. CASE i = k
      <4>1. h \notin looked[k] + 1 .. j - 1
        BY <1>0, <1>1, <1>5, <3>2 DEF NextEdge
      <4>2. l[i] = j
        BY <1>2, <3>2
      <4>3. h < j /\ looked[k] \in Nat
        BY <1>0, <1>1, <1>5, <4>2
      <4>4. h <= looked[k]
        BY <1>0, <1>1, <2>1, <4>1, <4>3
      <4>5. QED
        BY <1>0, <1>1, <3>2, <4>4
    <3>3. QED
      BY <3>1, <3>2
  <2>3. QED
    BY <1>0, <1>5, <2>2 DEF SearchRight, LookedRight, k
<1>6. /\ \A i \in DOMAIN stack : l[i] \in DOMAIN given
      /\ given[l[k]] = <<stack[k], given[j][2]>>
  <2>1. k \in 1 .. k /\ l[k] = j
    BY <1>0, <1>2
  <2>2. ASSUME NEW i \in DOMAIN stack PROVE l[i] \in DOMAIN given
    <3>1. CASE i = k
      BY <2>1, <3>1
    <3>2. CASE i # k
      BY <1>0, <1>1, <1>2, <1>4, <3>2
    <3>3. QED
      BY <3>1, <3>2
  <2>3. QED
    BY <1>3, <2>1, <2>2
<1>7. ASSUME NEW i \in DOMAIN stack, NEW h \in DOMAIN stack, h = i + 1
      PROVE  given[l[i]] = <<stack[i], stack[h]>>
  <2>1. i \in 1 .. k /\ i # k
    BY <1>0, <1>1, <1>7
  <2>2. QED
    BY <1>2, <1>4, <1>7, <2>1
<1>8. Called(given[j][2], l)
  BY <1>0, <1>1, <1>2, <1>3, <1>5, <1>6, <1>7 DEF Called, k
<1>9. QED
  BY <1>8 DEF l

\* A call of dfs keeps the invariant and leaves its owner visited.
LEMMA DfsKeeps ==
  ASSUME SearchTypes, SearchRight, phase = "search", NEW n, NEW l, Called(n, l), Dfs(n, l),
         UNCHANGED given, root' \in Nat, root' <= Len(given),
         \A j \in 1 .. root' : given[j][1] \in visited \cup {n}
  PROVE  SearchInv'
<1>0. n \in Owners /\ l \in Seq(Nat) /\ Len(l) = Len(stack)
  BY DEF Called
<1>1. CASE Contains(stack, n) /\ cycle' = FromOn(n) /\ phase' = "ended" /\ looked' = l
           /\ UNCHANGED <<visited, stack>>
  <2>1. /\ cycle' \in Seq(Owners) /\ cycle' # << >>
        /\ \A i, j \in DOMAIN cycle' : cycle'[i] = cycle'[j] => i = j
        /\ \A i \in DOMAIN cycle' :
              <<cycle'[i], IF i = Len(cycle') THEN cycle'[1] ELSE cycle'[i + 1]>>
                \in ToSet(given)
        /\ OnCycle(ToSet(given), cycle'[1])
    BY <1>1, DfsMeets DEF SearchRight
  <2>2. SearchTypes'
    BY <1>0, <1>1, <2>1 DEF SearchTypes
  <2>3. CycleIsReal'
    BY <2>1 DEF CycleIsReal
  <2>4. CycleIsFound'
    BY <2>1 DEF CycleIsFound, OnCycle
  <2>5. QED
    BY <1>1, <2>2, <2>3, <2>4 DEF SearchInv
<1>2. cycle = << >>
  BY DEF SearchTypes
<1>3. ASSUME PathRight' /\ LookedRight' /\ DoneRight', phase' = phase, cycle' = cycle,
             SearchTypes', visited' = visited \cup {n}
      PROVE  SearchInv'
  <2>1. CycleIsReal' /\ CycleIsFound'
    BY <1>2, <1>3 DEF CycleIsReal, CycleIsFound
  <2>2. RootsRight'
    BY <1>3 DEF RootsRight
  <2>3. QED
    BY <1>3, <2>1, <2>2 DEF SearchInv, SearchRight
<1>4. CASE ~Contains(stack, n) /\ n \in visited /\ looked' = l
           /\ UNCHANGED <<phase, visited, stack, cycle>>
  <2>1. SearchTypes'
    BY <1>0, <1>4 DEF SearchTypes
  <2>2. PathRight' /\ LookedRight' /\ DoneRight'
    BY <1>4, DfsReturns
  <2>3. QED
    BY <1>3, <1>4, <2>1, <2>2
<1>5. CASE n \notin visited /\ visited' = visited \cup {n} /\ stack' = Append(stack, n)
           /\ looked' = Append(l, 0) /\ UNCHANGED <<phase, cycle>>
  <2>1. SearchTypes'
    BY <1>0, <1>5, StackGrows DEF SearchTypes
  <2>2. PathRight' /\ LookedRight' /\ DoneRight'
    BY <1>5, DfsEnters
  <2>3. QED
    BY <1>3, <1>5, <2>1, <2>2
<1>6. QED
  BY <1>1, <1>4, <1>5 DEF Dfs

\* An owner that is left has edges to owners that were left before, which are on
\* no cycle, so it is on none.
LEMMA LeaveKeeps ==
  ASSUME SearchInv, Leave
  PROVE  SearchInv'
<1>. DEFINE k == Len(stack)
            n == stack[k]
<1>0. SearchTypes /\ SearchRight /\ cycle = << >> /\ phase' = "search" /\ phase = "search"
  BY DEF SearchInv, SearchTypes, Leave
<1>1. /\ k \in Nat \ {0} /\ DOMAIN stack = 1 .. k /\ n \in Owners /\ n \in visited
      /\ Last(stack) = n /\ Last(looked) = looked[k] /\ k \in DOMAIN stack
  <2>1. k \in Nat \ {0} /\ DOMAIN stack = 1 .. k /\ stack # << >>
    BY <1>0, StackTypes, EmptySeq DEF SearchTypes, Leave
  <2>2. QED
    BY <1>0, <2>1, StackTypes DEF SearchRight, PathRight
<1>2. /\ stack' \in Seq(Owners) /\ looked' \in Seq(Nat)
      /\ Len(stack') = k - 1 /\ Len(looked') = k - 1 /\ DOMAIN stack' = 1 .. k - 1
      /\ \A i \in 1 .. k - 1 : stack'[i] = stack[i] /\ looked'[i] = looked[i]
  BY <1>0, StackShrinks DEF Leave
<1>3. UNCHANGED <<given, phase, root, visited, cycle>>
  BY DEF Leave
<1>4. Done' = Done \cup {n}
  <2>1. ToSet(stack)' = ToSet(stack) \ {n}
    <3>1. \A i \in 1 .. k - 1 : stack[i] # n
      BY <1>0, <1>1 DEF SearchRight, PathRight
    <3>2. QED
      <4>1. ToSet(stack)' = {stack[i] : i \in 1 .. k - 1}
        BY <1>2 DEF ToSet
      <4>2. ToSet(stack) = {stack[i] : i \in 1 .. k - 1} \cup {n}
        BY <1>1 DEF ToSet
      <4>3. QED
        BY <3>1, <4>1, <4>2
  <2>2. QED
    BY <1>1, <1>3, <2>1 DEF Done
<1>5. ASSUME NEW j \in DOMAIN given, given[j][1] = n
      PROVE  given[j][2] \in Done
  <2>1. j <= looked[k]
    BY <1>1, <1>5 DEF Leave, NoneLeft
  <2>2. QED
    BY <1>0, <1>1, <1>5, <2>1 DEF SearchRight, LookedRight
<1>6. \A q \in Owners : <<n, q>> \in ToSet(given) => q \in Done
  BY <1>5 DEF ToSet
<1>7. DoneRight'
  <2>1. \A p, q \in Owners : <<p, q>> \in ToSet(given) /\ p \in Done \cup {n} => q \in Done
    BY <1>0, <1>6 DEF SearchRight, DoneRight
  <2>2. n \notin Done /\ Done \in SUBSET Owners
    BY <1>0, <1>1 DEF Done, ToSet, SearchTypes
  <2>3. ~OnCycle(ToSet(given), n)
    BY <1>1, <2>1, <2>2 DEF OnCycle
  <2>4. \A p \in Done \cup {n} : ~OnCycle(ToSet(given), p)
    BY <1>0, <2>3 DEF SearchRight, DoneRight
  <2>5. QED
    BY <1>3, <1>4, <2>1, <2>4 DEF DoneRight, OnCycle
<1>8. PathRight'
  <2>1. \A i, j \in 1 .. k - 1 : i < j => Leads(stack[i], stack[j])
    BY <1>0, <1>1 DEF SearchRight, PathRight
  <2>2. \A i, j \in 1 .. k - 1 : /\ stack[i] = stack[j] => i = j
                                 /\ stack[i] \in visited
                                 /\ j = i + 1 => looked[i] \in DOMAIN given
                                              /\ given[looked[i]] = <<stack[i], stack[j]>>
    BY <1>0, <1>1 DEF SearchRight, PathRight
  <2>3. k - 1 \in Nat
    BY <1>1
  <2>4. /\ \A i, j \in 1 .. k - 1 : stack'[i] = stack'[j] => i = j
        /\ \A i \in 1 .. k - 1 : stack'[i] \in visited'
        /\ \A i, j \in 1 .. k - 1 : j = i + 1 =>
             looked'[i] \in DOMAIN given /\ given[looked'[i]] = <<stack'[i], stack'[j]>>
        /\ \A i, j \in 1 .. k - 1 : i < j => Leads(stack'[i], stack'[j])
    <3>1. \A i \in 1 .. k - 1 : stack'[i] = stack[i] /\ looked'[i] = looked[i]
      BY <1>2
    <3>2. /\ \A i, j \in 1 .. k - 1 : stack'[i] = stack'[j] => i = j
          /\ \A i \in 1 .. k - 1 : stack'[i] \in visited'
      BY <1>3, <2>2, <3>1
    <3>3. ASSUME NEW i \in 1 .. k - 1, NEW j \in 1 .. k - 1, j = i + 1
          PROVE  looked'[i] \in DOMAIN given /\ given[looked'[i]] = <<stack'[i], stack'[j]>>
      <4>1. looked[i] \in DOMAIN given /\ given[looked[i]] = <<stack[i], stack[j]>>
        BY <2>2, <3>3
      <4>2. QED
        BY <3>1, <4>1
    <3>4. ASSUME NEW i \in 1 .. k - 1, NEW j \in 1 .. k - 1, i < j
          PROVE  Leads(stack'[i], stack'[j])
      BY <2>1, <3>1, <3>4
    <3>5. QED
      BY <3>2, <3>3, <3>4
  <2>5. QED
    BY <1>2, <1>3, <2>3, <2>4, PathHolds
<1>9. LookedRight'
  <2>1. ASSUME NEW i \in 1 .. k - 1, NEW j \in DOMAIN given, given[j][1] = stack[i],
               j <= looked[i], ~(j = looked[i] /\ i < k - 1)
        PROVE  given[j][2] \in Done \cup {n}
    <3>1. CASE ~(j = looked[i] /\ i < k)
      BY <1>0, <1>1, <2>1, <3>1 DEF SearchRight, LookedRight
    <3>2. CASE j = looked[i] /\ i = k - 1
      BY <1>0, <1>1, <2>1, <3>2 DEF SearchRight, PathRight
    <3>3. QED
      BY <1>1, <2>1, <3>1, <3>2
  <2>2. QED
    BY <1>2, <1>3, <1>4, <2>1 DEF LookedRight
<1>10. SearchTypes' /\ RootsRight'
  BY <1>0, <1>1, <1>2, <1>3 DEF SearchTypes, SearchRight, RootsRight
<1>11. CycleIsReal' /\ CycleIsFound'
  BY <1>0, <1>3 DEF CycleIsReal, CycleIsFound
<1>12. QED
  BY <1>7, <1>8, <1>9, <1>10, <1>11 DEF SearchInv, SearchRight

\* When no key is left dfs has returned for all owners that wait.
LEMMA NoCycleKeeps ==
  ASSUME SearchInv, NoCycle
  PROVE  SearchInv'
<1>0. SearchTypes /\ SearchRight /\ cycle = << >>
  BY DEF SearchInv, SearchTypes, NoCycle
<1>1. UNCHANGED <<given, root, visited, stack, looked, cycle>> /\ phase' = "ended"
  BY DEF NoCycle, search
<1>2. Done = visited
  <2>1. DOMAIN stack = {}
    BY DEF NoCycle
  <2>2. QED
    BY <2>1 DEF Done, ToSet
<1>3. ASSUME NEW o \in Owners PROVE ~OnCycle(ToSet(given), o)
  <2>1. CASE o \in Done
    BY <1>0, <2>1 DEF SearchRight, DoneRight
  <2>2. CASE o \notin Done
    <3>1. \A j \in DOMAIN given : given[j][1] # o
      BY <1>0, <1>2, <2>2, StackTypes DEF SearchRight, RootsRight, NoCycle
    <3>2. \A q \in Owners : <<o, q>> \notin ToSet(given)
      BY <3>1 DEF ToSet
    <3>3. PICK S \in SUBSET Owners : S = {}
      OBVIOUS
    <3>4. /\ \A p \in Owners : <<o, p>> \in ToSet(given) => p \in S
          /\ \A p, q \in Owners : <<p, q>> \in ToSet(given) /\ p \in S => q \in S
          /\ o \notin S
      BY <3>2, <3>3
    <3>5. QED
      BY <3>4 DEF OnCycle
  <2>3. QED
    BY <2>1, <2>2
<1>4. CycleIsReal' /\ CycleIsFound'
  BY <1>0, <1>1, <1>3 DEF CycleIsReal, CycleIsFound, OnCycle
<1>5. SearchTypes'
  BY <1>0, <1>1 DEF SearchTypes
<1>6. QED
  BY <1>1, <1>4, <1>5 DEF SearchInv

LEMMA SearchInvInit == SearchInit => SearchInv
<1>. SUFFICES ASSUME SearchInit PROVE SearchInv
  OBVIOUS
<1>1. Len(<< >>) = 0 /\ << >> \in Seq(Owners) /\ << >> \in Seq(Nat)
      /\ << >> \in Seq(Owners \X Owners)
  BY EmptySeq
<1>2. SearchTypes
  BY <1>1 DEF SearchInit, SearchTypes
<1>3. CycleIsReal /\ CycleIsFound /\ phase # "search"
  BY DEF SearchInit, CycleIsReal, CycleIsFound
<1>4. QED
  BY <1>2, <1>3 DEF SearchInv

LEMMA SearchInvStep ==
  ASSUME SearchInv, [SearchNext]_searchVars
  PROVE  SearchInv'
<1>1. ASSUME NEW e \in Owners \X Owners, Extend(e) PROVE SearchInv'
  <2>1. SearchTypes /\ phase = "gather" /\ phase' = phase /\ given' = Append(given, e)
        /\ UNCHANGED <<root, visited, stack, looked, cycle>>
    BY <1>1 DEF SearchInv, Extend, search
  <2>2. given' \in Seq(Owners \X Owners) /\ Len(given') = Len(given) + 1
        /\ Len(given) \in Nat
    BY <2>1 DEF SearchTypes
  <2>3. SearchTypes'
    BY <2>1, <2>2 DEF SearchTypes
  <2>4. CycleIsReal' /\ CycleIsFound'
    BY <2>1 DEF CycleIsReal, CycleIsFound, SearchTypes
  <2>5. QED
    BY <2>1, <2>3, <2>4 DEF SearchInv
<1>2. CASE Begin
  <2>1. SearchTypes /\ phase = "gather" /\ phase' = "search"
        /\ UNCHANGED <<given, root, visited, stack, looked, cycle>>
    BY <1>2 DEF SearchInv, Begin, search
  <2>2. root = 0 /\ visited = {} /\ stack = << >> /\ cycle = << >> /\ DOMAIN stack = {}
    BY <2>1 DEF SearchTypes
  <2>3. SearchTypes'
    BY <2>1, <2>2 DEF SearchTypes
  <2>4. SearchRight'
    <3>1. Done' = {}
      BY <2>1, <2>2 DEF Done
    <3>2. PathRight' /\ LookedRight' /\ RootsRight'
      BY <2>1, <2>2 DEF PathRight, LookedRight, RootsRight
    <3>3. DoneRight'
      BY <3>1 DEF DoneRight
    <3>4. QED
      BY <3>2, <3>3 DEF SearchRight
  <2>5. CycleIsReal' /\ CycleIsFound'
    BY <2>1, <2>2 DEF CycleIsReal, CycleIsFound
  <2>6. QED
    BY <2>1, <2>3, <2>4, <2>5 DEF SearchInv
<1>3. CASE SearchRoot
  <2>1. SearchTypes /\ SearchRight /\ phase = "search" /\ stack = << >> /\ root < Len(given)
        /\ root' = root + 1 /\ Dfs(given[root + 1][1], << >>) /\ given' = given
    BY <1>3 DEF SearchInv, SearchRoot
  <2>2. Called(given[root + 1][1], << >>)
    BY <2>1, RootCalled
  <2>3. root' \in Nat /\ root' <= Len(given)
    BY <2>1, StackTypes DEF SearchTypes
  <2>4. \A j \in 1 .. root' : given[j][1] \in visited \cup {given[root + 1][1]}
    <3>1. \A j \in 1 .. root' : j \in 1 .. root \/ j = root + 1
      BY <2>1 DEF SearchTypes
    <3>2. QED
      BY <2>1, <3>1 DEF SearchRight, RootsRight
  <2>5. QED
    BY <2>1, <2>2, <2>3, <2>4, DfsKeeps
<1>4. CASE SearchNeighbour
  <2>1. SearchTypes /\ SearchRight /\ phase = "search" /\ given' = given /\ root' = root
        /\ Len(stack) # 0
    BY <1>4, EmptySeq DEF SearchInv, SearchTypes, SearchNeighbour
  <2>2. PICK j \in DOMAIN given : /\ NextEdge(j, Last(stack), Last(looked))
                                  /\ Dfs(given[j][2], [looked EXCEPT ![Len(looked)] = j])
    BY <1>4 DEF SearchNeighbour
  <2>3. Called(given[j][2], [looked EXCEPT ![Len(looked)] = j])
    BY <2>1, <2>2, NeighbourCalled
  <2>4. root' \in Nat /\ root' <= Len(given)
        /\ \A h \in 1 .. root' : given[h][1] \in visited \cup {given[j][2]}
    BY <2>1 DEF SearchTypes, SearchRight, RootsRight
  <2>5. QED
    BY <2>1, <2>2, <2>3, <2>4, DfsKeeps
<1>5. CASE UNCHANGED searchVars
  BY <1>5 DEF searchVars, search, SearchInv, SearchTypes, SearchRight, PathRight, LookedRight,
              DoneRight, RootsRight, Done, Leads, OnCycle, CycleIsReal, CycleIsFound
<1>6. QED
  BY <1>1, <1>2, <1>3, <1>4, <1>5, LeaveKeeps, NoCycleKeeps DEF SearchNext, SearchStep

LEMMA SearchInvariant == SearchSpec => []SearchInv
BY SearchInvInit, SearchInvStep, PTL DEF SearchSpec

\* What _detect_cycle returns is a cycle of the graph, for any list of edges
\* (lock_manager.py:117-141).
THEOREM CyclesReal == SearchSpec => []CycleIsReal
<1>1. SearchInv => CycleIsReal
  BY DEF SearchInv
<1>2. QED
  BY <1>1, SearchInvariant, PTL

\* It returns None just when no owner is on a cycle, although searches share what
\* they have visited: DeadlockLoop may take OnCycle for it, and no deadlock is
\* overlooked (lock_manager.py:98-100, 117-141).
THEOREM CyclesFound == SearchSpec => []CycleIsFound
<1>1. SearchInv => CycleIsFound
  BY DEF SearchInv
<1>2. QED
  BY <1>1, SearchInvariant, PTL

\* Each turn of the search is further than the one before, on graphs with
\* whatever cycles: with finitely many owners it comes to its end
\* (lock_manager.py:123-136).
THEOREM SearchesAdvance == SearchSpec => SearchAdvances
<1>. DEFINE Further ==
       phase = "search" /\ phase' = "search" =>
         /\ visited \subseteq visited'
         /\ visited' = visited =>
              /\ root' >= root
              /\ root' = root =>
                   \/ Len(stack') < Len(stack)
                   \/ Len(stack') = Len(stack) /\ Last(looked') > Last(looked)
<1>1. ASSUME SearchInv, SearchNext PROVE Further
  <2>0. SearchTypes /\ root \in Nat /\ Len(stack) \in Nat
    BY <1>1, StackTypes DEF SearchInv, SearchTypes
  <2>1. CASE \E e \in Owners \X Owners : Extend(e)
    BY <2>1 DEF Extend
  <2>2. CASE Begin
    BY <2>2 DEF Begin
  <2>3. CASE SearchRoot
    <3>1. root' = root + 1 /\ visited \subseteq visited'
      BY <2>3 DEF SearchRoot, Dfs
    <3>2. QED
      BY <2>0, <3>1
  <2>4. CASE SearchNeighbour
    <3>1. PICK j \in DOMAIN given : /\ NextEdge(j, Last(stack), Last(looked))
                                    /\ Dfs(given[j][2], [looked EXCEPT ![Len(looked)] = j])
      BY <2>4 DEF SearchNeighbour
    <3>2. root' = root
      BY <2>4 DEF SearchNeighbour
    <3>3. CASE looked' = [looked EXCEPT ![Len(looked)] = j] /\ UNCHANGED <<visited, stack>>
      <4>1. Len(looked) \in 1 .. Len(looked) /\ j \in Nat /\ looked \in Seq(Nat)
        BY <2>0, <2>4, StackTypes, EmptySeq DEF SearchTypes, SearchNeighbour
      <4>2. Len(looked') = Len(looked) /\ looked'[Len(looked)] = j
        BY <3>3, <4>1, LoopMoves
      <4>3. Last(looked') = j /\ j > Last(looked)
        BY <3>1, <4>2 DEF Last, NextEdge
      <4>4. QED
        BY <2>0, <3>2, <3>3, <4>3
    <3>4. CASE given[j][2] \notin visited /\ visited' = visited \cup {given[j][2]}
      BY <3>4
    <3>5. QED
      BY <3>1, <3>3, <3>4 DEF Dfs
  <2>5. CASE Leave
    <3>1. visited' = visited /\ root' = root /\ Len(stack') = Len(stack) - 1
      BY <2>0, <2>5, StackShrinks DEF Leave
    <3>2. QED
      BY <2>0, <3>1
  <2>6. CASE NoCycle
    BY <2>6 DEF NoCycle
  <2>7. QED
    BY <1>1, <2>1, <2>2, <2>3, <2>4, <2>5, <2>6 DEF SearchNext, SearchStep
<1>2. SearchInv /\ [SearchNext]_searchVars => [Further]_searchVars
  BY <1>1
<1>3. QED
  BY <1>2, SearchInvariant, PTL DEF SearchSpec, SearchAdvances

=============================================================================
