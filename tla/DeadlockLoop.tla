---------------------------- MODULE DeadlockLoop ----------------------------
(***************************************************************************)
(* Deadlock detection: LockManager._deadlock_loop and local_wait_for_edges  *)
(* of src/nodes/lock_manager.py.  A node that takes itself for the leader   *)
(* asks its peers, and itself, for the edges of their wait-for graphs, one  *)
(* after the other, and appends a release of one lock of one owner on a     *)
(* cycle of the edges it was given.                                         *)
(*                                                                          *)
(* The replicas are behind the log, each by its own distance, and go on     *)
(* while they are asked.  That the table of a node is the one of the log    *)
(* prefix it has applied is theorem ReplicasFollowLog of LockManagerProofs. *)
(* Which owner of a cycle _detect_cycle puts first depends on the order of  *)
(* the edges: here it may be any.                                           *)
(***************************************************************************)
EXTENDS LockTable, FiniteSets

CONSTANTS
  Nodes,        \* node ids
  Leaders,      \* the nodes that may take themselves for the leader
  Peers,        \* Peers[n]: raft.peers of n
  Commands,     \* what clients acquire and release
  MaxCommands,  \* bound: the clients stop when the log has this many entries
  MaxLog        \* bound: and the aborts when it has this many

ASSUME PeersAssumption ==
  Leaders \subseteq Nodes /\ \A n \in Nodes : Peers[n] \in Seq(Nodes)

ASSUME CommandsAssumption == Commands \subseteq Acquire \cup Release

ASSUME BoundsAssumption == MaxCommands \in Nat /\ MaxLog \in Nat

VARIABLES
  log,      \* Redis list 'raft:log', the cmd field of each entry
  history,  \* history[k+1]: the table after the first k entries of the log
  applied,  \* applied[n]: entries of the log n has applied
  loop,     \* where the deadlock loop of n is: "sleep", "ask", "abort" before
            \* the RPUSH of the release, "dead" after an exception
  asked,    \* asked[n]: how many nodes the loop has asked
  edges,    \* edges[n]: what they have answered
  abort,    \* abort[n]: the owner and the resource of the release
  from      \* from[n]: the shortest log prefix the edges come from; no variable
            \* of the code, the properties speak about it

vars     == <<log, history, applied, loop, asked, edges, abort, from>>
loopVars == <<loop, asked, edges, abort, from>>

NoAbort == << >>

Init ==
  /\ log = << >>
  /\ history = <<EmptyTable>>
  /\ applied = [n \in Nodes |-> 0]
  /\ loop = [n \in Nodes |-> "sleep"]
  /\ asked = [n \in Nodes |-> 0]
  /\ edges = [n \in Nodes |-> {}]
  /\ abort = [n \in Nodes |-> NoAbort]
  /\ from = [n \in Nodes |-> 0]

\* The lock table of n, and the one the whole log leaves.
TableOf(n) == history[applied[n] + 1]
Current    == history[Len(history)]

AppendLog(cmd, bound) ==
  /\ Len(log) < bound
  /\ log' = Append(log, cmd)
  /\ history' = Append(history, Apply(Current, cmd))

-----------------------------------------------------------------------------
(* The rest of the system: commands are logged and applied *)

ClientCommand(cmd) ==
  AppendLog(cmd, MaxCommands) /\ UNCHANGED <<applied, loopVars>>

\* Mutant: an entry past the end of the log is applied.
ApplyPastEnd(n) ==
  /\ applied[n] <= Len(log)
  /\ applied' = [applied EXCEPT ![n] = @ + 1]
  /\ UNCHANGED <<log, history, loopVars>>

ApplyEntry(n) ==
  /\ applied[n] < Len(log)
  /\ applied' = [applied EXCEPT ![n] = @ + 1]
  /\ UNCHANGED <<log, history, loopVars>>

-----------------------------------------------------------------------------
(* _deadlock_loop *)

\* The peers, then the node itself.
Asks(n) == Append(Peers[n], n)

\* The sleep is over and n takes itself for the leader, as RaftRedis lets several
\* nodes do at a time.
BeginGather(n) ==
  /\ loop[n] = "sleep" /\ n \in Leaders
  /\ loop' = [loop EXCEPT ![n] = "ask"]
  /\ from' = [from EXCEPT ![n] = Len(log)]
  /\ UNCHANGED <<log, history, applied, asked, edges, abort>>

\* Mutant: an owner that waits for itself is left out of the edges.
ReportedOthers(n) ==
  /\ loop[n] = "ask" /\ asked[n] < Len(Asks(n))
  /\ LET p == Asks(n)[asked[n] + 1]
     IN  /\ edges' = [edges EXCEPT ![n] = @ \cup {e \in WaitFor(TableOf(p)) : e[1] # e[2]}]
         /\ from' = [from EXCEPT ![n] = IF applied[p] < @ THEN applied[p] ELSE @]
  /\ asked' = [asked EXCEPT ![n] = @ + 1]
  /\ UNCHANGED <<log, history, applied, loop, abort>>

\* The next node reports the edges of its table as it is now.
Reported(n) ==
  /\ loop[n] = "ask" /\ asked[n] < Len(Asks(n))
  /\ LET p == Asks(n)[asked[n] + 1]
     IN  /\ edges' = [edges EXCEPT ![n] = @ \cup WaitFor(TableOf(p))]
         /\ from' = [from EXCEPT ![n] = IF applied[p] < @ THEN applied[p] ELSE @]
  /\ asked' = [asked EXCEPT ![n] = @ + 1]
  /\ UNCHANGED <<log, history, applied, loop, abort>>

\* It does not answer: its edges are left out.
Silent(n) ==
  /\ loop[n] = "ask" /\ asked[n] < Len(Asks(n))
  /\ asked' = [asked EXCEPT ![n] = @ + 1]
  /\ UNCHANGED <<log, history, applied, loop, edges, abort, from>>

\* Mutant: the edges of one round are there in the next.
KeepEdges(n, s) ==
  /\ loop' = [loop EXCEPT ![n] = s]
  /\ asked' = [asked EXCEPT ![n] = 0]
  /\ abort' = [abort EXCEPT ![n] = NoAbort]
  /\ from' = [from EXCEPT ![n] = 0]
  /\ UNCHANGED edges

\* n's loop goes to state s with a new list of edges to fill.
EndGather(n, s) ==
  /\ loop' = [loop EXCEPT ![n] = s]
  /\ asked' = [asked EXCEPT ![n] = 0]
  /\ edges' = [edges EXCEPT ![n] = {}]
  /\ abort' = [abort EXCEPT ![n] = NoAbort]
  /\ from' = [from EXCEPT ![n] = 0]

\* q was locked before r was, so it comes first in the dictionary of n.
Before(n, q, r) ==
  \E i \in 1 .. applied[n] :
    /\ log[i].type = "acquire" /\ log[i].resource = q
    /\ \A j \in 1 .. i - 1 : ~(log[j].type = "acquire" /\ log[j].resource = r)

\* The first lock of owner v in the table of n.
FirstHeld(n, v, r) ==
  /\ v \in TableOf(n)[r].holders
  /\ \A q \in Resources \ {r} : v \in TableOf(n)[q].holders => ~Before(n, q, r)

\* The last answer is there: no cycle, or a victim that holds nothing, and the
\* loop sleeps again.
NoVictim(n) ==
  /\ loop[n] = "ask" /\ asked[n] = Len(Asks(n))
  /\ \/ \A o \in Owners : ~OnCycle(edges[n], o)
     \/ \E v \in Owners : /\ OnCycle(edges[n], v)
                          /\ \A r \in Resources : v \notin TableOf(n)[r].holders
  /\ EndGather(n, "sleep")
  /\ UNCHANGED <<log, history, applied>>

\* A victim, and the first lock it holds in the table of n.
PickVictim(n) ==
  /\ loop[n] = "ask" /\ asked[n] = Len(Asks(n))
  /\ \E v \in Owners, r \in Resources :
       /\ OnCycle(edges[n], v)
       /\ FirstHeld(n, v, r)
       /\ abort' = [abort EXCEPT ![n] = <<v, r>>]
  /\ loop' = [loop EXCEPT ![n] = "abort"]
  /\ UNCHANGED <<log, history, applied, asked, edges, from>>

\* append_command: who leads now is not asked again.
LogAbort(n) ==
  /\ loop[n] = "abort"
  /\ AppendLog([type |-> "release", owner |-> abort[n][1],
                resource |-> abort[n][2]], MaxLog)
  /\ EndGather(n, "sleep")
  /\ UNCHANGED applied

\* append_command raises, outside of any try block: the task is over.
AbortFails(n) ==
  /\ loop[n] = "abort"
  /\ EndGather(n, "dead")
  /\ UNCHANGED <<log, history, applied>>

\* The process of n starts again, and reads the log from its beginning.
Restart(n) ==
  /\ applied' = [applied EXCEPT ![n] = 0]
  /\ EndGather(n, "sleep")
  /\ UNCHANGED <<log, history>>

-----------------------------------------------------------------------------

Decide(n) == NoVictim(n) \/ PickVictim(n)

Outside ==
  \/ \E cmd \in Commands : ClientCommand(cmd)
  \/ \E n \in Nodes : ApplyEntry(n)

LoopStep(n) == Reported(n) \/ Decide(n) \/ LogAbort(n)

Next ==
  \/ Outside
  \/ \E n \in Nodes :
       BeginGather(n) \/ LoopStep(n) \/ Silent(n) \/ AbortFails(n) \/ Restart(n)

Spec == Init /\ [][Next]_vars

\* Replicas are polled five times a second and the loop runs every five seconds:
\* when it wakes, the replicas have caught up.
TimelyGather(n) == BeginGather(n) /\ \A p \in Nodes : applied[p] = Len(log)

\* Nodes are up and answer, and a node that leads runs its loop.
Fairness ==
  \A n \in Nodes : WF_vars(ApplyEntry(n)) /\ WF_vars(TimelyGather(n))
                   /\ WF_vars(LoopStep(n))

TimelyNext ==
  Outside \/ \E n \in Nodes : TimelyGather(n) \/ LoopStep(n) \/ AbortFails(n)

TimelySpec == Init /\ [][TimelyNext]_vars /\ Fairness

-----------------------------------------------------------------------------

TypeOK ==
  /\ log \in Seq(Acquire \cup Release)
  /\ history \in Seq(Table) /\ Len(history) = Len(log) + 1
  /\ applied \in [Nodes -> Nat]
  /\ \A n \in Nodes : applied[n] <= Len(log)
  /\ loop \in [Nodes -> {"sleep", "ask", "abort", "dead"}]
  /\ asked \in [Nodes -> Nat]
  /\ edges \in [Nodes -> SUBSET (Owners \X Owners)]
  /\ abort \in [Nodes -> (Owners \X Resources) \cup {NoAbort}]
  /\ from \in [Nodes -> Nat]

\* Nothing was released after the first k entries of the log.
NoReleaseSince(k) == \A i \in k + 1 .. Len(log) : log[i].type # "release"

\* Although the edges are of different moments and of replicas that are behind,
\* and some are missing, an abort is justified if nothing was released since
\* the oldest table they come from: its victim is in a deadlock now.
AbortIsJustified ==
  \A n \in Nodes :
    loop[n] = "abort" /\ NoReleaseSince(from[n]) =>
      OnCycle(WaitFor(Current), abort[n][1])

\* "Automatic deadlock detection dan resolution" (README.md:18), "the system
\* automatically selects a victim and rolls back to overcome the deadlock"
\* (11221090_Laporan Tugas 2.md:23): when the clients have asked for all they
\* want and only wait, no deadlock is left, however many locks that takes, as long
\* as one of the nodes that lead never has an append fail.
DeadlocksResolved ==
  (\E n \in Leaders : [](loop[n] # "dead")) => <>[]~Deadlocked(Current)

=============================================================================
