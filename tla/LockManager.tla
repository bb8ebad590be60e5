---------------------------- MODULE LockManager ----------------------------
(***************************************************************************)
(* The replicas of the lock table: src/nodes/lock_manager.py.  Commands are *)
(* appended to one Redis list, 'raft:log'; a background task of every node, *)
(* _apply_loop, tails the list and applies each entry to the node's table.  *)
(* Here anybody may append a command: who does, and when, is the subject of *)
(* RaftRedis and LockCluster.                                               *)
(*                                                                          *)
(* _apply_loop suspends at two awaits, llen and lindex, and a step here is  *)
(* what runs between them.  self._lock is only ever contended by the loop   *)
(* itself, so it does not appear.                                           *)
(***************************************************************************)
EXTENDS LockTable, Integers

CONSTANTS
  Nodes,   \* node ids
  MaxLog   \* bound: appends stop when the log has this many entries

ASSUME MaxLogAssumption == MaxLog \in Nat

VARIABLES
  log,          \* Redis list 'raft:log', the cmd field of each entry
  locks,        \* locks[n]: LockManager.locks of node n
  lastApplied,  \* lastApplied[n]: _last_applied, index of the last entry taken
  length,       \* length[n]: the loop's local variable, the last llen reply
  loop,         \* where n's apply loop is: "poll" before llen, "fetch" at the
                \* lindex of entry lastApplied[n], "dead" after an exception
  history,      \* history[k+1]: the table after the first k entries of the log
  stranded      \* nodes that have counted, or are going to count, entries Redis
                \* has lost since they started; neither is in the code, the
                \* properties speak about them

vars == <<log, locks, lastApplied, length, loop, history, stranded>>

Init ==
  /\ log = << >>
  /\ locks = [n \in Nodes |-> EmptyTable]
  /\ lastApplied = [n \in Nodes |-> -1]
  /\ length = [n \in Nodes |-> 0]
  /\ loop = [n \in Nodes |-> "poll"]
  /\ history = <<EmptyTable>>
  /\ stranded = {}

-----------------------------------------------------------------------------

\* RPUSH of one more command, by whichever node.
AppendCommand(cmd) ==
  /\ Len(log) < MaxLog
  /\ log' = Append(log, cmd)
  /\ history' = Append(history, Apply(history[Len(history)], cmd))
  /\ UNCHANGED <<locks, lastApplied, length, loop, stranded>>

\* Mutant: the last entry of the log waits for one more.
PollOneShort(n) ==
  /\ loop[n] = "poll"
  /\ length' = [length EXCEPT ![n] = Len(log)]
  /\ lastApplied[n] < Len(log) - 2
  /\ lastApplied' = [lastApplied EXCEPT ![n] = @ + 1]
  /\ loop' = [loop EXCEPT ![n] = "fetch"]
  /\ UNCHANGED <<log, locks, history, stranded>>

\* llen has answered with a longer log: _last_applied is incremented before
\* the entry is asked for.  With nothing new the loop sleeps and polls again.
Poll(n) ==
  /\ loop[n] = "poll"
  /\ length' = [length EXCEPT ![n] = Len(log)]
  /\ lastApplied[n] < Len(log) - 1
  /\ lastApplied' = [lastApplied EXCEPT ![n] = @ + 1]
  /\ loop' = [loop EXCEPT ![n] = "fetch"]
  /\ UNCHANGED <<log, locks, history, stranded>>

\* The table of n after the entry lindex has answered with.  An index past the
\* end of the list reads None, which the loop reports as an error and skips.
Fetched(n) ==
  IF lastApplied[n] < Len(log)
    THEN Apply(locks[n], log[lastApplied[n] + 1])
    ELSE locks[n]

\* Mutant: the loop goes on one entry too far.
FetchPastEnd(n) ==
  /\ loop[n] = "fetch"
  /\ locks' = [locks EXCEPT ![n] = Fetched(n)]
  /\ IF lastApplied[n] < length[n]
       THEN /\ lastApplied' = [lastApplied EXCEPT ![n] = @ + 1]
            /\ UNCHANGED loop
       ELSE /\ loop' = [loop EXCEPT ![n] = "poll"]
            /\ UNCHANGED lastApplied
  /\ UNCHANGED <<log, length, history, stranded>>

\* The entry is applied, and the inner loop goes on while entries are left.
FetchApply(n) ==
  /\ loop[n] = "fetch"
  /\ locks' = [locks EXCEPT ![n] = Fetched(n)]
  /\ IF lastApplied[n] < length[n] - 1
       THEN /\ lastApplied' = [lastApplied EXCEPT ![n] = @ + 1]
            /\ UNCHANGED loop
       ELSE /\ loop' = [loop EXCEPT ![n] = "poll"]
            /\ UNCHANGED lastApplied
  /\ UNCHANGED <<log, length, history, stranded>>

\* llen or lindex raises: neither is inside the try block, so the exception
\* ends the background task for good.
LoopDies(n) ==
  /\ loop[n] # "dead"
  /\ loop' = [loop EXCEPT ![n] = "dead"]
  /\ UNCHANGED <<log, locks, lastApplied, length, history, stranded>>

\* The process of n starts again: __init__ and start_background.
Restart(n) ==
  /\ locks' = [locks EXCEPT ![n] = EmptyTable]
  /\ lastApplied' = [lastApplied EXCEPT ![n] = -1]
  /\ length' = [length EXCEPT ![n] = 0]
  /\ loop' = [loop EXCEPT ![n] = "poll"]
  /\ stranded' = stranded \ {n}
  /\ UNCHANGED <<log, history>>

\* Redis comes back from its last RDB snapshot (--save 60 1), which holds some
\* earlier prefix of the list.
RedisLosesTail ==
  /\ \E k \in 0 .. Len(log) - 1 :
       /\ log' = SubSeq(log, 1, k)
       /\ history' = SubSeq(history, 1, k + 1)
       /\ stranded' = stranded \cup
            {n \in Nodes : lastApplied[n] >= k \/ (loop[n] = "fetch" /\ length[n] > k)}
  /\ UNCHANGED <<locks, lastApplied, length, loop>>

Step(n) == Poll(n) \/ FetchApply(n) \/ LoopDies(n) \/ Restart(n)

Next == (\E cmd \in Command : AppendCommand(cmd)) \/ (\E n \in Nodes : Step(n))

Spec == Init /\ [][Next]_vars

\* The apply loop is a task of the event loop, and a Redis call answers or
\* raises within its socket timeout.
Fairness == \A n \in Nodes : WF_vars(Poll(n)) /\ WF_vars(FetchApply(n))

FairSpec == Spec /\ Fairness

\* The same nodes on a Redis that can lose the end of the list.
LossySpec == Init /\ [][Next \/ RedisLosesTail]_vars

-----------------------------------------------------------------------------

TypeOK ==
  /\ log \in Seq(Command)
  /\ locks \in [Nodes -> Table]
  /\ lastApplied \in [Nodes -> Nat \cup {-1}]
  /\ length \in [Nodes -> Nat]
  /\ loop \in [Nodes -> {"poll", "fetch", "dead"}]
  /\ history \in Seq(Table)
  /\ stranded \in SUBSET Nodes

\* No replica, whatever it has seen of the log, grants an exclusive lock to two
\* owners, leaves a waiter behind on a free lock or lets a request wait twice
\* (_apply_acquire and _apply_release).
LocksWellFormed == \A n \in Nodes : TableWellFormed(locks[n])

\* The table of n is the one the first k entries of the log produce.
Reflects(n, k) == k \in 0 .. Len(log) /\ locks[n] = history[k + 1]

\* Every table is the table of the log prefix its node has consumed, across
\* restarts and with the index ahead of the table while an entry is fetched.
\* An index left ahead by a dead loop never comes back to be used.  When Redis
\* loses entries, that is over for nodes that have counted them, and for no other.
ReplicaOfLog ==
  \A n \in Nodes \ stranded :
    /\ loop[n] = "poll"  => Reflects(n, lastApplied[n] + 1)
    /\ loop[n] = "fetch" => Reflects(n, lastApplied[n])
    /\ loop[n] = "dead"  => \/ Reflects(n, lastApplied[n])
                            \/ Reflects(n, lastApplied[n] + 1)

\* How many entries of the log are in the table of n, as long as its loop is alive.
Consumed(n) == IF loop[n] = "poll" THEN lastApplied[n] + 1 ELSE lastApplied[n]

Releases(cmd, r, o) == cmd.type = "release" /\ cmd.resource = r /\ cmd.owner = o

\* Nodes may disagree on who holds a lock only about a release one of them has not
\* seen: whoever holds r at one node holds it, in the same mode, at every node
\* further ahead, unless the log has a release of r by that owner in between
\* (_apply_loop runs each node at its own pace; _apply_acquire and _apply_release
\* take nothing from a holder that has not released).
HeldUntilReleased ==
  \A m, n \in Nodes \ stranded :
    /\ loop[m] # "dead"
    /\ loop[n] # "dead"
    /\ Consumed(m) <= Consumed(n)
    => \A r \in Resources : \A o \in locks[m][r].holders :
         \/ o \in locks[n][r].holders /\ locks[n][r].mode = locks[m][r].mode
         \/ \E k \in Consumed(m) + 1 .. Consumed(n) : Releases(log[k], r, o)

\* Each replica is a lock server of its own, whatever it has seen of the log: it
\* never takes a lock from a holder, never hands it past the head of the queue and
\* never forgets a waiter, unless its process starts again.
Service == INSTANCE LockService WITH Servers <- Nodes, table <- locks

ReplicasServeLocks == Service!Spec

\* n stays up from some point on.
StaysUp(n) == <>[][~Restart(n)]_vars

\* n has applied the first k entries of the log.
Applied(n, k) == loop[n] = "poll" /\ lastApplied[n] >= k - 1

\* A command in the log is applied by every node that stays up and whose loop
\* does not die, so a granted or released lock becomes known everywhere.
EveryCommandApplied ==
  \A n \in Nodes :
    StaysUp(n) /\ <>[](loop[n] # "dead") =>
      \A k \in 1 .. MaxLog : Len(log) >= k ~> Applied(n, k)

=============================================================================
