----------------------------- MODULE LockTable -----------------------------
(***************************************************************************)
(* The table LockManager.locks of src/nodes/lock_manager.py as a value, and *)
(* the two operations that change it.  Every node applies the same log of   *)
(* commands to its own copy, so both operations are functions of the table  *)
(* and the command only.                                                    *)
(*                                                                          *)
(* The dictionary creates an entry at the first acquire of a resource.  An  *)
(* absent entry and a free one behave alike (release returns early on the   *)
(* first and changes nothing of the second), so a table is total here.      *)
(***************************************************************************)
EXTENDS Naturals, Sequences

CONSTANTS
  Resources,  \* names of lockable resources
  Owners,     \* names clients lock under
  Modes,      \* mode strings clients send
  Shared,     \* the one mode the code treats specially: 'shared'
  NoMode      \* the mode of a free lock: None

ASSUME ModesAssumption == Shared \in Modes /\ NoMode \notin Modes

-----------------------------------------------------------------------------

Waiter   == Owners \X Modes
LockInfo == [mode : Modes \cup {NoMode}, holders : SUBSET Owners,
             queue : Seq(Waiter)]
Table    == [Resources -> LockInfo]

FreeLock   == [mode |-> NoMode, holders |-> {}, queue |-> << >>]
EmptyTable == [r \in Resources |-> FreeLock]

Acquire == [type : {"acquire"}, resource : Resources, owner : Owners,
            mode : Modes]
Release == [type : {"release"}, resource : Resources, owner : Owners]

\* Anything else a client may post to /raft/append: the apply loop skips it.
Other   == [type : {"other"}]
Command == Acquire \cup Release \cup Other

-----------------------------------------------------------------------------

IsQueued(info, w) == \E i \in DOMAIN info.queue : info.queue[i] = w

\* Mutant: the mode the lock is held in is not looked at.
GrantAnyShared(info, o, m) ==
  IF info.holders = {}
    THEN [info EXCEPT !.mode = m, !.holders = {o}]
  ELSE IF m = Shared
    THEN [info EXCEPT !.holders = @ \cup {o}]
  ELSE IF IsQueued(info, <<o, m>>)
    THEN info
  ELSE [info EXCEPT !.queue = Append(@, <<o, m>>)]

\* _apply_acquire on the entry of one resource.
Grant(info, o, m) ==
  IF info.holders = {}
    THEN [info EXCEPT !.mode = m, !.holders = {o}]
  ELSE IF m = Shared /\ info.mode = Shared
    THEN [info EXCEPT !.holders = @ \cup {o}]
  ELSE IF IsQueued(info, <<o, m>>)
    THEN info
  ELSE [info EXCEPT !.queue = Append(@, <<o, m>>)]

\* Mutant: the pair at the head of the queue is taken for the mode.
FreeToPair(info, o) ==
  LET left == info.holders \ {o}
  IN  IF left # {}
        THEN [info EXCEPT !.holders = left]
      ELSE IF info.queue # << >>
        THEN [mode |-> Head(info.queue), holders |-> {Head(info.queue)[1]},
              queue |-> Tail(info.queue)]
      ELSE [info EXCEPT !.mode = NoMode, !.holders = {}]

\* Mutant: the lock is not handed to the queue.
FreeNoHandover(info, o) ==
  LET left == info.holders \ {o}
  IN  IF left # {}
        THEN [info EXCEPT !.holders = left]
        ELSE [info EXCEPT !.mode = NoMode, !.holders = {}]

\* Mutant: the lock changes hands whoever releases it.
FreeOfAnybody(info, o) ==
  IF info.queue # << >>
    THEN [mode |-> Head(info.queue)[2], holders |-> {Head(info.queue)[1]},
          queue |-> Tail(info.queue)]
    ELSE [info EXCEPT !.mode = NoMode, !.holders = {}]

\* _apply_release on the entry of one resource: drop the holder, and when the
\* last one is gone hand the lock to the head of the queue.
Free(info, o) ==
  LET left == info.holders \ {o}
  IN  IF left # {}
        THEN [info EXCEPT !.holders = left]
      ELSE IF info.queue # << >>
        THEN [mode |-> Head(info.queue)[2], holders |-> {Head(info.queue)[1]},
              queue |-> Tail(info.queue)]
      ELSE [info EXCEPT !.mode = NoMode, !.holders = {}]

\* What the apply loop does with one log entry.
Apply(table, cmd) ==
  CASE cmd.type = "acquire" ->
         [table EXCEPT ![cmd.resource] = Grant(@, cmd.owner, cmd.mode)]
    [] cmd.type = "release" ->
         [table EXCEPT ![cmd.resource] = Free(@, cmd.owner)]
    [] OTHER -> table

\* local_wait_for_edges: every waiter of a resource waits for every holder.
WaitFor(table) ==
  UNION { {<<info.queue[i][1], h>> : i \in DOMAIN info.queue,
                                     h \in info.holders} :
          info \in {table[r] : r \in Resources} }

\* o is on a cycle of the edges: it is in every set that has the owners o waits
\* for and, with an owner, the ones that owner waits for.
OnCycle(edges, o) ==
  \A S \in SUBSET Owners :
    /\ \A p \in Owners : <<o, p>> \in edges => p \in S
    /\ \A p, q \in Owners : <<p, q>> \in edges /\ p \in S => q \in S
    => o \in S

Deadlocked(table) == \E o \in Owners : OnCycle(WaitFor(table), o)

-----------------------------------------------------------------------------

\* A lock that is not in shared mode has at most one holder.
Exclusive(info) ==
  info.mode # Shared => \A a, b \in info.holders : a = b

\* Nobody waits for a free lock: the last release hands the lock over.
NoLostWakeup(info) ==
  info.holders = {} => info.queue = << >> /\ info.mode = NoMode

\* A lock with a holder has the mode it was granted in.
ModeSet(info) == info.holders # {} => info.mode # NoMode

\* A request waits at most once.
NoDoubleWait(info) ==
  \A i, j \in DOMAIN info.queue : info.queue[i] = info.queue[j] => i = j

WellFormed(info) ==
  Exclusive(info) /\ NoLostWakeup(info) /\ ModeSet(info) /\ NoDoubleWait(info)

TableWellFormed(table) == \A r \in Resources : WellFormed(table[r])

=============================================================================
