---------------------------- MODULE LockService ----------------------------
(***************************************************************************)
(* What lock servers promise, each for itself: a free lock goes to who asks *)
(* for it, a shared one to whoever wants to share it; others wait, and the  *)
(* last who leaves a lock hands it to the one that has waited longest.  A   *)
(* server may forget everything.  Nothing else happens to a lock.           *)
(***************************************************************************)
EXTENDS Naturals, Sequences

CONSTANTS Servers, Resources, Owners, Modes, Shared, NoMode

VARIABLE table  \* table[s][r]: mode, holders and queue of lock r at server s

Free == [mode |-> NoMode, holders |-> {}, queue |-> << >>]

Empty == [r \in Resources |-> Free]

Init == table = [s \in Servers |-> Empty]

\* Each of these relates a lock before a step to the lock after it.
Taken(old, new) ==
  \E o \in Owners, m \in Modes :
    old = Free /\ new = [mode |-> m, holders |-> {o}, queue |-> << >>]

Joined(old, new) ==
  /\ old.mode = Shared
  /\ \E o \in Owners : new = [old EXCEPT !.holders = @ \cup {o}]

Waits(old, new) ==
  /\ old.holders # {}
  /\ \E o \in Owners, m \in Modes : new = [old EXCEPT !.queue = Append(@, <<o, m>>)]

Left(old, new) ==
  /\ new.holders # {}
  /\ \E o \in Owners : new = [old EXCEPT !.holders = @ \ {o}]

LastLeft(old, new) ==
  \E o \in Owners : /\ old.holders = {o}
                    /\ old.queue = << >> /\ new = Free

HandedOver(old, new) ==
  \E o \in Owners :
    /\ old.holders = {o} /\ old.queue # << >>
    /\ new = [mode |-> Head(old.queue)[2], holders |-> {Head(old.queue)[1]},
              queue |-> Tail(old.queue)]

Changes(old, new) ==
  \/ Taken(old, new) \/ Joined(old, new) \/ Waits(old, new)
  \/ Left(old, new) \/ LastLeft(old, new) \/ HandedOver(old, new)

Next ==
  \E s \in Servers :
    \/ table' = [table EXCEPT ![s] = Empty]
    \/ \E r \in Resources :
         /\ Changes(table[s][r], table'[s][r])
         /\ table' = [table EXCEPT ![s][r] = table'[s][r]]

Spec == Init /\ [][Next]_table

=============================================================================
