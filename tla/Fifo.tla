-------------------------------- MODULE Fifo --------------------------------
(***************************************************************************)
(* What the message queue promises of a topic, wherever it is kept: lines   *)
(* enter at the end and leave at the head, one at a time.  It does not      *)
(* promise to keep them: those at the end may go missing.                   *)
(***************************************************************************)
EXTENDS Naturals, Sequences

CONSTANTS
  Places,  \* where the topic is kept
  Texts,   \* Texts[q]: what a message may be in q, each a sequence of lines
  Takers   \* who may take a line

VARIABLES
  items,  \* items[q]: the lines in q
  out     \* out[q]: every line taken from q, in order, and who took it

Init == /\ items = [q \in Places |-> << >>]
        /\ out = [q \in Places |-> << >>]

Put(q, text) == items' = [items EXCEPT ![q] = @ \o text] /\ UNCHANGED out

Take(q, c) ==
  /\ items[q] # << >>
  /\ items' = [items EXCEPT ![q] = Tail(@)]
  /\ out' = [out EXCEPT ![q] = Append(@, [by |-> c, line |-> Head(items[q])])]

LoseEnd(q) ==
  /\ \E k \in 0 .. Len(items[q]) : items' = [items EXCEPT ![q] = SubSeq(@, 1, k)]
  /\ UNCHANGED out

Next ==
  \E q \in Places :
    \/ \E text \in Texts[q] : Put(q, text)
    \/ \E c \in Takers : Take(q, c)
    \/ LoseEnd(q)

Spec == Init /\ [][Next]_<<items, out>>

=============================================================================
