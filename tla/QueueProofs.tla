---------------------------- MODULE QueueProofs ----------------------------
(***************************************************************************)
(* The queue for any number of nodes, calls and lines: the lock of a file,  *)
(* the first-in first-out order of every topic, and what is accounted for.  *)
(***************************************************************************)
EXTENDS Queue, SequenceTheorems, FiniteSetTheorems, TLAPS

States == {"new", "sent", "wait", "open", "read", "cut", "done"} \cup Ended

\* In a file's queue, and at work on the file.
InLine(c) == mode = "file" /\ state[c] \in {"wait", "open", "read", "cut", "done"}
Works(c)  == mode = "file" /\ state[c] \in {"open", "read", "cut", "done"}

Stands(c, s) == \E i \in DOMAIN s : s[i] = c

\* Whoever works on a file is the first in its queue.
InTurn == \A c \in Calls :
  /\ InLine(c) => Stands(c, lockq[at[c]])
  /\ Works(c) => Head(lockq[at[c]]) = c

\* A call has a node, and is where calls of its kind, and in its mode, can be.
Placed == \A c \in Calls :
  /\ state[c] # "new" => at[c] \in Nodes
  /\ c \in Puts => state[c] \notin {"read", "cut"}
  /\ c \in Gets => state[c] # "open"
  /\ mode = "file" => state[c] # "sent" /\ \A t : <<c, t>> \notin wire
  /\ mode = "redis" => state[c] \in {"new", "sent", "done"} \cup Ended

\* What consume has read is what there is, and it only cuts a file with lines.
ReadRight == \A g \in Gets :
  /\ state[g] = "read" => lines[g] = store[at[g]]
  /\ state[g] = "cut" => lines[g] # << >>

\* The inductive invariant behind TypeOK and the order of every topic.
FileInv == TypeOK /\ InTurn /\ Placed /\ ReadRight

-----------------------------------------------------------------------------

LEMMA Joins ==
  ASSUME NEW s \in Seq(Calls), NEW c \in Calls
  PROVE  /\ Append(s, c) \in Seq(Calls) /\ Stands(c, Append(s, c))
         /\ \A d : Stands(d, s) =>
              Stands(d, Append(s, c)) /\ Head(Append(s, c)) = Head(s)
<1>1. /\ Len(s) \in Nat /\ DOMAIN s = 1 .. Len(s)
      /\ Append(s, c) \in Seq(Calls) /\ DOMAIN Append(s, c) = 1 .. Len(s) + 1
      /\ \A i \in 1 .. Len(s) : Append(s, c)[i] = s[i]
      /\ Append(s, c)[Len(s) + 1] = c
  OBVIOUS
<1>2. Stands(c, Append(s, c))
  BY <1>1 DEF Stands
<1>3. ASSUME NEW d, Stands(d, s)
      PROVE  Stands(d, Append(s, c)) /\ Head(Append(s, c)) = Head(s)
  <2>1. PICK i \in 1 .. Len(s) : s[i] = d
    BY <1>1, <1>3 DEF Stands
  <2>2. i \in DOMAIN Append(s, c) /\ Append(s, c)[i] = d
    BY <1>1, <2>1
  <2>3. s # << >>
    BY <2>1
  <2>4. QED
    BY <2>2, <2>3, HeadTailAppend DEF Stands
<1>4. QED
  BY <1>1, <1>2, <1>3

LEMMA Leaves1 ==
  ASSUME NEW s \in Seq(Calls), NEW d, Stands(d, s)
  PROVE  /\ s # << >> /\ Head(s) \in Calls /\ Tail(s) \in Seq(Calls)
         /\ d # Head(s) => Stands(d, Tail(s))
<1>1. Len(s) \in Nat /\ DOMAIN s = 1 .. Len(s)
  OBVIOUS
<1>2. PICK i \in 1 .. Len(s) : s[i] = d
  BY <1>1 DEF Stands
<1>3. s # << >>
  BY <1>2
<1>4. /\ Head(s) \in Calls /\ Head(s) = s[1] /\ Tail(s) \in Seq(Calls)
      /\ DOMAIN Tail(s) = 1 .. Len(s) - 1
      /\ \A j \in 1 .. Len(s) - 1 : Tail(s)[j] = s[j + 1]
  BY <1>3
<1>5. ASSUME d # Head(s) PROVE Stands(d, Tail(s))
  <2>1. i - 1 \in 1 .. Len(s) - 1 /\ Tail(s)[i - 1] = d
    BY <1>1, <1>2, <1>4, <1>5
  <2>2. QED
    BY <1>4, <2>1 DEF Stands
<1>6. QED
  BY <1>3, <1>4, <1>5

\* The message of p is one or more lines wherever it is.
LEMMA TextTypes ==
  ASSUME NEW p \in Puts, NEW q
  PROVE  /\ Text(p, q) \in Seq(AllLines) /\ Text(p, q)[1] = First(p)
         /\ Len(Text(p, q)) \in Nat /\ Len(Text(p, q)) > 0
         /\ q = Redis => Len(Text(p, q)) = 1
         /\ \A i \in DOMAIN Text(p, q) :
              i \in DOMAIN Lines[p] /\ Text(p, q)[i] = Lines[p][i]
<1>1. Lines[p] \in Seq(AllLines) /\ Lines[p] # << >>
  BY QueueAssumption
<1>2. /\ Len(Lines[p]) \in Nat /\ Len(Lines[p]) > 0
      /\ DOMAIN Lines[p] = 1 .. Len(Lines[p]) /\ Lines[p][1] \in AllLines
  BY <1>1
<1>3. CASE q = Redis
  BY <1>2, <1>3 DEF Text, First
<1>4. CASE q # Redis
  BY <1>1, <1>2, <1>4 DEF Text, First
<1>5. QED
  BY <1>3, <1>4

LEMMA RemainsTypes ==
  ASSUME TypeOK, NEW g \in Gets
  PROVE  \A r \in Remains(g) : r \in Seq(AllLines)
<1>1. lines[g] \in Seq(AllLines) /\ Len(lines[g]) \in Nat
  BY DEF TypeOK
<1>2. ASSUME NEW k \in 1 .. Len(lines[g])
      PROVE  SubSeq(lines[g], 2, k) \in Seq(AllLines)
  <2>1. \A i \in 2 .. k : lines[g][i] \in AllLines
    BY <1>1, ElementOfSeq
  <2>2. QED
    BY <1>1, <2>1, SubSeqProperties
<1>3. QED
  BY <1>2 DEF Remains

LEMMA AsksTypes ==
  ASSUME TypeOK, NEW c \in Calls, NEW n \in Nodes, NEW s \in States, Asks(c, n, s)
  PROVE  /\ state' \in [Calls -> States] /\ at' \in [Calls -> Nodes \cup {Nothing}]
         /\ after' \in [Calls -> SUBSET Calls]
<1>1. \A b \in Same(c) : b \in Calls
  BY DEF Same, Calls
<1>2. {b \in Same(c) : state[b] \in Ended} \in SUBSET Calls
  BY <1>1
<1>3. QED
  BY <1>2 DEF Asks, Goes, TypeOK, States

LEMMA FileInvInit == Init => FileInv
<1>. SUFFICES ASSUME Init PROVE FileInv
  OBVIOUS
<1>. USE DEF Init
<1>1. TypeOK
  BY DEF TypeOK, Ended
<1>2. InTurn /\ Placed /\ ReadRight
  BY DEF InTurn, InLine, Works, Placed, ReadRight, Calls
<1>3. QED
  BY <1>1, <1>2 DEF FileInv

-----------------------------------------------------------------------------
(* FileInv is inductive: the steps with Redis. *)

\* The lock goes from c, whose call is over, to the next in line.
LEMMA ReleaseStep ==
  ASSUME TypeOK, InTurn, NEW c \in Calls, InLine(c), at[c] \in Nodes,
         Head(lockq[at[c]]) = c, Release(c), mode' = mode, at' = at,
         NEW s \in Ended, state' = [state EXCEPT ![c] = s]
  PROVE  lockq' \in [Nodes -> Seq(Calls)] /\ InTurn'
<1>1. /\ lockq \in [Nodes -> Seq(Calls)] /\ state \in [Calls -> States]
      /\ Stands(c, lockq[at[c]])
  BY DEF TypeOK, States, InTurn
<1>2. /\ lockq' = [lockq EXCEPT ![at[c]] = Tail(lockq[at[c]])]
      /\ Tail(lockq[at[c]]) \in Seq(Calls)
  BY <1>1, Leaves1 DEF Release
<1>3. ASSUME NEW d \in Calls, InLine(d)'
      PROVE  Stands(d, lockq[at[d]])' /\ (Works(d)' => Head(lockq[at[d]])' = d)
  <2>1. d # c /\ InLine(d) /\ state'[d] = state[d]
    BY <1>1, <1>3 DEF InLine, Ended
  <2>2. Stands(d, lockq[at[d]]) /\ (Works(d)' => Works(d) /\ Head(lockq[at[d]]) = d)
    BY <2>1 DEF InTurn, Works
  <2>3. CASE at[d] = at[c]
    <3>1. ~Works(d)'
      BY <2>1, <2>2, <2>3
    <3>2. Stands(d, Tail(lockq[at[c]]))
      BY <1>1, <2>1, <2>2, <2>3, Leaves1
    <3>3. lockq'[at'[d]] = Tail(lockq[at[c]])
      BY <1>1, <1>2, <2>3
    <3>4. QED
      BY <3>1, <3>2, <3>3
  <2>4. CASE at[d] # at[c]
    <3>1. lockq'[at'[d]] = lockq[at[d]]
      BY <1>1, <1>2, <2>4
    <3>2. QED
      BY <2>2, <3>1
  <2>5. QED
    BY <2>3, <2>4
<1>4. InTurn'
  BY <1>3 DEF InTurn, InLine, Works
<1>5. QED
  BY <1>1, <1>2, <1>4

LEMMA FileInvStep ==
  ASSUME FileInv, [Next]_vars
  PROVE  FileInv'
<1>. USE QueueAssumption
<1>t. TypeOK /\ Calls = Puts \cup Gets
  BY DEF FileInv, Calls
<1>p. /\ mode \in {"redis", "file"}
      /\ state \in [Calls -> States] /\ at \in [Calls -> Nodes \cup {Nothing}]
      /\ lockq \in [Nodes -> Seq(Calls)]
      /\ store \in [Places -> Seq(AllLines)] /\ lines \in [Gets -> Seq(AllLines)]
      /\ answer \in [Gets -> Answers \cup {Nothing}]
      /\ Places = Nodes \cup {Redis}
  BY DEF FileInv, TypeOK, States, Places
<1>i. InTurn /\ Placed /\ ReadRight
  BY DEF FileInv
<1>. USE DEF Goes, Asks, redisVars, fileVars, callVars
<1>1. ASSUME NEW c \in Calls, NEW n \in Nodes, SendFirst(c, n) PROVE FileInv'
  <2>1. TypeOK'
    <3>1. /\ state' \in [Calls -> States] /\ at' \in [Calls -> Nodes \cup {Nothing}]
          /\ after' \in [Calls -> SUBSET Calls]
      BY <1>1, <1>t, AsksTypes DEF SendFirst, States
    <3>2. try' \in [Calls -> 0 .. 2] /\ wire' \in SUBSET (Calls \X (1 .. 2))
      BY <1>1, <1>t DEF SendFirst, TypeOK
    <3>3. QED
      BY <1>1, <1>t, <3>1, <3>2 DEF SendFirst, TypeOK, States, Ended
  <2>2. InTurn' /\ Placed' /\ ReadRight'
    BY <1>1, <1>p, <1>t, <1>i DEF SendFirst, InTurn, InLine, Works, Placed, ReadRight
  <2>3. QED
    BY <2>1, <2>2 DEF FileInv
<1>2. ASSUME NEW c \in Calls, NEW n \in Nodes, AskLock(c, n) PROVE FileInv'
  <2>1. TypeOK'
    <3>1. /\ state' \in [Calls -> States] /\ at' \in [Calls -> Nodes \cup {Nothing}]
          /\ after' \in [Calls -> SUBSET Calls]
      BY <1>2, <1>t, AsksTypes DEF AskLock, States
    <3>2. lockq' \in [Nodes -> Seq(Calls)]
      BY <1>2, <1>p, Joins DEF AskLock
    <3>3. QED
      BY <1>2, <1>t, <3>1, <3>2 DEF AskLock, TypeOK, States, Ended
  <2>2. InTurn'
    BY <1>2, <1>p, <1>i, Joins DEF AskLock, InTurn, InLine, Works
  <2>3. Placed' /\ ReadRight'
    BY <1>2, <1>p, <1>t, <1>i DEF AskLock, Placed, ReadRight
  <2>4. QED
    BY <2>1, <2>2, <2>3 DEF FileInv
<1>3. ASSUME NEW g \in Gets, NEW n \in Nodes, NoFile(g, n) PROVE FileInv'
  <2>1. TypeOK'
    BY <1>3, <1>t DEF NoFile, TypeOK, Same, Ended
  <2>2. InTurn' /\ Placed' /\ ReadRight'
    BY <1>3, <1>p, <1>t, <1>i DEF NoFile, InTurn, InLine, Works, Placed, ReadRight
  <2>3. QED
    BY <2>1, <2>2 DEF FileInv
<1>4. ASSUME NEW p \in Puts, Open(p) PROVE FileInv'
  <2>1. TypeOK'
    BY <1>4, <1>t, <1>i DEF Open, HasLock, TypeOK, Placed
  <2>2. InTurn' /\ Placed' /\ ReadRight'
    BY <1>4, <1>p, <1>t, <1>i DEF Open, HasLock, InTurn, InLine, Works, Placed, ReadRight
  <2>3. QED
    BY <2>1, <2>2 DEF FileInv
<1>5. ASSUME NEW p \in Puts, Write(p) PROVE FileInv'
  <2>1. at[p] \in Nodes /\ Works(p) /\ Text(p, at[p]) \in Seq(AllLines)
    BY <1>5, <1>p, <1>t, <1>i, TextTypes DEF Write, HasLock, Placed, Works
  <2>2. store' \in [Places -> Seq(AllLines)]
    BY <1>5, <1>p, <2>1 DEF Write
  <2>3. TypeOK'
    BY <1>5, <1>t, <2>2 DEF Write, TypeOK
  <2>4. InTurn' /\ Placed'
    BY <1>5, <1>p, <1>t, <1>i DEF Write, HasLock, InTurn, InLine, Works, Placed
  <2>5. \A g \in Gets : state[g] = "read" => at[g] # at[p]
    BY <1>p, <1>t, <1>i, <2>1 DEF InTurn, Works, Placed
  <2>6. ReadRight'
    BY <1>5, <1>p, <1>t, <1>i, <2>1, <2>5 DEF Write, Placed, ReadRight
  <2>7. QED
    BY <2>3, <2>4, <2>6 DEF FileInv
<1>6. ASSUME NEW g \in Gets, Read(g) PROVE FileInv'
  <2>1. TypeOK'
    BY <1>6, <1>p, <1>t, <1>i DEF Read, HasLock, TypeOK, Placed
  <2>2. InTurn' /\ Placed' /\ ReadRight'
    BY <1>6, <1>p, <1>t, <1>i DEF Read, HasLock, InTurn, InLine, Works, Placed, ReadRight
  <2>3. QED
    BY <2>1, <2>2 DEF FileInv
<1>7. ASSUME NEW g \in Gets, ReadNothing(g) PROVE FileInv'
  <2>1. InLine(g) /\ at[g] \in Nodes /\ Head(lockq[at[g]]) = g
    BY <1>7, <1>t, <1>i DEF ReadNothing, HasLock, InLine, Placed
  <2>2. lockq' \in [Nodes -> Seq(Calls)] /\ InTurn'
    BY <1>7, <1>t, <1>i, <2>1, ReleaseStep DEF ReadNothing, Ended
  <2>3. TypeOK'
    BY <1>7, <1>t, <2>2 DEF ReadNothing, TypeOK, Ended
  <2>4. Placed' /\ ReadRight'
    BY <1>7, <1>p, <1>t, <1>i DEF ReadNothing, HasLock, Placed, ReadRight
  <2>5. QED
    BY <2>2, <2>3, <2>4 DEF FileInv
<1>8. ASSUME NEW g \in Gets, Truncate(g) PROVE FileInv'
  <2>1. /\ at[g] \in Nodes /\ Works(g) /\ lines[g] \in Seq(AllLines)
        /\ Head(lines[g]) \in AllLines
    BY <1>8, <1>p, <1>t, <1>i DEF Truncate, HasLock, Placed, Works
  <2>2. TypeOK'
    <3>1. store' \in [Places -> Seq(AllLines)]
      BY <1>8, <1>p, <2>1 DEF Truncate
    <3>2. out' \in [Places -> Seq([by : Gets, line : AllLines])]
      <4>1. /\ out \in [Places -> Seq([by : Gets, line : AllLines])] /\ at[g] \in Places
            /\ [by |-> g, line |-> Head(lines[g])] \in [by : Gets, line : AllLines]
        BY <2>1 DEF FileInv, TypeOK, Places
      <4>2. Append(out[at[g]], [by |-> g, line |-> Head(lines[g])])
              \in Seq([by : Gets, line : AllLines])
        BY <4>1, AppendProperties
      <4>3. QED
        BY <1>8, <4>1, <4>2 DEF Truncate
    <3>3. QED
      BY <1>8, <1>t, <3>1, <3>2 DEF Truncate, TypeOK
  <2>3. InTurn' /\ Placed'
    BY <1>8, <1>p, <1>t, <1>i DEF Truncate, HasLock, InTurn, InLine, Works, Placed
  <2>4. \A h \in Gets : h # g /\ state[h] = "read" => at[h] # at[g]
    BY <1>p, <1>t, <1>i, <2>1 DEF InTurn, Works, Placed
  <2>5. ReadRight'
    BY <1>8, <1>p, <1>t, <1>i, <2>1, <2>4 DEF Truncate, HasLock, Placed, ReadRight
  <2>6. QED
    BY <2>2, <2>3, <2>5 DEF FileInv
<1>9. ASSUME NEW g \in Gets, Rewrite(g) PROVE FileInv'
  <2>1. /\ at[g] \in Nodes /\ Works(g) /\ lines[g] \in Seq(AllLines)
        /\ Head(lines[g]) \in AllLines /\ Tail(lines[g]) \in Seq(AllLines)
    BY <1>9, <1>p, <1>t, <1>i DEF Rewrite, HasLock, Placed, Works, ReadRight
  <2>2. TypeOK'
    <3>1. /\ store' \in [Places -> Seq(AllLines)] /\ lines' \in [Gets -> Seq(AllLines)]
          /\ answer' \in [Gets -> Answers \cup {Nothing}]
      BY <1>9, <1>p, <2>1 DEF Rewrite, Said, Answers
    <3>2. QED
      BY <1>9, <1>t, <3>1 DEF Rewrite, TypeOK
  <2>3. InTurn' /\ Placed'
    BY <1>9, <1>p, <1>t, <1>i DEF Rewrite, HasLock, InTurn, InLine, Works, Placed
  <2>4. \A h \in Gets : h # g /\ state[h] = "read" => at[h] # at[g]
    BY <1>p, <1>t, <1>i, <2>1 DEF InTurn, Works, Placed
  <2>5. ReadRight'
    BY <1>9, <1>p, <1>t, <1>i, <2>1, <2>4 DEF Rewrite, HasLock, Placed, ReadRight
  <2>6. QED
    BY <2>2, <2>3, <2>5 DEF FileInv
<1>10. ASSUME NEW g \in Gets, RewriteFails(g) PROVE FileInv'
  <2>1. /\ InLine(g) /\ Works(g) /\ at[g] \in Nodes /\ Head(lockq[at[g]]) = g
        /\ \A r \in Remains(g) : r \in Seq(AllLines)
    BY <1>10, <1>p, <1>t, <1>i, RemainsTypes DEF RewriteFails, HasLock, InLine, Works, Placed
  <2>2. lockq' \in [Nodes -> Seq(Calls)] /\ InTurn'
    BY <1>10, <1>t, <1>i, <2>1, ReleaseStep DEF RewriteFails, Ended
  <2>3. PICK rest \in Remains(g) : store' = [store EXCEPT ![at[g]] = rest]
    BY <1>10 DEF RewriteFails
  <2>4. TypeOK'
    <3>1. store' \in [Places -> Seq(AllLines)] /\ lines' \in [Gets -> Seq(AllLines)]
      BY <1>10, <1>p, <2>1, <2>3 DEF RewriteFails
    <3>2. torn' \in SUBSET Nodes
      BY <1>10, <1>t, <2>1 DEF RewriteFails, TypeOK
    <3>3. QED
      BY <1>10, <1>t, <2>2, <3>1, <3>2 DEF RewriteFails, TypeOK, Ended
  <2>5. \A h \in Gets : h # g /\ state[h] = "read" => at[h] # at[g]
    BY <1>p, <1>t, <1>i, <2>1 DEF InTurn, Works, Placed
  <2>6. Placed'
    BY <1>10, <1>p, <1>t, <1>i DEF RewriteFails, HasLock, Placed
  <2>7. ReadRight'
    BY <1>10, <1>p, <1>t, <1>i, <2>1, <2>3, <2>5 DEF RewriteFails, HasLock, Placed, ReadRight
  <2>8. QED
    BY <2>2, <2>4, <2>6, <2>7 DEF FileInv
<1>11. ASSUME NEW c \in Calls, Return(c) PROVE FileInv'
  <2>1. PICK s \in Ended : state' = [state EXCEPT ![c] = s]
    BY <1>11 DEF Return, Ended
  <2>2. at[c] \in Nodes /\ (mode = "file" => InLine(c) /\ Head(lockq[at[c]]) = c)
    BY <1>11, <1>i DEF Return, InLine, Works, InTurn, Placed
  <2>3. lockq' \in [Nodes -> Seq(Calls)] /\ InTurn'
    <3>1. CASE mode = "file"
      BY <1>11, <1>t, <1>i, <2>1, <2>2, <3>1, ReleaseStep DEF Return
    <3>2. CASE mode # "file"
      BY <1>11, <1>p, <3>2 DEF Return, InTurn, InLine, Works
    <3>3. QED
      BY <3>1, <3>2
  <2>4. TypeOK'
    <3>1. state' \in [Calls -> States]
      BY <1>p, <2>1 DEF States
    <3>2. QED
      BY <1>11, <1>t, <2>3, <3>1 DEF Return, TypeOK, States
  <2>5. Placed' /\ ReadRight'
    BY <1>11, <1>p, <1>t, <1>i, <2>1 DEF Return, Placed, ReadRight, Ended
  <2>6. QED
    BY <2>3, <2>4, <2>5 DEF FileInv
<1>12. ASSUME NEW c \in Calls, Fail(c) PROVE FileInv'
  <2>1. PICK s \in Ended : state' = [state EXCEPT ![c] = s]
    BY <1>12 DEF Fail, Failed, Ended
  <2>2. at[c] \in Nodes /\ (mode = "file" => InLine(c) /\ Head(lockq[at[c]]) = c)
    BY <1>12, <1>p, <1>i DEF Fail, HasLock, InLine, Placed, InTurn
  <2>3. lockq' \in [Nodes -> Seq(Calls)] /\ InTurn'
    <3>1. CASE mode = "file"
      BY <1>12, <1>t, <1>i, <2>1, <2>2, <3>1, ReleaseStep DEF Fail
    <3>2. CASE mode # "file"
      BY <1>12, <1>p, <3>2 DEF Fail, InTurn, InLine, Works
    <3>3. QED
      BY <3>1, <3>2
  <2>4. TypeOK'
    <3>1. /\ lines' \in [Gets -> Seq(AllLines)]
          /\ answer' \in [Gets -> Answers \cup {Nothing}]
      BY <1>12, <1>p DEF Fail
    <3>2. state' \in [Calls -> States]
      BY <1>p, <2>1 DEF States
    <3>3. QED
      BY <1>12, <1>t, <2>3, <3>1, <3>2 DEF Fail, TypeOK, States
  <2>5. Placed'
    BY <1>12, <1>p, <1>t, <1>i, <2>1, <2>2 DEF Fail, Placed, Ended
  <2>6. ReadRight'
    <3>1. ASSUME NEW g \in Gets, state'[g] \in {"read", "cut"}
          PROVE  state'[g] = state[g] /\ lines'[g] = lines[g]
      BY <1>12, <1>p, <1>t, <2>1, <3>1 DEF Fail, Ended
    <3>2. QED
      BY <1>12, <1>i, <3>1 DEF Fail, ReadRight
  <2>7. QED
    BY <2>3, <2>4, <2>5, <2>6 DEF FileInv
<1>13. ASSUME NEW c \in Calls, SendAgain(c) PROVE FileInv'
  <2>1. TypeOK'
    <3>1. try' \in [Calls -> 0 .. 2] /\ wire' \in SUBSET (Calls \X (1 .. 2))
      BY <1>13, <1>t DEF SendAgain, TypeOK
    <3>2. QED
      BY <1>13, <1>t, <3>1 DEF SendAgain, TypeOK
  <2>2. InTurn' /\ Placed' /\ ReadRight'
    BY <1>13, <1>p, <1>t, <1>i DEF SendAgain, InTurn, InLine, Works, Placed, ReadRight
  <2>3. QED
    BY <2>1, <2>2 DEF FileInv
<1>14. ASSUME NEW c \in Calls, NEW t \in 1 .. 2, Execute(c, t) PROVE FileInv'
  <2>1. /\ mode = "redis" /\ UNCHANGED <<mode, at, after, try, lockq, files, lines, torn>>
        /\ wire' = wire \ {<<c, t>>}
        /\ \/ state' = state
           \/ state[c] = "sent" /\ state' = [state EXCEPT ![c] = "done"]
    <3>1. mode = "redis"
      BY <1>14, <1>p, <1>i DEF Execute, Placed
    <3>2. /\ UNCHANGED <<mode, at, after, try, lockq, files, lines, torn>>
          /\ wire' = wire \ {<<c, t>>}
      BY <1>14 DEF Execute
    <3>3. \/ state' = state
          \/ state[c] = "sent" /\ state' = [state EXCEPT ![c] = "done"]
      BY <1>14 DEF Execute
    <3>4. QED
      BY <3>1, <3>2, <3>3
  <2>2. /\ store' \in [Places -> Seq(AllLines)]
        /\ answer' \in [Gets -> Answers \cup {Nothing}]
        /\ out' \in [Places -> Seq([by : Gets, line : AllLines])]
    <3>1. CASE c \in Puts
      <4>1. Text(c, Redis) \in Seq(AllLines) /\ store[Redis] \in Seq(AllLines)
        BY <1>p, <3>1, TextTypes
      <4>2. store[Redis] \o Text(c, Redis) \in Seq(AllLines)
        BY <4>1, ConcatProperties
      <4>3. PushText(c)
        BY <1>14, <3>1 DEF Execute
      <4>4. QED
        BY <1>p, <1>t, <4>2, <4>3 DEF PushText, TypeOK
    <3>2. CASE c \in Gets /\ store[Redis] # << >>
      <4>1. /\ store[Redis] \in Seq(AllLines) /\ Redis \in Places
            /\ out[Redis] \in Seq([by : Gets, line : AllLines])
        BY <1>p, <1>t DEF TypeOK
      <4>2. Head(store[Redis]) \in AllLines /\ Tail(store[Redis]) \in Seq(AllLines)
        BY <3>2, <4>1, HeadTailProperties
      <4>3. [by |-> c, line |-> Head(store[Redis])] \in [by : Gets, line : AllLines]
        BY <3>2, <4>2
      <4>4. Append(out[Redis], [by |-> c, line |-> Head(store[Redis])])
              \in Seq([by : Gets, line : AllLines])
        BY <4>1, <4>3, AppendProperties
      <4>5. /\ store' = [store EXCEPT ![Redis] = Tail(store[Redis])]
            /\ \/ answer' = answer
               \/ answer' = [answer EXCEPT ![c] = Head(store[Redis])]
            /\ out' = [out EXCEPT ![Redis] =
                         Append(out[Redis], [by |-> c, line |-> Head(store[Redis])])]
        BY <1>14, <3>2, QueueAssumption DEF Execute, PopLine
      <4>6. QED
        <5>1. store' \in [Places -> Seq(AllLines)]
          BY <1>p, <4>2, <4>5 DEF Answers
        <5>2. answer' \in [Gets -> Answers \cup {Nothing}]
          BY <1>p, <4>2, <4>5 DEF Answers
        <5>3. out' \in [Places -> Seq([by : Gets, line : AllLines])]
          BY <1>t, <4>4, <4>5 DEF TypeOK
        <5>4. QED
          BY <5>1, <5>2, <5>3
    <3>3. CASE c \in Gets /\ store[Redis] = << >>
      <4>1. UNCHANGED <<store, answer, out>>
        BY <1>14, <3>3, QueueAssumption DEF Execute, PopLine
      <4>2. QED
        BY <1>t, <4>1 DEF TypeOK
    <3>4. QED
      BY <1>t, <3>1, <3>2, <3>3
  <2>3. state' \in [Calls -> States]
    BY <1>p, <2>1 DEF States
  <2>4. wire' \in SUBSET (Calls \X (1 .. 2))
    BY <1>t, <2>1 DEF TypeOK
  <2>5. TypeOK'
    BY <1>t, <2>1, <2>2, <2>3, <2>4 DEF TypeOK, States
  <2>6. InTurn'
    BY <1>p, <1>i, <2>1 DEF InTurn, InLine, Works
  <2>7. Placed'
    BY <1>p, <1>i, <2>1 DEF Placed
  <2>8. ReadRight'
    <3>1. \A g \in Gets : state'[g] \notin {"read", "cut"}
      BY <2>1, <2>7, <1>t DEF Placed, Ended
    <3>2. QED
      BY <3>1 DEF ReadRight
  <2>9. QED
    BY <2>5, <2>6, <2>7, <2>8 DEF FileInv
<1>15. ASSUME NEW n \in Nodes, Restart(n) PROVE FileInv'
  <2>. DEFINE mine == {c \in Calls : at[c] = n /\ state[c] \notin Ended}
              cut  == {g \in mine : state[g] = "cut"}
  <2>1. /\ state' = [c \in Calls |-> IF c \in mine THEN "lost" ELSE state[c]]
        /\ lockq' = [lockq EXCEPT ![n] = << >>]
        /\ torn' = torn \/ torn' = torn \cup {n}
        /\ lines' = [g \in Gets |-> IF g \in mine THEN << >> ELSE lines[g]]
        /\ answer' = [g \in Gets |-> IF g \in mine THEN Nothing ELSE answer[g]]
        /\ UNCHANGED <<mode, at, after, try, wire, files, out>>
    BY <1>15 DEF Restart
  <2>2. \A c \in cut : c \in Gets
    BY <1>p, <1>t, <1>i DEF Placed
  <2>3. \/ store' = store
        \/ \E rest \in Seq(AllLines) : store' = [store EXCEPT ![n] = rest]
    BY <1>15, <1>t, <2>2, RemainsTypes DEF Restart
  <2>4. TypeOK'
    <3>1. state' \in [Calls -> States]
      BY <1>p, <2>1 DEF States, Ended
    <3>2. /\ lines' \in [Gets -> Seq(AllLines)]
          /\ answer' \in [Gets -> Answers \cup {Nothing}]
          /\ lockq' \in [Nodes -> Seq(Calls)]
      BY <1>p, <2>1
    <3>3. store' \in [Places -> Seq(AllLines)]
      BY <1>p, <2>3
    <3>4. QED
      BY <1>t, <2>1, <3>1, <3>2, <3>3 DEF TypeOK, States
  <2>5. ASSUME NEW c \in Calls
        PROVE  \/ state'[c] \in Ended
               \/ state'[c] = state[c] /\ (state[c] # "new" => at[c] # n)
    BY <1>p, <2>1 DEF Ended
  <2>6. InTurn'
    BY <1>p, <1>i, <2>1, <2>5 DEF InTurn, InLine, Works, Placed, Ended
  <2>7. Placed'
    BY <1>p, <1>t, <1>i, <2>1, <2>5 DEF Placed, Ended
  <2>8. ReadRight'
    <3>1. ASSUME NEW g \in Gets, state'[g] \in {"read", "cut"}
          PROVE  /\ state'[g] = state[g] /\ lines'[g] = lines[g]
                 /\ at[g] \in Nodes /\ store'[at[g]] = store[at[g]]
      <4>1. state'[g] = state[g] /\ at[g] \in Nodes /\ at[g] # n
        BY <1>p, <1>t, <1>i, <2>5, <3>1 DEF Placed, Ended
      <4>2. QED
        BY <1>p, <2>1, <2>3, <4>1
    <3>2. QED
      BY <1>i, <2>1, <3>1 DEF ReadRight
  <2>9. QED
    BY <2>4, <2>6, <2>7, <2>8 DEF FileInv
<1>16. CASE UNCHANGED vars
  BY <1>16, <1>t, <1>i DEF vars, FileInv, TypeOK, InTurn, InLine, Works, Placed, ReadRight
<1>17. QED
  BY <1>1, <1>2, <1>3, <1>4, <1>5, <1>6, <1>7, <1>8, <1>9, <1>10, <1>11, <1>12,
     <1>13, <1>14, <1>15, <1>16, <1>t DEF Next, FileStep, Finish

LEMMA FileInvariant == Spec => []FileInv
BY FileInvInit, FileInvStep, PTL DEF Spec

\* Calls, files and lists keep their types, and what a call holds when it begins
\* to write is what it has read (queue_node.py:17-72, handlers.py:31-60).
THEOREM QueueTypes == Spec => []TypeOK
<1>1. FileInv => TypeOK
  BY DEF FileInv
<1>2. QED
  BY <1>1, FileInvariant, PTL

-----------------------------------------------------------------------------
(* What a step does to a topic. *)

Keeps(q)     == Items(q)' = Items(q) /\ out'[q] = out[q]
Enters(p, q) == Items(q)' = Items(q) \o Text(p, q) /\ out'[q] = out[q]
Leaves(g, q) ==
  /\ Items(q) # << >> /\ Items(q)' = Tail(Items(q))
  /\ out'[q] = Append(out[q], [by |-> g, line |-> Head(Items(q))])
LosesEnd(q)  ==
  /\ \E k \in 0 .. Len(Items(q)) : Items(q)' = SubSeq(Items(q), 1, k)
  /\ out'[q] = out[q]

Elsewhere(q) == \A r \in Places \ {q} : Keeps(r)

\* At most one consume is rewriting a file, so Items is what it is meant to be.
ItemsRight ==
  /\ \A g \in Gets : state[g] = "cut" => Items(at[g]) = Tail(lines[g])
  /\ \A q \in Places :
       (\A g \in Gets : state[g] = "cut" => at[g] # q) => Items(q) = store[q]

LEMMA ItemsAre == FileInv => ItemsRight
<1>. SUFFICES ASSUME FileInv PROVE ItemsRight
  OBVIOUS
<1>1. ASSUME NEW g \in Gets, state[g] = "cut" PROVE Items(at[g]) = Tail(lines[g])
  <2>. DEFINE Cuts(h) == state[h] = "cut" /\ at[h] = at[g]
              one == CHOOSE h \in Gets : Cuts(h)
  <2>1. one \in Gets /\ Cuts(one)
    BY <1>1
  <2>2. \A h \in Gets : Cuts(h) => h = g
    BY <1>1 DEF FileInv, InTurn, Works, Placed, Calls, TypeOK, Ended
  <2>3. one = g
    BY <2>1, <2>2
  <2>4. Items(at[g]) = Tail(lines[one])
    BY <1>1 DEF Items
  <2>5. QED
    BY <2>3, <2>4
<1>2. ASSUME NEW q \in Places, \A g \in Gets : state[g] = "cut" => at[g] # q
      PROVE  Items(q) = store[q]
  BY <1>2 DEF Items
<1>3. QED
  BY <1>1, <1>2 DEF ItemsRight

LEMMA ItemsStill == FileInv' => ItemsRight'
BY ItemsAre, PTL

\* The lines of a topic are lines.
LEMMA ItemsTypes ==
  ASSUME FileInv, NEW q \in Places
  PROVE  Items(q) \in Seq(AllLines) /\ out[q] \in Seq([by : Gets, line : AllLines])
<1>1. out[q] \in Seq([by : Gets, line : AllLines]) /\ store[q] \in Seq(AllLines)
  BY DEF FileInv, TypeOK
<1>2. CASE \E g \in Gets : state[g] = "cut" /\ at[g] = q
  <2>1. PICK g \in Gets : state[g] = "cut" /\ at[g] = q
    BY <1>2
  <2>2. lines[g] \in Seq(AllLines) /\ lines[g] # << >>
    BY <2>1 DEF FileInv, TypeOK, ReadRight
  <2>3. QED
    BY <1>1, <2>1, <2>2, ItemsAre, HeadTailProperties DEF ItemsRight
<1>3. CASE \A g \in Gets : state[g] = "cut" => at[g] # q
  BY <1>1, <1>3, ItemsAre DEF ItemsRight
<1>4. QED
  BY <1>2, <1>3

\* A step that cuts nothing, and changes no file that is cut, keeps all lines.
LEMMA Keeping ==
  ASSUME FileInv, FileInv', UNCHANGED <<store, out>>,
         \A g \in Gets : /\ state[g] = "cut" <=> state'[g] = "cut"
                         /\ state[g] = "cut" =>
                              lines'[g] = lines[g] /\ at'[g] = at[g]
  PROVE  \A q \in Places : Keeps(q)
<1>. SUFFICES ASSUME NEW q \in Places PROVE Items(q)' = Items(q)
  BY DEF Keeps
<1>1. ItemsRight /\ ItemsRight'
  BY ItemsAre, ItemsStill
<1>2. CASE \E g \in Gets : state[g] = "cut" /\ at[g] = q
  BY <1>1, <1>2 DEF ItemsRight
<1>3. CASE \A g \in Gets : state[g] = "cut" => at[g] # q
  BY <1>1, <1>3 DEF ItemsRight
<1>4. QED
  BY <1>2, <1>3

\* The steps that leave every topic as it is.
Quiet ==
  \/ \E c \in Calls, n \in Nodes : SendFirst(c, n) \/ AskLock(c, n)
  \/ \E g \in Gets, n \in Nodes : NoFile(g, n)
  \/ \E p \in Puts : Open(p)
  \/ \E g \in Gets : Read(g) \/ ReadNothing(g) \/ Rewrite(g)
  \/ \E c \in Calls : Finish(c) \/ SendAgain(c)
  \/ UNCHANGED vars

LEMMA QuietStep ==
  ASSUME FileInv, FileInv', Quiet
  PROVE  \A q \in Places : Keeps(q)
<1>t. /\ mode \in {"redis", "file"} /\ state \in [Calls -> States] /\ Gets \subseteq Calls
      /\ store \in [Places -> Seq(AllLines)] /\ lines \in [Gets -> Seq(AllLines)]
      /\ Places = Nodes \cup {Redis}
  BY DEF FileInv, TypeOK, States, Calls, Places
<1>. USE DEF Goes, Asks, HasLock, redisVars, fileVars, callVars, Ended
<1>1. CASE \E g \in Gets : Rewrite(g)
  <2>1. PICK g \in Gets : Rewrite(g)
    BY <1>1
  <2>2. /\ state[g] = "cut" /\ state' = [state EXCEPT ![g] = "done"] /\ at' = at
        /\ store' = [store EXCEPT ![at[g]] = Tail(lines[g])]
        /\ lines' = [lines EXCEPT ![g] = << >>] /\ out' = out
    BY <2>1 DEF Rewrite
  <2>3. at[g] \in Nodes /\ \A h \in Gets : state[h] = "cut" /\ at[h] = at[g] => h = g
    BY <1>t, <2>2 DEF FileInv, InTurn, Works, Placed
  <2>4. ItemsRight /\ ItemsRight'
    BY ItemsAre, ItemsStill
  <2>5. ASSUME NEW q \in Places, q # at[g] PROVE Items(q)' = Items(q)
    <3>1. store'[q] = store[q]
      BY <1>t, <2>2, <2>5
    <3>2. CASE \E h \in Gets : state[h] = "cut" /\ at[h] = q
      <4>1. PICK h \in Gets : state[h] = "cut" /\ at[h] = q
        BY <3>2
      <4>2. state'[h] = "cut" /\ lines'[h] = lines[h] /\ at'[h] = q
        BY <1>t, <2>2, <2>5, <4>1
      <4>3. QED
        BY <2>4, <4>1, <4>2 DEF ItemsRight
    <3>3. CASE \A h \in Gets : state[h] = "cut" => at[h] # q
      <4>1. \A h \in Gets : state'[h] = "cut" => at'[h] # q
        BY <1>t, <2>2, <3>3
      <4>2. QED
        BY <2>4, <3>1, <3>3, <4>1 DEF ItemsRight
    <3>4. QED
      BY <3>2, <3>3
  <2>6. Items(at[g])' = Items(at[g])
    <3>1. \A h \in Gets : state'[h] = "cut" => at'[h] # at[g]
      BY <1>t, <2>2, <2>3
    <3>2. Items(at[g])' = store'[at[g]]
      BY <1>t, <2>2, <2>3, <2>4, <3>1 DEF ItemsRight
    <3>3. QED
      BY <1>t, <2>2, <2>3, <2>4, <3>2 DEF ItemsRight
  <2>7. QED
    BY <2>2, <2>5, <2>6 DEF Keeps
<1>2. CASE \E c \in Calls, n \in Nodes : SendFirst(c, n) \/ AskLock(c, n)
  <2>1. /\ UNCHANGED <<store, out, lines>>
        /\ \E c \in Calls : /\ state[c] = "new" /\ state'[c] # "cut"
                           /\ \A b \in Calls \ {c} : state'[b] = state[b] /\ at'[b] = at[b]
    <3>1. PICK c \in Calls, n \in Nodes, s \in {"sent", "wait"} : Asks(c, n, s)
      BY <1>2 DEF SendFirst, AskLock
    <3>2. /\ state[c] = "new" /\ state'[c] # "cut"
          /\ \A b \in Calls \ {c} : state'[b] = state[b] /\ at'[b] = at[b]
      BY <1>t, <3>1 DEF FileInv, TypeOK
    <3>3. UNCHANGED <<store, out, lines>>
      BY <1>2 DEF SendFirst, AskLock
    <3>4. QED
      BY <3>2, <3>3
  <2>2. QED
    BY <1>t, <2>1, Keeping
<1>3. CASE \E g \in Gets, n \in Nodes : NoFile(g, n)
  <2>1. /\ UNCHANGED <<store, out, lines>>
        /\ \E c \in Calls : /\ state[c] = "new" /\ state'[c] # "cut"
                           /\ \A b \in Calls \ {c} : state'[b] = state[b] /\ at'[b] = at[b]
    BY <1>3, <1>t DEF NoFile, FileInv, TypeOK
  <2>2. QED
    BY <1>t, <2>1, Keeping
<1>4. CASE \E p \in Puts : Open(p)
  BY <1>4, <1>t, Keeping DEF Open
<1>5. CASE \E g \in Gets : Read(g) \/ ReadNothing(g)
  BY <1>5, <1>t, Keeping DEF Read, ReadNothing
<1>6. CASE \E c \in Calls : Return(c)
  BY <1>6, <1>t, Keeping DEF Return
<1>7. CASE \E c \in Calls : Fail(c)
  BY <1>7, <1>t, Keeping DEF Fail, Failed
<1>8. CASE \E c \in Calls : SendAgain(c)
  BY <1>8, <1>t, Keeping DEF SendAgain
<1>9. CASE UNCHANGED vars
  BY <1>9, Keeping DEF vars
<1>10. QED
  BY <1>1, <1>2, <1>3, <1>4, <1>5, <1>6, <1>7, <1>8, <1>9 DEF Quiet, Finish

\* The steps that put a message into a topic.
LEMMA WriteStep ==
  ASSUME FileInv, FileInv', NEW p \in Puts, Write(p)
  PROVE  at[p] \in Nodes /\ Enters(p, at[p]) /\ Elsewhere(at[p])
<1>t. /\ state \in [Calls -> States] /\ Gets \subseteq Calls /\ Puts \subseteq Calls
      /\ store \in [Places -> Seq(AllLines)]
      /\ Places = Nodes \cup {Redis}
  BY DEF FileInv, TypeOK, States, Calls, Places
<1>1. /\ mode = "file" /\ state[p] = "open" /\ state' = [state EXCEPT ![p] = "done"]
      /\ store' = [store EXCEPT ![at[p]] = @ \o Text(p, at[p])]
      /\ UNCHANGED <<at, lines, out>>
  BY DEF Write, HasLock, Goes, fileVars
<1>2. at[p] \in Nodes /\ \A g \in Gets : state[g] = "cut" => at[g] # at[p]
  BY <1>t, <1>1 DEF FileInv, InTurn, Works, Placed
<1>3. \A g \in Gets : state'[g] = "cut" <=> state[g] = "cut"
  BY <1>t, <1>1 DEF FileInv, Placed
<1>4. ItemsRight /\ ItemsRight'
  BY ItemsAre, ItemsStill
<1>5. Items(at[p])' = Items(at[p]) \o Text(p, at[p])
  BY <1>t, <1>1, <1>2, <1>3, <1>4 DEF ItemsRight
<1>6. ASSUME NEW q \in Places \ {at[p]} PROVE Items(q)' = Items(q)
  <2>1. store'[q] = store[q]
    BY <1>t, <1>1
  <2>2. CASE \E g \in Gets : state[g] = "cut" /\ at[g] = q
    BY <1>1, <1>3, <1>4, <2>2 DEF ItemsRight
  <2>3. CASE \A g \in Gets : state[g] = "cut" => at[g] # q
    BY <1>1, <1>3, <1>4, <2>1, <2>3 DEF ItemsRight
  <2>4. QED
    BY <2>2, <2>3
<1>7. QED
  BY <1>1, <1>2, <1>5, <1>6 DEF Enters, Elsewhere, Keeps

\* The steps of Redis: no file is cut.
LEMMA ExecuteStep ==
  ASSUME FileInv, FileInv', NEW c \in Calls, NEW t \in 1 .. 2, Execute(c, t)
  PROVE  /\ mode = "redis" /\ Elsewhere(Redis)
         /\ c \in Puts => Enters(c, Redis)
         /\ c \in Gets => \/ UNCHANGED answer /\ Keeps(Redis)
                          \/ /\ Leaves(c, Redis)
                             /\ answer' = IF state[c] = "sent" /\ try[c] = t
                                            THEN [answer EXCEPT ![c] = Head(Items(Redis))]
                                            ELSE answer
<1>1. mode = "redis" /\ mode' = mode
  BY DEF Execute, FileInv, Placed, TypeOK
<1>2. \A q \in Places : Items(q) = store[q] /\ Items(q)' = store'[q]
  <2>1. \A g \in Gets : state[g] # "cut" /\ state'[g] # "cut"
    BY <1>1 DEF FileInv, Placed, Calls, Ended
  <2>2. QED
    BY <2>1, ItemsAre, ItemsStill DEF ItemsRight
<1>3. store \in [Places -> Seq(AllLines)] /\ Redis \in Places
  BY DEF FileInv, TypeOK, Places
<1>4. CASE c \in Puts
  <2>1. store' = [store EXCEPT ![Redis] = @ \o Text(c, Redis)] /\ out' = out
    BY <1>4 DEF Execute, PushText
  <2>2. QED
    BY <1>1, <1>2, <1>3, <1>4, <2>1, QueueAssumption DEF Elsewhere, Keeps, Enters
<1>5. CASE c \in Gets
  <2>. DEFINE heard == state[c] = "sent" /\ try[c] = t
  <2>1. PopLine(c, heard) /\ c \notin Puts
    BY <1>5, QueueAssumption DEF Execute
  <2>2. CASE store[Redis] = << >>
    BY <1>1, <1>2, <1>3, <2>1, <2>2 DEF PopLine, Elsewhere, Keeps
  <2>3. CASE store[Redis] # << >>
    <3>1. /\ store' = [store EXCEPT ![Redis] = Tail(@)]
          /\ answer' = IF heard THEN [answer EXCEPT ![c] = Head(store[Redis])] ELSE answer
          /\ out' = [out EXCEPT ![Redis] =
                       Append(@, [by |-> c, line |-> Head(store[Redis])])]
      BY <2>1, <2>3 DEF PopLine
    <3>2. out'[Redis] = Append(out[Redis], [by |-> c, line |-> Head(store[Redis])])
          /\ \A q \in Places \ {Redis} : out'[q] = out[q]
      BY <1>3, <3>1 DEF FileInv, TypeOK
    <3>3. Leaves(c, Redis)
      BY <1>2, <1>3, <2>3, <3>1, <3>2 DEF Leaves
    <3>4. Elsewhere(Redis)
      BY <1>2, <1>3, <3>1, <3>2 DEF Elsewhere, Keeps
    <3>5. QED
      BY <1>1, <1>2, <1>3, <2>1, <3>1, <3>3, <3>4
  <2>4. QED
    BY <2>2, <2>3
<1>6. QED
  BY <1>4, <1>5 DEF Calls

LEMMA TruncateStep ==
  ASSUME FileInv, FileInv', NEW g \in Gets, Truncate(g)
  PROVE  /\ at[g] \in Nodes /\ Leaves(g, at[g]) /\ Elsewhere(at[g])
         /\ Head(lines[g]) = Head(Items(at[g]))
<1>t. /\ state \in [Calls -> States] /\ Gets \subseteq Calls
      /\ store \in [Places -> Seq(AllLines)]
      /\ out \in [Places -> Seq([by : Gets, line : AllLines])]
      /\ Places = Nodes \cup {Redis}
  BY DEF FileInv, TypeOK, States, Calls, Places
<1>1. /\ mode = "file" /\ state[g] = "read" /\ state' = [state EXCEPT ![g] = "cut"]
      /\ lines[g] # << >>
      /\ store' = [store EXCEPT ![at[g]] = << >>]
      /\ out' = [out EXCEPT ![at[g]] = Append(@, [by |-> g, line |-> Head(lines[g])])]
      /\ UNCHANGED <<at, lines>>
  BY DEF Truncate, HasLock, Goes, fileVars
<1>2. at[g] \in Nodes /\ \A h \in Gets : state[h] = "cut" => at[h] # at[g]
  BY <1>t, <1>1 DEF FileInv, InTurn, Works, Placed
<1>3. state'[g] = "cut" /\ \A h \in Gets \ {g} : state'[h] = state[h]
  BY <1>t, <1>1
<1>4. ItemsRight /\ ItemsRight'
  BY ItemsAre, ItemsStill
<1>5. Items(at[g]) = lines[g] /\ Items(at[g])' = Tail(lines[g])
  <2>1. Items(at[g]) = store[at[g]]
    BY <1>t, <1>2, <1>4 DEF ItemsRight
  <2>2. store[at[g]] = lines[g]
    BY <1>1 DEF FileInv, ReadRight
  <2>3. QED
    BY <1>1, <1>3, <1>4, <2>1, <2>2 DEF ItemsRight
<1>6. ASSUME NEW q \in Places \ {at[g]} PROVE Items(q)' = Items(q) /\ out'[q] = out[q]
  <2>1. store'[q] = store[q] /\ out'[q] = out[q]
    BY <1>t, <1>1
  <2>2. CASE \E h \in Gets : state[h] = "cut" /\ at[h] = q
    <3>1. PICK h \in Gets : state[h] = "cut" /\ at[h] = q
      BY <2>2
    <3>2. state'[h] = "cut"
      BY <1>3, <3>1
    <3>3. QED
      BY <1>1, <1>4, <2>1, <3>1, <3>2 DEF ItemsRight
  <2>3. CASE \A h \in Gets : state[h] = "cut" => at[h] # q
    <3>1. \A h \in Gets : state'[h] = "cut" => at'[h] # q
      BY <1>1, <1>3, <2>3
    <3>2. QED
      BY <1>4, <2>1, <2>3, <3>1 DEF ItemsRight
  <2>4. QED
    BY <2>2, <2>3
<1>7. out'[at[g]] = Append(out[at[g]], [by |-> g, line |-> Head(lines[g])])
  BY <1>t, <1>1, <1>2
<1>8. QED
  BY <1>1, <1>2, <1>5, <1>6, <1>7 DEF Leaves, Elsewhere, Keeps

\* What is left of a rewrite is the beginning of what it was to write.
LEMMA RemainsBegin ==
  ASSUME NEW l \in Seq(AllLines), l # << >>, NEW k \in 1 .. Len(l)
  PROVE  \E j \in 0 .. Len(Tail(l)) : SubSeq(l, 2, k) = SubSeq(Tail(l), 1, j)
<1>1. /\ Len(l) \in Nat /\ Tail(l) \in Seq(AllLines) /\ Len(Tail(l)) = Len(l) - 1
      /\ \A i \in 1 .. Len(Tail(l)) : Tail(l)[i] = l[i + 1]
  BY HeadTailProperties
<1>2. k - 1 \in 0 .. Len(Tail(l))
  BY <1>1
<1>. DEFINE a == SubSeq(l, 2, k)
            b == SubSeq(Tail(l), 1, k - 1)
<1>3. /\ a \in Seq(AllLines) /\ Len(a) = k - 1
      /\ \A i \in 1 .. k - 1 : a[i] = l[i + 1]
  <2>1. \A i \in 2 .. k : l[i] \in AllLines
    BY <1>1, ElementOfSeq
  <2>2. /\ SubSeq(l, 2, k) \in Seq(AllLines)
        /\ Len(SubSeq(l, 2, k)) = IF 2 <= k THEN k - 2 + 1 ELSE 0
        /\ \A i \in 1 .. k - 2 + 1 : SubSeq(l, 2, k)[i] = l[2 + i - 1]
    BY <2>1, SubSeqProperties
  <2>3. QED
    BY <2>2
<1>4. /\ b \in Seq(AllLines) /\ Len(b) = k - 1
      /\ \A i \in 1 .. k - 1 : b[i] = l[i + 1]
  <2>1. \A i \in 1 .. k - 1 : Tail(l)[i] \in AllLines
    BY <1>1, <1>2, ElementOfSeq
  <2>2. /\ b \in Seq(AllLines)
        /\ Len(b) = IF 1 <= k - 1 THEN (k - 1) - 1 + 1 ELSE 0
        /\ \A i \in 1 .. (k - 1) - 1 + 1 : b[i] = Tail(l)[1 + i - 1]
    BY <2>1, SubSeqProperties
  <2>3. QED
    BY <1>1, <1>2, <2>2
<1>5. a = b
  BY <1>3, <1>4, SeqEqual
<1>6. QED
  BY <1>2, <1>5

\* A file whose rewrite stops half way loses lines at its end.
LEMMA CutShort ==
  ASSUME FileInv, FileInv', NEW g \in Gets, state[g] = "cut", out' = out,
         UNCHANGED <<mode, at>>,
         NEW rest \in Remains(g), store' = [store EXCEPT ![at[g]] = rest],
         \A h \in Gets : state'[h] = "cut" => at[h] # at[g],
         \A h \in Gets : at[h] # at[g] =>
           (state'[h] = "cut" <=> state[h] = "cut") /\ lines'[h] = lines[h]
  PROVE  at[g] \in Nodes /\ LosesEnd(at[g]) /\ Elsewhere(at[g])
<1>t. /\ store \in [Places -> Seq(AllLines)] /\ Places = Nodes \cup {Redis}
      /\ at[g] \in Nodes /\ lines[g] \in Seq(AllLines) /\ lines[g] # << >>
  BY DEF FileInv, TypeOK, Places, Placed, Calls, ReadRight
<1>1. ItemsRight /\ ItemsRight'
  BY ItemsAre, ItemsStill
<1>2. Items(at[g]) = Tail(lines[g]) /\ Items(at[g])' = rest
  BY <1>t, <1>1 DEF ItemsRight
<1>3. \E j \in 0 .. Len(Tail(lines[g])) : rest = SubSeq(Tail(lines[g]), 1, j)
  BY <1>t, RemainsBegin DEF Remains
<1>4. ASSUME NEW q \in Places \ {at[g]} PROVE Items(q)' = Items(q)
  <2>1. store'[q] = store[q]
    BY <1>t
  <2>2. CASE \E h \in Gets : state[h] = "cut" /\ at[h] = q
    BY <1>1, <2>2 DEF ItemsRight
  <2>3. CASE \A h \in Gets : state[h] = "cut" => at[h] # q
    <3>1. \A h \in Gets : state'[h] = "cut" => at'[h] # q
      BY <2>3
    <3>2. QED
      BY <1>1, <2>1, <2>3, <3>1 DEF ItemsRight
  <2>4. QED
    BY <2>2, <2>3
<1>5. QED
  BY <1>t, <1>2, <1>3, <1>4 DEF LosesEnd, Elsewhere, Keeps

LEMMA RewriteFailsStep ==
  ASSUME FileInv, FileInv', NEW g \in Gets, RewriteFails(g)
  PROVE  at[g] \in Nodes /\ LosesEnd(at[g]) /\ Elsewhere(at[g])
<1>t. /\ state \in [Calls -> States] /\ Gets \subseteq Calls
      /\ lines \in [Gets -> Seq(AllLines)]
  BY DEF FileInv, TypeOK, States, Calls
<1>1. /\ mode = "file" /\ state[g] = "cut" /\ state' = [state EXCEPT ![g] = "failed"]
      /\ lines' = [lines EXCEPT ![g] = << >>] /\ UNCHANGED <<mode, at, out>>
  BY DEF RewriteFails, HasLock, Goes
<1>2. PICK rest \in Remains(g) : store' = [store EXCEPT ![at[g]] = rest]
  BY DEF RewriteFails
<1>3. \A h \in Gets : state[h] = "cut" /\ at[h] = at[g] => h = g
  BY <1>t, <1>1 DEF FileInv, InTurn, Works, Placed
<1>4. /\ \A h \in Gets : state'[h] = "cut" => at[h] # at[g]
      /\ \A h \in Gets : at[h] # at[g] =>
           (state'[h] = "cut" <=> state[h] = "cut") /\ lines'[h] = lines[h]
  BY <1>t, <1>1, <1>3
<1>5. QED
  BY <1>1, <1>2, <1>4, CutShort

LEMMA RestartStep ==
  ASSUME FileInv, FileInv', NEW n \in Nodes, Restart(n)
  PROVE  Elsewhere(n) /\ (Keeps(n) \/ (LosesEnd(n) /\ n \in torn'))
<1>. DEFINE mine == {c \in Calls : at[c] = n /\ state[c] \notin Ended}
            cut  == {g \in mine : state[g] = "cut"}
<1>t. /\ state \in [Calls -> States] /\ Calls = Puts \cup Gets
      /\ lines \in [Gets -> Seq(AllLines)] /\ n \in Places
  BY DEF FileInv, TypeOK, States, Calls, Places
<1>1. /\ state' = [c \in Calls |-> IF c \in mine THEN "lost" ELSE state[c]]
      /\ lines' = [g \in Gets |-> IF g \in mine THEN << >> ELSE lines[g]]
      /\ UNCHANGED <<mode, at, out>>
  BY DEF Restart
<1>2. /\ \A h \in Gets : state'[h] = "cut" => at[h] # n
      /\ \A h \in Gets : at[h] # n =>
           (state'[h] = "cut" <=> state[h] = "cut") /\ lines'[h] = lines[h]
  BY <1>t, <1>1 DEF Ended
<1>3. CASE cut = {}
  <2>1. store' = store
    BY <1>3 DEF Restart
  <2>2. \A h \in Gets : state[h] = "cut" => at[h] # n
    BY <1>t, <1>3 DEF Ended
  <2>3. \A q \in Places : Keeps(q)
    BY <1>1, <1>2, <2>1, <2>2, Keeping
  <2>4. QED
    BY <1>t, <2>3 DEF Elsewhere
<1>4. CASE cut # {}
  <2>1. PICK g \in cut : \E rest \in Remains(g) : store' = [store EXCEPT ![n] = rest]
    BY <1>4 DEF Restart
  <2>2. g \in Gets /\ state[g] = "cut" /\ at[g] = n
    BY <1>t, <2>1 DEF FileInv, Placed
  <2>3. n \in torn'
    BY <1>4 DEF Restart
  <2>4. LosesEnd(n) /\ Elsewhere(n)
    BY <1>1, <1>2, <2>1, <2>2, CutShort
  <2>5. QED
    BY <2>3, <2>4
<1>5. QED
  BY <1>3, <1>4

-----------------------------------------------------------------------------
(* Every topic is a first-in first-out queue. *)

MovesAt(q) ==
  \/ \E p \in Puts : Enters(p, q)
  \/ \E g \in Gets : Leaves(g, q)
  \/ LosesEnd(q) /\ q \in torn'

LEMMA Moves ==
  ASSUME FileInv, FileInv', [Next]_vars
  PROVE  \/ \A q \in Places : Keeps(q)
         \/ \E q \in Places : Elsewhere(q) /\ MovesAt(q)
<1>0. Places = Nodes \cup {Redis} /\ Calls = Puts \cup Gets
  BY DEF Places, Calls
<1>1. CASE Quiet
  BY <1>1, QuietStep
<1>2. ASSUME NEW p \in Puts, Write(p) PROVE \E q \in Places : Elsewhere(q) /\ MovesAt(q)
  BY <1>0, <1>2, WriteStep DEF MovesAt
<1>3. ASSUME NEW g \in Gets, Truncate(g) PROVE \E q \in Places : Elsewhere(q) /\ MovesAt(q)
  BY <1>0, <1>3, TruncateStep DEF MovesAt
<1>4. ASSUME NEW g \in Gets, RewriteFails(g)
      PROVE  \E q \in Places : Elsewhere(q) /\ MovesAt(q)
  <2>1. at[g] \in torn'
    BY <1>4 DEF RewriteFails
  <2>2. QED
    BY <1>0, <1>4, <2>1, RewriteFailsStep DEF MovesAt
<1>5. ASSUME NEW c \in Calls, NEW t \in 1 .. 2, Execute(c, t)
      PROVE  \/ \A q \in Places : Keeps(q)
             \/ \E q \in Places : Elsewhere(q) /\ MovesAt(q)
  <2>1. Elsewhere(Redis) /\ (Keeps(Redis) \/ MovesAt(Redis))
    BY <1>0, <1>5, ExecuteStep DEF MovesAt
  <2>2. QED
    BY <1>0, <2>1 DEF Elsewhere
<1>6. ASSUME NEW n \in Nodes, Restart(n)
      PROVE  \/ \A q \in Places : Keeps(q)
             \/ \E q \in Places : Elsewhere(q) /\ MovesAt(q)
  <2>1. Elsewhere(n) /\ (Keeps(n) \/ MovesAt(n))
    BY <1>0, <1>6, RestartStep DEF MovesAt
  <2>2. QED
    BY <1>0, <2>1 DEF Elsewhere
<1>7. QED
  BY <1>1, <1>2, <1>3, <1>4, <1>5, <1>6 DEF Next, FileStep, Quiet

\* The step of the abstract queue for a move in q.
LEMMA MoveServes ==
  ASSUME FileInv, FileInv', NEW q \in Places, Elsewhere(q), MovesAt(q)
  PROVE  Topics!Next
<1>. DEFINE items == [r \in Places |-> Items(r)]
<1>1. /\ out \in [Places -> Seq([by : Gets, line : AllLines])]
      /\ out' \in [Places -> Seq([by : Gets, line : AllLines])]
  BY DEF FileInv, TypeOK
<1>2. \A r \in Places : r # q => Items(r)' = Items(r) /\ out'[r] = out[r]
  BY DEF Elsewhere, Keeps
<1>3. /\ items' = [items EXCEPT ![q] = Items(q)']
      /\ out' = [out EXCEPT ![q] = out'[q]]
      /\ items[q] = Items(q)
  BY <1>1, <1>2
<1>4. ASSUME NEW p \in Puts, Enters(p, q) PROVE Topics!Next
  <2>1. Topics!Put(q, Text(p, q))
    BY <1>1, <1>3, <1>4 DEF Enters, Topics!Put
  <2>2. QED
    BY <2>1 DEF Topics!Next
<1>5. ASSUME NEW g \in Gets, Leaves(g, q) PROVE Topics!Next
  <2>1. Topics!Take(q, g)
    BY <1>1, <1>3, <1>5 DEF Leaves, Topics!Take
  <2>2. QED
    BY <2>1 DEF Topics!Next
<1>6. CASE LosesEnd(q)
  <2>1. Topics!LoseEnd(q)
    BY <1>1, <1>3, <1>6 DEF LosesEnd, Topics!LoseEnd
  <2>2. QED
    BY <2>1 DEF Topics!Next
<1>7. QED
  BY <1>4, <1>5, <1>6 DEF MovesAt

LEMMA TopicStep ==
  FileInv /\ FileInv' /\ [Next]_vars
    => [Topics!Next]_<<[q \in Places |-> Items(q)], out>>
<1>. SUFFICES ASSUME FileInv, FileInv', [Next]_vars
              PROVE  [Topics!Next]_<<[q \in Places |-> Items(q)], out>>
  OBVIOUS
<1>1. CASE \A q \in Places : Keeps(q)
  <2>1. /\ out \in [Places -> Seq([by : Gets, line : AllLines])]
        /\ out' \in [Places -> Seq([by : Gets, line : AllLines])]
    BY DEF FileInv, TypeOK
  <2>2. out' = out /\ [q \in Places |-> Items(q)]' = [q \in Places |-> Items(q)]
    BY <1>1, <2>1 DEF Keeps
  <2>3. QED
    BY <2>2
<1>2. CASE \E q \in Places : Elsewhere(q) /\ MovesAt(q)
  BY <1>2, MoveServes
<1>3. QED
  BY <1>1, <1>2, Moves

\* With Redis and without, whatever times out, is repeated, fails or is cut short
\* by a restart, lines enter a topic at its end and leave it at its head, and
\* what goes missing goes missing at the end (handlers.py:31-60,
\* queue_node.py:17-72).
THEOREM TopicsAreFifo == Spec => EveryTopicIsFifo
<1>1. Init => Topics!Init
  <2>. SUFFICES ASSUME Init PROVE Topics!Init
    OBVIOUS
  <2>1. ItemsRight
    BY FileInvInit, ItemsAre
  <2>2. \A q \in Places : Items(q) = << >>
    <3>1. \A g \in Gets : state[g] # "cut"
      BY DEF Init, Calls
    <3>2. QED
      BY <2>1, <3>1 DEF Init, ItemsRight
  <2>3. QED
    BY <2>2 DEF Init, Topics!Init
<1>2. QED
  BY <1>1, FileInvariant, TopicStep, PTL DEF Spec, EveryTopicIsFifo, Topics!Spec

-----------------------------------------------------------------------------
(* All that has gone through a topic. *)

\* a is the lines of o and then s.
Joined(a, o, s) ==
  /\ a \in Seq(AllLines) /\ Len(a) = Len(o) + Len(s)
  /\ \A i \in 1 .. Len(o) : a[i] = o[i].line
  /\ \A i \in 1 .. Len(s) : a[Len(o) + i] = s[i]

ThroughRight == \A q \in Places :
  /\ Items(q) \in Seq(AllLines) /\ out[q] \in Seq([by : Gets, line : AllLines])
  /\ Joined(Through(q), out[q], Items(q))

LEMMA ThroughIs == FileInv => ThroughRight
<1>. SUFFICES ASSUME FileInv, NEW q \in Places
              PROVE  /\ Items(q) \in Seq(AllLines)
                     /\ out[q] \in Seq([by : Gets, line : AllLines])
                     /\ Joined(Through(q), out[q], Items(q))
  BY DEF ThroughRight
<1>. DEFINE taken == [i \in DOMAIN out[q] |-> out[q][i].line]
<1>1. Items(q) \in Seq(AllLines) /\ out[q] \in Seq([by : Gets, line : AllLines])
  BY ItemsTypes
<1>2. /\ taken \in Seq(AllLines) /\ Len(taken) = Len(out[q])
      /\ \A i \in 1 .. Len(out[q]) : taken[i] = out[q][i].line
  <2>1. Len(out[q]) \in Nat /\ DOMAIN out[q] = 1 .. Len(out[q])
    BY <1>1, LenProperties
  <2>2. ASSUME NEW i \in 1 .. Len(out[q]) PROVE out[q][i].line \in AllLines
    <3>1. out[q][i] \in [by : Gets, line : AllLines]
      BY <1>1, ElementOfSeq
    <3>2. QED
      BY <3>1
  <2>3. taken \in [1 .. Len(out[q]) -> AllLines]
    BY <2>1, <2>2
  <2>4. taken \in Seq(AllLines)
    BY <2>1, <2>3, SeqDef
  <2>5. QED
    BY <2>1, <2>3, <2>4, LenProperties
<1>3. Through(q) = taken \o Items(q)
  BY DEF Through
<1>. HIDE DEF taken
<1>4. /\ taken \o Items(q) \in Seq(AllLines)
      /\ Len(taken \o Items(q)) = Len(taken) + Len(Items(q))
      /\ \A i \in 1 .. Len(taken) + Len(Items(q)) :
           (taken \o Items(q))[i] =
             IF i <= Len(taken) THEN taken[i] ELSE Items(q)[i - Len(taken)]
  BY <1>1, <1>2, ConcatProperties
<1>5. Len(out[q]) \in Nat /\ Len(Items(q)) \in Nat
  BY <1>1, LenProperties
<1>6. QED
  BY <1>1, <1>2, <1>3, <1>4, <1>5 DEF Joined

LEMMA ThroughStill == FileInv' => ThroughRight'
BY ThroughIs, PTL

LEMMA FirstIsLine == \A p \in Puts : First(p) \in AllLines
BY QueueAssumption DEF First

\* p is o with the head of s, and t is the rest of s.
Crosses(o, p, s, t) ==
  /\ Len(o) \in Nat /\ Len(s) \in Nat \ {0}
  /\ Len(p) = Len(o) + 1 /\ \A i \in 1 .. Len(o) : p[i] = o[i]
  /\ p[Len(o) + 1].line = s[1]
  /\ Len(t) = Len(s) - 1 /\ \A i \in 1 .. Len(s) - 1 : t[i] = s[i + 1]

LEMMA HeadCrosses ==
  ASSUME NEW o, NEW p, NEW s, NEW t, NEW a, NEW b,
         Crosses(o, p, s, t), Joined(a, o, s), Joined(b, p, t)
  PROVE  b = a
<1>. USE DEF Crosses, Joined
<1>1. Len(a) = Len(b)
  OBVIOUS
<1>2. ASSUME NEW i \in 1 .. Len(a) PROVE a[i] = b[i]
  <2>1. CASE i <= Len(o)
    <3>1. i \in 1 .. Len(o) /\ i \in 1 .. Len(p)
      BY <2>1
    <3>2. QED
      BY <3>1
  <2>2. CASE i = Len(o) + 1
    <3>1. a[i] = s[1]
      <4>1. 1 \in 1 .. Len(s)
        OBVIOUS
      <4>2. QED
        BY <2>2, <4>1
    <3>2. b[i] = p[i].line
      BY <2>2
    <3>3. QED
      BY <2>2, <3>1, <3>2
  <2>3. CASE i > Len(o) + 1
    <3>1. PICK j \in 1 .. Len(s) - 1 : i = Len(o) + 1 + j
      <4>1. i - Len(o) - 1 \in 1 .. Len(s) - 1 /\ i = Len(o) + 1 + (i - Len(o) - 1)
        BY <2>3
      <4>2. QED
        BY <4>1
    <3>2. j + 1 \in 1 .. Len(s) /\ i = Len(o) + (j + 1) /\ i = Len(p) + j
      BY <3>1
    <3>3. a[i] = s[j + 1]
      BY <3>2
    <3>4. b[i] = t[j]
      BY <3>1, <3>2
    <3>5. QED
      BY <3>3, <3>4
  <2>4. QED
    BY <2>1, <2>2, <2>3
<1>3. QED
  BY <1>1, <1>2, SeqEqual

\* u is s and then text.
Extends(u, s, text) ==
  /\ Len(s) \in Nat /\ Len(text) \in Nat /\ Len(u) = Len(s) + Len(text)
  /\ \A i \in 1 .. Len(s) : u[i] = s[i]
  /\ \A i \in 1 .. Len(text) : u[Len(s) + i] = text[i]

LEMMA ConcatExtends ==
  ASSUME NEW s \in Seq(AllLines), NEW text \in Seq(AllLines)
  PROVE  Extends(s \o text, s, text)
<1>1. /\ Len(s) \in Nat /\ Len(text) \in Nat /\ Len(s \o text) = Len(s) + Len(text)
      /\ \A i \in 1 .. Len(s) + Len(text) :
           (s \o text)[i] = IF i <= Len(s) THEN s[i] ELSE text[i - Len(s)]
  BY ConcatProperties, LenProperties
<1>2. ASSUME NEW i \in 1 .. Len(text) PROVE (s \o text)[Len(s) + i] = text[i]
  <2>1. /\ Len(s) + i \in 1 .. Len(s) + Len(text) /\ ~(Len(s) + i <= Len(s))
        /\ Len(s) + i - Len(s) = i
    BY <1>1
  <2>2. QED
    BY <1>1, <2>1
<1>3. QED
  BY <1>1, <1>2 DEF Extends

\* What joins s joins what has gone through.
LEMMA TextFollows ==
  ASSUME NEW o, NEW s, NEW u, NEW text, NEW a, NEW b, Len(o) \in Nat,
         Joined(a, o, s), Joined(b, o, u), Extends(u, s, text)
  PROVE  Extends(b, a, text)
<1>. USE DEF Joined, Extends
<1>1. Len(a) = Len(o) + Len(s) /\ Len(b) = Len(o) + Len(s) + Len(text)
  OBVIOUS
<1>2. ASSUME NEW i \in 1 .. Len(a) PROVE b[i] = a[i]
  <2>1. CASE i <= Len(o)
    <3>1. i \in 1 .. Len(o)
      BY <2>1
    <3>2. QED
      BY <3>1
  <2>2. CASE i > Len(o)
    <3>1. PICK j \in 1 .. Len(s) : i = Len(o) + j
      <4>1. i - Len(o) \in 1 .. Len(s) /\ i = Len(o) + (i - Len(o))
        BY <1>1, <2>2
      <4>2. QED
        BY <4>1
    <3>2. j \in 1 .. Len(u) /\ u[j] = s[j]
      BY <3>1
    <3>3. QED
      BY <3>1, <3>2
  <2>3. QED
    BY <1>1, <2>1, <2>2
<1>3. ASSUME NEW i \in 1 .. Len(text) PROVE b[Len(a) + i] = text[i]
  <2>1. Len(s) + i \in 1 .. Len(u) /\ u[Len(s) + i] = text[i]
    BY <1>1
  <2>2. Len(a) + i = Len(o) + (Len(s) + i)
    BY <1>1
  <2>3. QED
    BY <2>1, <2>2
<1>4. QED
  BY <1>1, <1>2, <1>3

\* A message leaves its line where it stands in what has gone through.
LEMMA LeavesKeeps ==
  ASSUME FileInv, FileInv', NEW q \in Places, NEW g \in Gets, Leaves(g, q)
  PROVE  Through(q)' = Through(q)
<1>1. ThroughRight /\ ThroughRight'
  BY ThroughIs, ThroughStill
<1>2. /\ Items(q) \in Seq(AllLines) /\ Items(q) # << >>
      /\ Items(q)' = Tail(Items(q))
      /\ out[q] \in Seq([by : Gets, line : AllLines])
      /\ out'[q] = Append(out[q], [by |-> g, line |-> Head(Items(q))])
  BY <1>1 DEF Leaves, ThroughRight
<1>3. /\ Len(out[q]) \in Nat /\ Len(Items(q)) \in Nat \ {0}
      /\ Len(Items(q)') = Len(Items(q)) - 1
      /\ \A i \in 1 .. Len(Items(q)) - 1 : Items(q)'[i] = Items(q)[i + 1]
      /\ Head(Items(q)) \in AllLines /\ Head(Items(q)) = Items(q)[1]
  BY <1>2, HeadTailProperties, EmptySeq, LenProperties
<1>4. /\ Len(out'[q]) = Len(out[q]) + 1
      /\ \A i \in 1 .. Len(out[q]) : out'[q][i] = out[q][i]
      /\ out'[q][Len(out[q]) + 1].line = Items(q)[1]
  <2>1. [by |-> g, line |-> Head(Items(q))] \in [by : Gets, line : AllLines]
    BY <1>3
  <2>2. QED
    BY <1>2, <1>3, <2>1, AppendProperties
<1>5. Crosses(out[q], out'[q], Items(q), Items(q)')
  BY <1>3, <1>4 DEF Crosses
<1>6. /\ Joined(Through(q), out[q], Items(q))
      /\ Joined(Through(q)', out'[q], Items(q)')
  BY <1>1 DEF ThroughRight
<1>7. QED
  BY <1>5, <1>6, HeadCrosses


LEMMA KeepsThrough ==
  ASSUME NEW q \in Places, Keeps(q)
  PROVE  Through(q)' = Through(q)
BY DEF Keeps, Through

\* New lines come after all others, and one of them is the first of p.
LEMMA EntersCopies ==
  ASSUME FileInv, FileInv', NEW q \in Places, NEW p \in Puts, Enters(p, q)
  PROVE  /\ Copies(First(p), q)' = Copies(First(p), q) \cup {Len(Through(q)) + 1}
         /\ \A r \in Puts \ {p} : Copies(First(r), q)' = Copies(First(r), q)
<1>. DEFINE a == Through(q)
            b == Through(q)'
            text == Text(p, q)
<1>1. /\ text \in Seq(AllLines) /\ Len(text) \in Nat /\ Len(text) > 0
      /\ DOMAIN text = 1 .. Len(text)
      /\ text[1] = First(p)
      /\ \A r \in Puts \ {p} : \A i \in 1 .. Len(text) : text[i] # First(r)
      /\ \A i \in 1 .. Len(text) : text[i] = First(p) => i = 1
  <2>1. /\ text \in Seq(AllLines) /\ Len(text) \in Nat /\ Len(text) > 0
        /\ text[1] = First(p) /\ DOMAIN text = 1 .. Len(text)
    BY TextTypes
  <2>2. ASSUME NEW r \in Puts, NEW i \in 1 .. Len(text), text[i] = First(r)
        PROVE  r = p /\ i = 1
    <3>1. i \in DOMAIN Lines[p] /\ Lines[p][i] = First(r)
      BY <2>1, <2>2, TextTypes
    <3>2. QED
      BY <3>1, FirstLinesDiffer DEF First
  <2>3. QED
    BY <2>1, <2>2
<1>2. a \in Seq(AllLines) /\ b \in Seq(AllLines) /\ Extends(b, a, text)
  <2>1. ThroughRight /\ ThroughRight'
    BY ThroughIs, ThroughStill
  <2>2. /\ Joined(a, out[q], Items(q)) /\ Joined(b, out[q], Items(q) \o text)
        /\ Items(q) \in Seq(AllLines) /\ out[q] \in Seq([by : Gets, line : AllLines])
    BY <2>1 DEF ThroughRight, Enters
  <2>. HIDE DEF a, b, text
  <2>3. Len(out[q]) \in Nat /\ Extends(Items(q) \o text, Items(q), text)
    BY <1>1, <2>2, ConcatExtends, LenProperties
  <2>4. Extends(b, a, text)
    BY <2>2, <2>3, TextFollows
  <2>5. QED
    BY <2>2, <2>4 DEF Joined
<1>3. \A l : /\ Copies(l, q) = {i \in DOMAIN a : a[i] = l}
             /\ Copies(l, q)' = {i \in DOMAIN b : b[i] = l}
  BY DEF Copies
<1>. HIDE DEF a, b, text
<1>4. /\ DOMAIN a = 1 .. Len(a) /\ DOMAIN b = 1 .. Len(a) + Len(text)
      /\ Len(a) \in Nat
      /\ \A i \in 1 .. Len(a) : b[i] = a[i]
      /\ \A i \in 1 .. Len(text) : b[Len(a) + i] = text[i]
  BY <1>2, LenProperties DEF Extends
<1>5. ASSUME NEW i \in DOMAIN b
      PROVE  \/ i \in DOMAIN a /\ b[i] = a[i]
             \/ i = Len(a) + 1 /\ b[i] = First(p)
             \/ i \notin DOMAIN a /\ i # Len(a) + 1 /\ \A r \in Puts : b[i] # First(r)
  <2>1. CASE i <= Len(a)
    BY <1>4, <2>1
  <2>2. CASE i > Len(a)
    <3>1. PICK j \in 1 .. Len(text) : i = Len(a) + j
      <4>1. i - Len(a) \in 1 .. Len(text) /\ i = Len(a) + (i - Len(a))
        BY <1>1, <1>4, <2>2
      <4>2. QED
        BY <4>1
    <3>2. b[i] = text[j]
      BY <1>4, <3>1
    <3>3. CASE j = 1
      BY <1>1, <3>1, <3>2, <3>3
    <3>4. CASE j # 1
      BY <1>1, <1>4, <3>1, <3>2, <3>4
    <3>5. QED
      BY <3>3, <3>4
  <2>3. QED
    BY <1>1, <1>4, <2>1, <2>2
<1>6. \A r \in Puts \ {p} : First(r) # First(p)
  BY <1>1
<1>7. DOMAIN a \subseteq DOMAIN b /\ Len(a) + 1 \in DOMAIN b /\ Len(a) + 1 \notin DOMAIN a
  BY <1>1, <1>4
<1>8. b[Len(a) + 1] = First(p)
  BY <1>1, <1>4
<1>9. {i \in DOMAIN b : b[i] = First(p)} = {i \in DOMAIN a : a[i] = First(p)} \cup {Len(a) + 1}
  BY <1>4, <1>5, <1>7, <1>8
<1>10. ASSUME NEW r \in Puts \ {p}
       PROVE  {i \in DOMAIN b : b[i] = First(r)} = {i \in DOMAIN a : a[i] = First(r)}
  BY <1>4, <1>5, <1>6, <1>7
<1>11. QED
  BY <1>3, <1>9, <1>10 DEF a


\* What goes missing is the end of all that has gone through.
LEMMA LosesCopies ==
  ASSUME FileInv, FileInv', NEW q \in Places, LosesEnd(q)
  PROVE  \E m \in Nat : \A l : Copies(l, q)' = {i \in Copies(l, q) : i <= m}
<1>. DEFINE a == Through(q)
            b == Through(q)'
            s == Items(q)
            o == out[q]
<1>1. PICK k \in 0 .. Len(s) : Items(q)' = SubSeq(s, 1, k)
  BY DEF LosesEnd
<1>2. /\ s \in Seq(AllLines) /\ o \in Seq([by : Gets, line : AllLines])
      /\ Joined(a, o, s) /\ Joined(b, o, SubSeq(s, 1, k))
  BY <1>1, ThroughIs, ThroughStill DEF ThroughRight, LosesEnd
<1>3. \A l : /\ Copies(l, q) = {i \in DOMAIN a : a[i] = l}
             /\ Copies(l, q)' = {i \in DOMAIN b : b[i] = l}
  BY DEF Copies
<1>. HIDE DEF a, b, s, o
<1>4. /\ Len(o) \in Nat /\ Len(s) \in Nat /\ k \in Nat /\ k <= Len(s)
      /\ Len(SubSeq(s, 1, k)) = k /\ \A i \in 1 .. k : SubSeq(s, 1, k)[i] = s[i]
  <2>1. Len(o) \in Nat /\ Len(s) \in Nat
    BY <1>2, LenProperties
  <2>2. k \in Int /\ \A i \in 1 .. k : s[i] \in AllLines
    BY <1>1, <1>2, <2>1, ElementOfSeq
  <2>3. /\ Len(SubSeq(s, 1, k)) = IF 1 <= k THEN k - 1 + 1 ELSE 0
        /\ \A i \in 1 .. k - 1 + 1 : SubSeq(s, 1, k)[i] = s[1 + i - 1]
    BY <2>2, SubSeqProperties
  <2>4. QED
    BY <1>1, <2>1, <2>3
<1>5. /\ DOMAIN a = 1 .. Len(o) + Len(s) /\ DOMAIN b = 1 .. Len(o) + k
  BY <1>2, <1>4, LenProperties DEF Joined
<1>6. ASSUME NEW i \in 1 .. Len(o) + k PROVE b[i] = a[i]
  <2>1. CASE i <= Len(o)
    BY <1>2, <1>4, <2>1 DEF Joined
  <2>2. CASE i > Len(o)
    <3>1. PICK j \in 1 .. k : i = Len(o) + j
      <4>1. i - Len(o) \in 1 .. k /\ i = Len(o) + (i - Len(o))
        BY <1>4, <2>2
      <4>2. QED
        BY <4>1
    <3>2. b[i] = SubSeq(s, 1, k)[j] /\ a[i] = s[j]
      BY <1>2, <1>4, <3>1 DEF Joined
    <3>3. QED
      BY <1>4, <3>2
  <2>3. QED
    BY <1>4, <2>1, <2>2
<1>7. \A i : i \in DOMAIN b <=> i \in DOMAIN a /\ i <= Len(o) + k
  BY <1>4, <1>5
<1>8. ASSUME NEW l
      PROVE  {i \in DOMAIN b : b[i] = l} = {i \in {h \in DOMAIN a : a[h] = l} : i <= Len(o) + k}
  BY <1>5, <1>6, <1>7
<1>9. Len(o) + k \in Nat
  BY <1>4
<1>10. \A l : Copies(l, q)' = {i \in Copies(l, q) : i <= Len(o) + k}
  <2>1. ASSUME NEW l
        PROVE  Copies(l, q)' = {i \in Copies(l, q) : i <= Len(o) + k}
    BY <1>3, <1>8
  <2>2. QED
    BY <2>1
<1>11. QED
  BY <1>9, <1>10

LEMMA CopiesFinite ==
  ASSUME FileInv, NEW q \in Places, NEW l
  PROVE  /\ IsFiniteSet(Copies(l, q)) /\ Copies(l, q) \subseteq Nat
         /\ \A i \in Copies(l, q) : i < Len(Through(q)) + 1
<1>1. Through(q) \in Seq(AllLines)
  BY ThroughIs DEF ThroughRight, Joined
<1>2. Len(Through(q)) \in Nat /\ DOMAIN Through(q) = 1 .. Len(Through(q))
  BY <1>1, LenProperties
<1>3. Copies(l, q) \subseteq 1 .. Len(Through(q))
  BY <1>2 DEF Copies
<1>4. IsFiniteSet(1 .. Len(Through(q)))
  BY <1>2, FS_Interval
<1>5. QED
  BY <1>2, <1>3, <1>4, FS_Subset

LEMMA TakesFinite ==
  ASSUME FileInv, NEW q \in Places, NEW g
  PROVE  /\ IsFiniteSet(Takes(g, q)) /\ Takes(g, q) \subseteq Nat
         /\ \A i \in Takes(g, q) : i < Len(out[q]) + 1
<1>1. out[q] \in Seq([by : Gets, line : AllLines])
  BY DEF FileInv, TypeOK
<1>2. Len(out[q]) \in Nat /\ DOMAIN out[q] = 1 .. Len(out[q])
  BY <1>1, LenProperties
<1>3. Takes(g, q) \subseteq 1 .. Len(out[q])
  BY <1>2 DEF Takes
<1>4. IsFiniteSet(1 .. Len(out[q]))
  <2>. HIDE DEF FileInv
  <2>1. ASSUME NEW n \in Nat PROVE IsFiniteSet(1 .. n)
    BY FS_Interval
  <2>2. QED
    BY <1>2, <2>1
<1>5. QED
  BY <1>2, <1>3, <1>4, FS_Subset

\* Who takes a line is noted last.
LEMMA LeavesTakes ==
  ASSUME FileInv, FileInv', NEW q \in Places, NEW g \in Gets, Leaves(g, q)
  PROVE  /\ Takes(g, q)' = Takes(g, q) \cup {Len(out[q]) + 1}
         /\ \A h \in Gets \ {g} : Takes(h, q)' = Takes(h, q)
         /\ out'[q][Len(out[q]) + 1].line = Head(Items(q))
         /\ \A h \in Gets : \A i \in Takes(h, q) : out'[q][i] = out[q][i]
<1>. DEFINE e == [by |-> g, line |-> Head(Items(q))]
<1>1. /\ out[q] \in Seq([by : Gets, line : AllLines]) /\ e \in [by : Gets, line : AllLines]
      /\ out'[q] = Append(out[q], e)
  BY ItemsTypes, HeadTailProperties DEF Leaves
<1>2. e.by = g /\ e.line = Head(Items(q))
  OBVIOUS
<1>. HIDE DEF e
<1>3. /\ Len(out[q]) \in Nat /\ DOMAIN out[q] = 1 .. Len(out[q])
      /\ DOMAIN out'[q] = 1 .. Len(out[q]) + 1
      /\ \A i \in 1 .. Len(out[q]) : out'[q][i] = out[q][i]
      /\ out'[q][Len(out[q]) + 1] = e
  BY <1>1, AppendProperties, LenProperties
<1>4. ASSUME NEW i
      PROVE  i \in DOMAIN out'[q] <=> i \in DOMAIN out[q] \/ i = Len(out[q]) + 1
  BY <1>3
<1>5. Len(out[q]) + 1 \notin DOMAIN out[q]
  BY <1>3
<1>6. QED
  BY <1>2, <1>3, <1>4, <1>5 DEF Takes

Pushes(p, q) == \/ q = Redis /\ \E t \in 1 .. 2 : Execute(p, t)
                \/ q = at[p] /\ Write(p)
Pops(g, q)   == \/ q = Redis /\ \E t \in 1 .. 2 : Execute(g, t)
                \/ q = at[g] /\ Truncate(g)

SameLines(q)  == \A l : Copies(l, q)' = Copies(l, q)
NewLine(p, q) ==
  /\ Copies(First(p), q)' = Copies(First(p), q) \cup {Len(Through(q)) + 1}
  /\ \A r \in Puts \ {p} : Copies(First(r), q)' = Copies(First(r), q)
FewerLines(q) ==
  /\ q \in torn'
  /\ \E m \in Nat : \A l : Copies(l, q)' = {i \in Copies(l, q) : i <= m}

\* What a step does to the messages and the takers of a topic, and who does it.
TopicMoved(q) ==
  /\ \/ SameLines(q)
     \/ \E p \in Puts : Pushes(p, q) /\ NewLine(p, q)
     \/ FewerLines(q)
  /\ \/ out'[q] = out[q]
     \/ \E g \in Gets : Pops(g, q) /\ Leaves(g, q)

LEMMA TopicMoves ==
  ASSUME FileInv, FileInv', [Next]_vars, NEW q \in Places
  PROVE  TopicMoved(q)
<1>0. Places = Nodes \cup {Redis} /\ Calls = Puts \cup Gets
  BY DEF Places, Calls
<1>k. ASSUME Keeps(q) PROVE TopicMoved(q)
  BY <1>k, KeepsThrough DEF TopicMoved, Keeps, SameLines, Copies
<1>e. ASSUME NEW p \in Puts, Pushes(p, q), Enters(p, q) PROVE TopicMoved(q)
  BY <1>e, EntersCopies DEF TopicMoved, Enters, NewLine
<1>l. ASSUME NEW g \in Gets, Pops(g, q), Leaves(g, q) PROVE TopicMoved(q)
  BY <1>l, LeavesKeeps DEF TopicMoved, SameLines, Copies
<1>t. ASSUME LosesEnd(q), q \in torn' PROVE TopicMoved(q)
  BY <1>t, LosesCopies DEF TopicMoved, LosesEnd, FewerLines
<1>1. CASE Quiet
  <2>1. Keeps(q)
    BY <1>1, QuietStep
  <2>2. QED
    BY <1>k, <2>1
<1>2. ASSUME NEW p \in Puts, Write(p) PROVE TopicMoved(q)
  BY <1>2, <1>k, <1>e, WriteStep DEF Pushes, Elsewhere
<1>3. ASSUME NEW g \in Gets, Truncate(g) PROVE TopicMoved(q)
  BY <1>3, <1>k, <1>l, TruncateStep DEF Pops, Elsewhere
<1>4. ASSUME NEW g \in Gets, RewriteFails(g) PROVE TopicMoved(q)
  <2>1. at[g] \in torn'
    BY <1>4 DEF RewriteFails
  <2>2. QED
    BY <1>4, <1>k, <1>t, <2>1, RewriteFailsStep DEF Elsewhere
<1>5. ASSUME NEW c \in Calls, NEW t \in 1 .. 2, Execute(c, t) PROVE TopicMoved(q)
  <2>1. /\ Elsewhere(Redis) /\ (c \in Puts => Enters(c, Redis))
        /\ c \in Gets => Keeps(Redis) \/ Leaves(c, Redis)
    BY <1>5, ExecuteStep
  <2>2. CASE q # Redis
    BY <1>k, <2>1, <2>2 DEF Elsewhere
  <2>3. CASE q = Redis
    BY <1>0, <1>5, <1>k, <1>e, <1>l, <2>1, <2>3 DEF Pushes, Pops
  <2>4. QED
    BY <2>2, <2>3
<1>6. ASSUME NEW n \in Nodes, Restart(n) PROVE TopicMoved(q)
  BY <1>6, <1>k, <1>t, RestartStep DEF Elsewhere
<1>7. QED
  BY <1>1, <1>2, <1>3, <1>4, <1>5, <1>6 DEF Next, FileStep, Quiet

-----------------------------------------------------------------------------
(* What a step does to a call. *)

CallMoves(c) ==
  /\ state[c] \in Ended => state'[c] = state[c]
  /\ at'[c] = at[c] \/ state[c] = "new"
  /\ \/ after'[c] = after[c]
     \/ state[c] = "new" /\ Quiet /\ after'[c] \subseteq {b \in Calls : state[b] \in Ended}
  /\ state'[c] = "new" => state[c] = "new" /\ after'[c] = after[c]

PutMoves(p) ==
  /\ state'[p] \in {"new", "wait", "open"} => state[p] \in {"new", "wait", "open"}
  /\ state'[p] \in {"done", "ok"} =>
       state[p] \in {"done", "ok"} \/ Write(p) \/ \E t \in 1 .. 2 : Execute(p, t)

\* A consume that answers None, or is going to, because there was nothing.
EmptyHanded(g) == state[g] = "none" \/ (state[g] = "done" /\ answer[g] = Nothing)

GetMoves(g) ==
  /\ state'[g] \in {"new", "wait", "read"} => state[g] \in {"new", "wait", "read"}
  /\ state'[g] = "cut" =>
       lines'[g] = lines[g] /\ (state[g] = "cut" \/ Truncate(g))
  /\ state'[g] = "ok" => /\ answer'[g] = answer[g]
                         /\ state[g] = "ok" \/ (state[g] = "done" /\ answer[g] # Nothing)
  /\ answer'[g] # Nothing =>
       \/ /\ answer'[g] = answer[g]
          /\ state[g] \in {"done", "ok"} => state'[g] \in {"done", "ok"}
       \/ /\ Rewrite(g) /\ state'[g] = "done"
          /\ answer'[g] = Said(Head(lines[g]), at[g])
       \/ \E t \in 1 .. 2 : Execute(g, t) /\ answer'[g] # answer[g]
  /\ EmptyHanded(g)' =>
       \/ EmptyHanded(g)
       \/ mode = "file" /\ state[g] \in {"new", "read"} /\ state'[g] = "none"
       \/ \E t \in 1 .. 2 : Execute(g, t) /\ state[g] = "sent"

AllMove == /\ \A c \in Calls : CallMoves(c)
           /\ \A p \in Puts : PutMoves(p)
           /\ \A g \in Gets : GetMoves(g)

LEMMA CallStep ==
  ASSUME FileInv, FileInv', [Next]_vars
  PROVE  AllMove
<1>t. /\ mode \in {"redis", "file"} /\ state \in [Calls -> States]
      /\ at \in [Calls -> Nodes \cup {Nothing}]
      /\ after \in [Calls -> SUBSET Calls]
      /\ lines \in [Gets -> Seq(AllLines)] /\ answer \in [Gets -> Answers \cup {Nothing}]
  BY DEF FileInv, TypeOK, States
<1>c. Calls = Puts \cup Gets /\ Puts \cap Gets = {} /\ \A c : Same(c) \subseteq Calls
  BY QueueAssumption DEF Calls, Same
<1>p. Placed
  BY DEF FileInv
<1>. USE DEF Goes, Asks, HasLock, redisVars, fileVars, callVars, Ended,
             AllMove, CallMoves, PutMoves, GetMoves, EmptyHanded
<1>1. ASSUME NEW c \in Calls, NEW n \in Nodes, SendFirst(c, n) PROVE AllMove
  BY <1>1, <1>t, <1>c DEF SendFirst, Quiet
<1>2. ASSUME NEW c \in Calls, NEW n \in Nodes, AskLock(c, n) PROVE AllMove
  BY <1>2, <1>t, <1>c DEF AskLock, Quiet
<1>3. ASSUME NEW g \in Gets, NEW n \in Nodes, NoFile(g, n) PROVE AllMove
  BY <1>3, <1>t, <1>c DEF NoFile, Quiet
<1>4. ASSUME NEW p \in Puts, Open(p) PROVE AllMove
  BY <1>4, <1>t, <1>c DEF Open
<1>5. ASSUME NEW p \in Puts, Write(p) PROVE AllMove
  BY <1>5, <1>t, <1>c DEF Write
<1>6. ASSUME NEW g \in Gets, Read(g) \/ ReadNothing(g) PROVE AllMove
  BY <1>6, <1>t, <1>c DEF Read, ReadNothing
<1>7. ASSUME NEW g \in Gets, Truncate(g) PROVE AllMove
  BY <1>7, <1>t, <1>c DEF Truncate
<1>8. ASSUME NEW g \in Gets, Rewrite(g) PROVE AllMove
  <2>1. answer'[g] # Nothing
    <3>1. Head(lines[g]) \in AllLines /\ lines[g] # << >>
      BY <1>8, <1>t DEF Rewrite, FileInv, ReadRight
    <3>2. answer'[g] = Said(Head(lines[g]), at[g])
      BY <1>8, <1>t DEF Rewrite
    <3>3. QED
      BY <3>1, <3>2, QueueAssumption DEF Said, Answers
  <2>2. QED
    BY <1>8, <1>t, <1>c, <2>1 DEF Rewrite
<1>9. ASSUME NEW g \in Gets, RewriteFails(g) PROVE AllMove
  BY <1>9, <1>t, <1>c DEF RewriteFails
<1>10. ASSUME NEW c \in Calls, Return(c) PROVE AllMove
  BY <1>10, <1>t, <1>c DEF Return
<1>11. ASSUME NEW c \in Calls, Fail(c) PROVE AllMove
  BY <1>11, <1>t, <1>c DEF Fail, Failed
<1>12. ASSUME NEW c \in Calls, SendAgain(c) PROVE AllMove
  BY <1>12, <1>t, <1>c DEF SendAgain
<1>13. ASSUME NEW c \in Calls, NEW t \in 1 .. 2, Execute(c, t) PROVE AllMove
  <2>1. UNCHANGED <<at, after, lines>>
    BY <1>13 DEF Execute
  <2>2. \/ state' = state
        \/ state[c] = "sent" /\ state' = [state EXCEPT ![c] = "done"]
    BY <1>13 DEF Execute
  <2>3. \/ answer' = answer
        \/ c \in Gets /\ \E l : answer' = [answer EXCEPT ![c] = l]
    BY <1>13, <1>c DEF Execute, PushText, PopLine
  <2>4. (\A b \in Calls : CallMoves(b)) /\ (\A p \in Puts : PutMoves(p))
    BY <1>13, <1>t, <1>c, <2>1, <2>2
  <2>5. ASSUME NEW g \in Gets PROVE GetMoves(g)
    <3>1. \/ state'[g] = state[g]
          \/ g = c /\ state[g] = "sent" /\ state'[g] = "done"
      BY <1>t, <1>c, <2>2
    <3>2. answer'[g] = answer[g] \/ g = c
      BY <1>t, <2>3
    <3>3. state[g] = "ok" => answer'[g] = answer[g]
      <4>1. state[c] # "sent" => answer' = answer
        BY <1>13, <1>c DEF Execute, PushText, PopLine
      <4>2. QED
        BY <3>2, <4>1
    <3>4. EmptyHanded(g)' => EmptyHanded(g) \/ (g = c /\ state[g] = "sent")
      <4>1. state[c] # "sent" => answer' = answer
        BY <1>13, <1>c DEF Execute, PushText, PopLine
      <4>2. QED
        BY <3>1, <3>2, <4>1
    <3>5. QED
      BY <1>13, <2>1, <3>1, <3>2, <3>3, <3>4
  <2>6. QED
    BY <2>4, <2>5
<1>14. ASSUME NEW n \in Nodes, Restart(n) PROVE AllMove
  BY <1>14, <1>t, <1>c DEF Restart
<1>15. CASE UNCHANGED vars
  BY <1>15, <1>t, <1>c DEF vars
<1>16. QED
  BY <1>1, <1>2, <1>3, <1>4, <1>5, <1>6, <1>7, <1>8, <1>9, <1>10, <1>11, <1>12,
     <1>13, <1>14, <1>15 DEF Next, FileStep, Finish

-----------------------------------------------------------------------------
(* What is accounted for: c does at most what was sent for it. *)

\* The commands of c that are on the way.
Pending(c) == {t \in 1 .. 2 : <<c, t>> \in wire}

Counted(c, X) == IsFiniteSet(X) /\ Cardinality(X) + Cardinality(Pending(c)) <= Sent(c)

WireRight == \A c \in Calls :
  /\ \A t \in Pending(c) : t <= try[c]
  /\ state[c] = "new" => try[c] = 0

\* A command is sent, and counted, or executed and no longer on the way.
WireMoves(c) ==
  \/ try'[c] = try[c] /\ Pending(c)' = Pending(c)
  \/ /\ mode = "redis" /\ try'[c] = try[c] + 1
     /\ state'[c] = "sent"
     /\ \E t \in 1 .. 2 : Pending(c)' = Pending(c) \cup {t}
  \/ /\ try'[c] = try[c]
     /\ \E t \in Pending(c) : Pending(c)' = Pending(c) \ {t}

LEMMA PendingFinite ==
  ASSUME NEW c
  PROVE  IsFiniteSet(Pending(c)) /\ Cardinality(Pending(c)) \in Nat
<1>1. IsFiniteSet(1 .. 2)
  <2>1. ASSUME NEW n \in Nat PROVE IsFiniteSet(1 .. n)
    BY FS_Interval
  <2>2. QED
    BY <2>1
<1>2. QED
  BY <1>1, FS_Subset, FS_CardinalityType DEF Pending

LEMMA ExecuteSpends ==
  ASSUME FileInv, NEW c \in Calls, NEW t \in 1 .. 2, Execute(c, t)
  PROVE  /\ mode = "redis" /\ try' = try
         /\ t \in Pending(c) /\ Pending(c)' = Pending(c) \ {t}
         /\ \A b \in Calls \ {c} : Pending(b)' = Pending(b)
BY DEF Execute, Pending, FileInv, Placed, TypeOK

LEMMA WireStep ==
  ASSUME FileInv, FileInv', WireRight, [Next]_vars
  PROVE  WireRight' /\ mode' = mode /\ \A c \in Calls : WireMoves(c)
<1>t. /\ state \in [Calls -> States] /\ try \in [Calls -> 0 .. 2]
      /\ wire \subseteq Calls \X (1 .. 2)
  BY DEF FileInv, TypeOK, States
<1>. DEFINE Goal == WireRight' /\ mode' = mode /\ \A c \in Calls : WireMoves(c)
<1>1. ASSUME NEW c \in Calls, NEW n \in Nodes, SendFirst(c, n) PROVE Goal
  <2>1. /\ try[c] = 0 /\ try' = [try EXCEPT ![c] = 1] /\ mode = "redis" /\ mode' = mode
        /\ wire' = wire \cup {<<c, 1>>} /\ state' = [state EXCEPT ![c] = "sent"]
    BY <1>1 DEF SendFirst, Asks, Goes, WireRight
  <2>2. Pending(c)' = Pending(c) \cup {1} /\ \A b \in Calls \ {c} : Pending(b)' = Pending(b)
    BY <2>1 DEF Pending
  <2>3. /\ try'[c] = try[c] + 1 /\ state'[c] = "sent"
        /\ \A b \in Calls \ {c} : try'[b] = try[b] /\ state'[b] = state[b]
    BY <1>t, <2>1
  <2>4. WireRight'
    <3>1. \A t \in Pending(c)' : t <= try'[c]
      <4>1. \A t \in Pending(c) : t \in 1 .. 2 /\ t <= try[c]
        BY DEF Pending, WireRight
      <4>2. QED
        BY <1>t, <2>1, <2>2, <2>3, <4>1
    <3>2. QED
      BY <2>2, <2>3, <3>1 DEF WireRight
  <2>5. QED
    BY <2>1, <2>2, <2>3, <2>4 DEF WireMoves
<1>2. ASSUME NEW c \in Calls, SendAgain(c) PROVE Goal
  <2>1. /\ try[c] = 1 /\ try' = [try EXCEPT ![c] = 2] /\ mode = "redis" /\ mode' = mode
        /\ wire' = wire \cup {<<c, 2>>} /\ state' = [state EXCEPT ![c] = "sent"]
    BY <1>2 DEF SendAgain, Goes
  <2>2. Pending(c)' = Pending(c) \cup {2} /\ \A b \in Calls \ {c} : Pending(b)' = Pending(b)
    BY <2>1 DEF Pending
  <2>3. /\ try'[c] = try[c] + 1 /\ state'[c] = "sent"
        /\ \A b \in Calls \ {c} : try'[b] = try[b] /\ state'[b] = state[b]
    BY <1>t, <2>1
  <2>4. WireRight'
    <3>1. \A t \in Pending(c)' : t <= try'[c]
      <4>1. \A t \in Pending(c) : t \in 1 .. 2 /\ t <= try[c]
        BY DEF Pending, WireRight
      <4>2. QED
        BY <1>t, <2>1, <2>2, <2>3, <4>1
    <3>2. QED
      BY <2>2, <2>3, <3>1 DEF WireRight
  <2>5. QED
    BY <2>1, <2>2, <2>3, <2>4 DEF WireMoves
<1>3. ASSUME NEW c \in Calls, NEW t \in 1 .. 2, Execute(c, t) PROVE Goal
  <2>1. mode' = mode /\ \A b \in Calls : state'[b] = "new" => state[b] = "new"
    BY <1>3, <1>t DEF Execute, Goes
  <2>2. QED
    BY <1>3, <1>t, <2>1, ExecuteSpends DEF WireRight, WireMoves
<1>4. ASSUME UNCHANGED <<mode, try, wire>> PROVE Goal
  <2>1. \A c \in Calls : Pending(c)' = Pending(c)
    BY <1>4 DEF Pending
  <2>2. \A c \in Calls : state'[c] = "new" => state[c] = "new"
    BY CallStep DEF AllMove, CallMoves
  <2>3. QED
    BY <1>4, <2>1, <2>2 DEF WireRight, WireMoves
<1>5. ASSUME NEW c \in Calls, NEW n \in Nodes, AskLock(c, n) \/ (c \in Gets /\ NoFile(c, n))
      PROVE  Goal
  BY <1>4, <1>5 DEF AskLock, NoFile, redisVars
<1>6. ASSUME NEW c \in Calls, FileStep(c) \/ Finish(c) PROVE Goal
  BY <1>4, <1>6 DEF FileStep, Finish, Open, Write, Read, ReadNothing, Truncate, Rewrite,
                    RewriteFails, Return, Fail, redisVars
<1>7. ASSUME NEW n \in Nodes, Restart(n) PROVE Goal
  BY <1>4, <1>7 DEF Restart, redisVars
<1>8. CASE UNCHANGED vars
  BY <1>4, <1>8 DEF vars, redisVars
<1>9. QED
  BY <1>1, <1>2, <1>3, <1>5, <1>6, <1>7, <1>8 DEF Next, Calls

\* What c has done does not grow: it remains within its limit.
LEMMA CountStays ==
  ASSUME FileInv, FileInv', NEW c \in Calls, NEW X, NEW Y, Y \subseteq X,
         Counted(c, X), WireMoves(c), mode' = mode
  PROVE  IsFiniteSet(Y) /\ Cardinality(Y) + Cardinality(Pending(c)') <= Sent(c)'
<1>1. /\ IsFiniteSet(X) /\ IsFiniteSet(Y) /\ Cardinality(Y) <= Cardinality(X)
      /\ Cardinality(X) \in Nat /\ Cardinality(Y) \in Nat
  BY FS_Subset, FS_CardinalityType DEF Counted
<1>2. /\ IsFiniteSet(Pending(c)) /\ Cardinality(Pending(c)) \in Nat
      /\ try[c] \in Nat /\ try'[c] \in Nat
  <2>1. try \in [Calls -> 0 .. 2] /\ try' \in [Calls -> 0 .. 2]
    BY DEF FileInv, TypeOK
  <2>2. QED
    BY <2>1, PendingFinite
<1>3. CASE try'[c] = try[c] /\ Pending(c)' = Pending(c)
  BY <1>1, <1>2, <1>3 DEF Counted, Sent
<1>4. CASE /\ mode = "redis" /\ try'[c] = try[c] + 1
           /\ \E t \in 1 .. 2 : Pending(c)' = Pending(c) \cup {t}
  <2>1. /\ Cardinality(Pending(c)') \in Nat
        /\ Cardinality(Pending(c)') <= Cardinality(Pending(c)) + 1
    BY <1>2, <1>4, FS_AddElement
  <2>2. QED
    BY <1>1, <1>2, <1>4, <2>1 DEF Counted, Sent
<1>5. CASE /\ try'[c] = try[c]
           /\ \E t \in Pending(c) : Pending(c)' = Pending(c) \ {t}
  <2>1. /\ Cardinality(Pending(c)') \in Nat
        /\ Cardinality(Pending(c)') <= Cardinality(Pending(c))
    <3>1. PICK t \in Pending(c) : Pending(c)' = Pending(c) \ {t}
      BY <1>5
    <3>2. /\ IsFiniteSet(Pending(c) \ {t})
          /\ Cardinality(Pending(c) \ {t}) = Cardinality(Pending(c)) - 1
      BY <1>2, <3>1, FS_RemoveElement
    <3>3. Cardinality(Pending(c) \ {t}) \in Nat
      BY <3>2, FS_CardinalityType
    <3>4. QED
      BY <1>2, <3>1, <3>2, <3>3
  <2>2. QED
    BY <1>1, <1>2, <1>5, <2>1 DEF Counted, Sent
<1>6. QED
  BY <1>3, <1>4, <1>5 DEF WireMoves

\* One more is within the limit of a command that was on the way, or of the first.
LEMMA CountGrows ==
  ASSUME FileInv, FileInv', NEW c \in Calls, NEW X, NEW x, Counted(c, X), mode' = mode,
         (\E t \in 1 .. 2 : Execute(c, t)) \/ (mode = "file" /\ X = {})
  PROVE  /\ IsFiniteSet(X \cup {x})
         /\ Cardinality(X \cup {x}) + Cardinality(Pending(c)') <= Sent(c)'
<1>1. /\ IsFiniteSet(X) /\ IsFiniteSet(X \cup {x})
      /\ Cardinality(X) \in Nat /\ Cardinality(X \cup {x}) \in Nat
      /\ Cardinality(X \cup {x}) <= Cardinality(X) + 1
  <2>1. IsFiniteSet(X)
    BY DEF Counted
  <2>2. /\ IsFiniteSet(X \cup {x}) /\ Cardinality(X) \in Nat
        /\ Cardinality(X \cup {x}) = IF x \in X THEN Cardinality(X) ELSE Cardinality(X) + 1
    BY <2>1, FS_AddElement, FS_CardinalityType
  <2>3. QED
    BY <2>1, <2>2
<1>2. CASE \E t \in 1 .. 2 : Execute(c, t)
  <2>1. PICK t \in 1 .. 2 : Execute(c, t)
    BY <1>2
  <2>2. /\ mode = "redis" /\ try' = try
        /\ t \in Pending(c) /\ Pending(c)' = Pending(c) \ {t}
    BY <2>1, ExecuteSpends
  <2>3. /\ IsFiniteSet(Pending(c)) /\ Cardinality(Pending(c)) \in Nat
        /\ Cardinality(Pending(c) \ {t}) = Cardinality(Pending(c)) - 1
    BY <2>2, PendingFinite, FS_RemoveElement
  <2>4. try \in [Calls -> 0 .. 2]
    BY DEF FileInv, TypeOK
  <2>5. QED
    BY <1>1, <2>2, <2>3, <2>4 DEF Counted, Sent
<1>3. CASE mode = "file" /\ X = {}
  <2>1. Pending(c)' = {}
    BY <1>3 DEF Pending, FileInv, Placed
  <2>2. Cardinality(X) = 0 /\ Cardinality(Pending(c)') = 0
    BY <1>3, <2>1, FS_EmptySet
  <2>3. QED
    BY <1>1, <1>3, <2>2 DEF Sent
<1>4. QED
  BY <1>2, <1>3

LEMMA TornGrows ==
  ASSUME [Next]_vars
  PROVE  torn \subseteq torn'
<1>1. ASSUME NEW c \in Calls, FileStep(c) \/ Finish(c) PROVE torn \subseteq torn'
  BY <1>1 DEF FileStep, Finish, Open, Write, Read, ReadNothing, Truncate, Rewrite,
              RewriteFails, Return, Fail, fileVars
<1>2. ASSUME NEW c \in Calls, NEW n \in Nodes,
             SendFirst(c, n) \/ AskLock(c, n) \/ NoFile(c, n)
      PROVE  torn \subseteq torn'
  BY <1>2 DEF SendFirst, AskLock, NoFile, fileVars
<1>3. ASSUME NEW c \in Calls, NEW t \in 1 .. 2, Execute(c, t) PROVE torn \subseteq torn'
  BY <1>3 DEF Execute, fileVars
<1>4. ASSUME NEW n \in Nodes, Restart(n) PROVE torn \subseteq torn'
  BY <1>4 DEF Restart, fileVars
<1>5. CASE UNCHANGED vars
  BY <1>5 DEF vars, fileVars
<1>6. ASSUME NEW c \in Calls, SendAgain(c) PROVE torn \subseteq torn'
  BY <1>6 DEF SendAgain, fileVars
<1>7. QED
  BY <1>1, <1>2, <1>3, <1>4, <1>5, <1>6 DEF Next, Calls

\* A message that was put is in its topic, or has been lost with a rewrite, and
\* is not there more often than it was sent.
PutsRight == \A p \in Puts, q \in Places :
  /\ Counted(p, Copies(First(p), q))
  /\ state[p] \in {"new", "wait", "open"} \/ q # Place(at[p]) => Copies(First(p), q) = {}
  /\ state[p] \in {"done", "ok"} /\ q = Place(at[p]) =>
       Copies(First(p), q) # {} \/ q \in torn

LEMMA PutsStep ==
  ASSUME FileInv, FileInv', WireRight, PutsRight, [Next]_vars
  PROVE  PutsRight'
<1>. SUFFICES ASSUME NEW p \in Puts, NEW q \in Places
              PROVE  /\ Counted(p, Copies(First(p), q))'
                     /\ (state[p] \in {"new", "wait", "open"} \/ q # Place(at[p])
                           => Copies(First(p), q) = {})'
                     /\ (state[p] \in {"done", "ok"} /\ q = Place(at[p])
                           => Copies(First(p), q) # {} \/ q \in torn)'
  BY DEF PutsRight
<1>. DEFINE X == Copies(First(p), q)
<1>c. p \in Calls /\ p \notin Gets /\ mode \in {"redis", "file"}
  BY QueueAssumption DEF Calls, FileInv, TypeOK
<1>w. mode' = mode /\ WireMoves(p) /\ CallMoves(p) /\ PutMoves(p)
  BY <1>c, WireStep, CallStep DEF AllMove
<1>i. /\ Counted(p, X)
      /\ state[p] \in {"new", "wait", "open"} \/ q # Place(at[p]) => X = {}
      /\ state[p] \in {"done", "ok"} /\ q = Place(at[p]) => X # {} \/ q \in torn
  BY DEF PutsRight
<1>p. Place(at[p])' = Place(at[p]) \/ state[p] = "new"
  BY <1>w DEF Place, CallMoves
\* Who writes is where it writes, and writes one more copy.
<1>n. ASSUME Pushes(p, q)
      PROVE  /\ X' = X \cup {Len(Through(q)) + 1}
             /\ q = Place(at[p])' /\ state'[p] \notin {"new", "wait", "open"}
             /\ (\E t \in 1 .. 2 : Execute(p, t)) \/ (mode = "file" /\ X = {})
  <2>1. CASE q = Redis /\ \E t \in 1 .. 2 : Execute(p, t)
    <3>1. PICK t \in 1 .. 2 : Execute(p, t)
      BY <2>1
    <3>2. mode = "redis" /\ Enters(p, q)
      BY <1>c, <2>1, <3>1, ExecuteStep
    <3>3. state[p] # "new"
      BY <1>c, <3>1, ExecuteSpends DEF WireRight
    <3>4. state'[p] \notin {"new", "wait", "open"}
      BY <1>c, <1>w, <3>2, <3>3 DEF FileInv, Placed, PutMoves, Ended
    <3>5. QED
      BY <1>w, <2>1, <3>1, <3>2, <3>4, EntersCopies DEF Place
  <2>2. CASE q = at[p] /\ Write(p)
    <3>1. Enters(p, q) /\ mode = "file" /\ mode' = mode
      BY <2>2, WriteStep DEF Write, HasLock
    <3>2. state[p] = "open" /\ state'[p] = "done" /\ at'[p] = at[p]
      BY <1>c, <2>2 DEF Write, HasLock, Goes, FileInv, TypeOK
    <3>3. QED
      BY <1>i, <2>2, <3>1, <3>2, EntersCopies DEF Place
  <2>3. QED
    BY <1>n, <2>1, <2>2 DEF Pushes
<1>1. \/ X' = X
      \/ X' = X \cup {Len(Through(q)) + 1} /\ Pushes(p, q)
      \/ X' \subseteq X /\ q \in torn'
  <2>1. CASE SameLines(q)
    BY <2>1 DEF SameLines
  <2>2. CASE FewerLines(q)
    BY <2>2 DEF FewerLines
  <2>3. ASSUME NEW r \in Puts, Pushes(r, q), NewLine(r, q)
        PROVE  X' = X \/ (X' = X \cup {Len(Through(q)) + 1} /\ Pushes(p, q))
    BY <2>3 DEF NewLine
  <2>4. QED
    BY <2>1, <2>2, <2>3, TopicMoves DEF TopicMoved
<1>2. Counted(p, X)'
  <2>1. CASE X' \subseteq X
    BY <1>c, <1>i, <1>w, <2>1, CountStays DEF Counted
  <2>2. CASE X' = X \cup {Len(Through(q)) + 1} /\ Pushes(p, q)
    <3>1. (\E t \in 1 .. 2 : Execute(p, t)) \/ (mode = "file" /\ X = {})
      BY <1>n, <2>2
    <3>. DEFINE Y == X \cup {Len(Through(q)) + 1}
    <3>2. IsFiniteSet(Y) /\ Cardinality(Y) + Cardinality(Pending(p)') <= Sent(p)'
      BY <1>c, <1>i, <1>w, <3>1, CountGrows
    <3>3. QED
      BY <2>2, <3>2 DEF Counted
  <2>3. QED
    BY <1>1, <2>1, <2>2
<1>3. (state[p] \in {"new", "wait", "open"} \/ q # Place(at[p]) => X = {})'
  BY <1>1, <1>i, <1>n, <1>p, <1>w DEF PutMoves
<1>4. (state[p] \in {"done", "ok"} /\ q = Place(at[p]) => X # {} \/ q \in torn)'
  <2>. SUFFICES ASSUME state'[p] \in {"done", "ok"}, q = Place(at[p])'
                PROVE  X' # {} \/ q \in torn'
    OBVIOUS
  <2>1. CASE state[p] \in {"done", "ok"}
    BY <1>1, <1>i, <1>p, <2>1, TornGrows
  <2>2. CASE state[p] \notin {"done", "ok"}
    <3>1. Pushes(p, q)
      <4>1. CASE Write(p)
        BY <1>w, <4>1 DEF Write, HasLock, Pushes, Place
      <4>2. ASSUME NEW t \in 1 .. 2, Execute(p, t) PROVE Pushes(p, q)
        BY <1>c, <1>w, <4>2, ExecuteStep DEF Pushes, Place
      <4>3. QED
        BY <1>w, <2>2, <4>1, <4>2 DEF PutMoves
    <3>2. QED
      BY <1>n, <3>1
  <2>3. QED
    BY <2>1, <2>2
<1>5. QED
  BY <1>2, <1>3, <1>4

Took(g, q, l) == \E i \in Takes(g, q) : out[q][i].line = l
Gave(g, q)    == \E i \in Takes(g, q) : Said(out[q][i].line, q) = answer[g]

\* A consume takes what it answers, and no more than it was sent.
GetsRight == \A g \in Gets, q \in Places :
  /\ Counted(g, Takes(g, q))
  /\ state[g] \in {"new", "wait", "read"} \/ q # Place(at[g]) => Takes(g, q) = {}
  /\ answer[g] # Nothing =>
       state[g] \in {"done", "ok"} /\ (q = Place(at[g]) => Gave(g, q))
  /\ state[g] = "cut" /\ q = Place(at[g]) => Took(g, q, Head(lines[g]))
  /\ state[g] = "ok" => answer[g] # Nothing

LEMMA TakesStep ==
  ASSUME FileInv, FileInv', [Next]_vars, NEW q \in Places, NEW g \in Gets
  PROVE  /\ \/ Takes(g, q)' = Takes(g, q)
            \/ /\ Pops(g, q)
               /\ Takes(g, q)' = Takes(g, q) \cup {Len(out[q]) + 1}
         /\ \A i \in Takes(g, q) : i \in Takes(g, q)' /\ out'[q][i] = out[q][i]
<1>1. CASE out'[q] = out[q]
  BY <1>1 DEF Takes
<1>2. ASSUME NEW h \in Gets, Pops(h, q), Leaves(h, q)
      PROVE  /\ \/ Takes(g, q)' = Takes(g, q)
                \/ /\ Pops(g, q)
                   /\ Takes(g, q)' = Takes(g, q) \cup {Len(out[q]) + 1}
             /\ \A i \in Takes(g, q) : i \in Takes(g, q)' /\ out'[q][i] = out[q][i]
  <2>1. CASE h = g
    BY <1>2, <2>1, LeavesTakes
  <2>2. CASE h # g
    BY <1>2, <2>2, LeavesTakes
  <2>3. QED
    BY <2>1, <2>2
<1>3. QED
  BY <1>1, <1>2, TopicMoves DEF TopicMoved

\* Who takes a line has taken that line.
LEMMA TakesLine ==
  ASSUME FileInv, FileInv', NEW q \in Places, NEW g \in Gets, Leaves(g, q)
  PROVE  \E i \in Takes(g, q)' : out'[q][i].line = Head(Items(q))
<1>1. /\ Len(out[q]) + 1 \in Takes(g, q)'
      /\ out'[q][Len(out[q]) + 1].line = Head(Items(q))
  BY LeavesTakes
<1>2. QED
  BY <1>1

LEMMA GetsStep ==
  ASSUME FileInv, FileInv', WireRight, GetsRight, [Next]_vars
  PROVE  GetsRight'
<1>. SUFFICES ASSUME NEW g \in Gets, NEW q \in Places
              PROVE  /\ Counted(g, Takes(g, q))'
                     /\ (state[g] \in {"new", "wait", "read"} \/ q # Place(at[g])
                           => Takes(g, q) = {})'
                     /\ (answer[g] # Nothing =>
                           /\ state[g] \in {"done", "ok"}
                           /\ q = Place(at[g]) => Gave(g, q))'
                     /\ (state[g] = "cut" /\ q = Place(at[g])
                           => Took(g, q, Head(lines[g])))'
                     /\ (state[g] = "ok" => answer[g] # Nothing)'
  BY DEF GetsRight
<1>. DEFINE X == Takes(g, q)
<1>c. g \in Calls /\ g \notin Puts /\ mode \in {"redis", "file"}
  BY QueueAssumption DEF Calls, FileInv, TypeOK
<1>w. mode' = mode /\ WireMoves(g) /\ CallMoves(g) /\ GetMoves(g)
  BY <1>c, WireStep, CallStep DEF AllMove
<1>i. /\ Counted(g, X)
      /\ state[g] \in {"new", "wait", "read"} \/ q # Place(at[g]) => X = {}
      /\ answer[g] # Nothing =>
           state[g] \in {"done", "ok"} /\ (q = Place(at[g]) => Gave(g, q))
      /\ state[g] = "cut" /\ q = Place(at[g]) => Took(g, q, Head(lines[g]))
      /\ state[g] = "ok" => answer[g] # Nothing
  BY DEF GetsRight
<1>p. Place(at[g])' = Place(at[g]) \/ state[g] = "new"
  BY <1>w DEF Place, CallMoves
<1>k. \A l : Took(g, q, l) => \E i \in X' : out'[q][i].line = l
  BY TakesStep DEF Took
<1>m. Gave(g, q) => \E i \in X' : Said(out'[q][i].line, q) = answer[g]
  BY TakesStep DEF Gave
<1>e. ASSUME NEW t \in 1 .. 2, Execute(g, t)
      PROVE  /\ mode = "redis" /\ Place(at[g])' = Redis
             /\ state'[g] \notin {"new", "wait", "read"}
  <2>1. mode = "redis" /\ state[g] # "new"
    BY <1>c, <1>e, ExecuteSpends DEF WireRight
  <2>2. state'[g] \notin {"new", "wait", "read"}
    BY <1>c, <1>w, <2>1 DEF FileInv, Placed, GetMoves, Ended
  <2>3. QED
    BY <1>w, <2>1, <2>2 DEF Place
\* Who takes a line from q is served by q, and may take it.
<1>n. ASSUME Pops(g, q)
      PROVE  /\ q = Place(at[g])' /\ state'[g] \notin {"new", "wait", "read"}
             /\ (\E t \in 1 .. 2 : Execute(g, t)) \/ (mode = "file" /\ X = {})
  <2>1. CASE q = Redis /\ \E t \in 1 .. 2 : Execute(g, t)
    BY <1>e, <2>1
  <2>2. CASE q = at[g] /\ Truncate(g)
    <3>1. mode = "file" /\ state[g] = "read" /\ state'[g] = "cut" /\ at'[g] = at[g]
      BY <1>c, <2>2 DEF Truncate, HasLock, Goes, FileInv, TypeOK
    <3>2. QED
      BY <1>i, <1>w, <2>2, <3>1 DEF Place
  <2>3. QED
    BY <1>n, <2>1, <2>2 DEF Pops
<1>1. X' = X \/ (X' = X \cup {Len(out[q]) + 1} /\ Pops(g, q))
  BY TakesStep
<1>2. Counted(g, X)'
  <2>1. CASE X' = X
    BY <1>c, <1>i, <1>w, <2>1, CountStays DEF Counted
  <2>2. CASE X' = X \cup {Len(out[q]) + 1} /\ Pops(g, q)
    <3>1. (\E t \in 1 .. 2 : Execute(g, t)) \/ (mode = "file" /\ X = {})
      BY <1>n, <2>2
    <3>. DEFINE Y == X \cup {Len(out[q]) + 1}
    <3>2. IsFiniteSet(Y) /\ Cardinality(Y) + Cardinality(Pending(g)') <= Sent(g)'
      BY <1>c, <1>i, <1>w, <3>1, CountGrows
    <3>3. QED
      BY <2>2, <3>2 DEF Counted
  <2>3. QED
    BY <1>1, <2>1, <2>2
<1>3. (state[g] \in {"new", "wait", "read"} \/ q # Place(at[g]) => X = {})'
  BY <1>1, <1>i, <1>n, <1>p, <1>w DEF GetMoves
<1>4. (answer[g] # Nothing =>
         /\ state[g] \in {"done", "ok"}
         /\ q = Place(at[g]) => Gave(g, q))'
  <2>. SUFFICES ASSUME answer'[g] # Nothing
                PROVE  /\ state'[g] \in {"done", "ok"}
                       /\ q = Place(at[g])' =>
                            \E i \in X' : Said(out'[q][i].line, q) = answer'[g]
    BY DEF Gave
  <2>1. CASE answer'[g] = answer[g]
    <3>1. state[g] \in {"done", "ok"} /\ (q = Place(at[g]) => Gave(g, q))
      BY <1>i, <2>1
    <3>2. CASE state'[g] \in {"done", "ok"}
      BY <1>m, <1>p, <2>1, <3>1, <3>2
    <3>3. CASE state'[g] \notin {"done", "ok"}
      <4>1. \E t \in 1 .. 2 : Execute(g, t) /\ answer'[g] # answer[g]
        BY <1>w, <2>1, <3>1, <3>3 DEF GetMoves
      <4>2. QED
        BY <2>1, <4>1
    <3>4. QED
      BY <3>2, <3>3
  <2>2. CASE /\ Rewrite(g) /\ state'[g] = "done"
             /\ answer'[g] = Said(Head(lines[g]), at[g])
    <3>1. state[g] = "cut" /\ mode = "file"
      BY <2>2 DEF Rewrite, HasLock
    <3>2. Place(at[g]) = at[g]
      BY <3>1 DEF Place
    <3>3. QED
      BY <1>i, <1>k, <1>p, <2>2, <3>1, <3>2
  <2>3. ASSUME NEW t \in 1 .. 2, Execute(g, t), answer'[g] # answer[g]
        PROVE  /\ state'[g] \in {"done", "ok"}
               /\ q = Place(at[g])' =>
                    \E i \in X' : Said(out'[q][i].line, q) = answer'[g]
    <3>1. /\ Leaves(g, Redis) /\ state[g] = "sent" /\ try[g] = t
          /\ answer' = [answer EXCEPT ![g] = Head(Items(Redis))]
      BY <1>c, <2>3, ExecuteStep
    <3>2. state'[g] = "done" /\ answer'[g] = Head(Items(Redis))
      BY <1>c, <2>3, <3>1 DEF Execute, Goes, FileInv, TypeOK
    <3>3. \E i \in Takes(g, Redis)' : out'[Redis][i].line = Head(Items(Redis))
      BY <3>1, TakesLine DEF Places
    <3>4. QED
      BY <1>e, <2>3, <3>2, <3>3 DEF Said
  <2>4. QED
    BY <1>w, <2>1, <2>2, <2>3 DEF GetMoves
<1>5. (state[g] = "cut" /\ q = Place(at[g]) => Took(g, q, Head(lines[g])))'
  <2>. SUFFICES ASSUME state'[g] = "cut", q = Place(at[g])'
                PROVE  \E i \in X' : out'[q][i].line = Head(lines'[g])
    BY DEF Took
  <2>1. lines'[g] = lines[g] /\ (state[g] = "cut" \/ Truncate(g))
    BY <1>w DEF GetMoves
  <2>2. CASE state[g] = "cut"
    BY <1>i, <1>k, <1>p, <2>1, <2>2
  <2>3. CASE Truncate(g)
    <3>1. /\ Leaves(g, at[g]) /\ Head(lines[g]) = Head(Items(at[g]))
          /\ at[g] \in Places /\ q = at[g]
      BY <1>p, <1>w, <2>3, TruncateStep DEF Places, Place, Truncate, HasLock
    <3>2. QED
      BY <2>1, <3>1, TakesLine
  <2>4. QED
    BY <2>1, <2>2, <2>3
<1>6. (state[g] = "ok" => answer[g] # Nothing)'
  BY <1>i, <1>w DEF GetMoves
<1>7. QED
  BY <1>2, <1>3, <1>4, <1>5, <1>6

\* For a consume that found nothing a command has been executed in vain: it takes
\* less than was sent for it, and so it will be.
Spares(g) ==
  Cardinality(Takes(g, Place(at[g]))) + Cardinality(Pending(g)) < Sent(g)

NonesRight == \A g \in Gets : EmptyHanded(g) => Spares(g)

LEMMA NonesStep ==
  ASSUME FileInv, FileInv', WireRight, GetsRight, NonesRight, [Next]_vars
  PROVE  NonesRight'
<1>. SUFFICES ASSUME NEW g \in Gets, EmptyHanded(g)' PROVE Spares(g)'
  BY DEF NonesRight
<1>c. g \in Calls /\ g \notin Puts
  BY QueueAssumption DEF Calls
<1>w. mode' = mode /\ WireMoves(g) /\ CallMoves(g) /\ GetMoves(g)
  BY <1>c, WireStep, CallStep DEF AllMove
<1>s. state'[g] \in {"none", "done"}
  BY DEF EmptyHanded
<1>q. PICK q \in Places : q = Place(at[g])'
  BY <1>c, <1>s DEF Place, Places, FileInv, Placed
<1>. DEFINE X == Takes(g, q)
            n == Cardinality(Takes(g, q))
            k == Cardinality(Pending(g))
<1>n. Counted(g, X) /\ IsFiniteSet(X) /\ n \in Nat /\ k \in Nat /\ try[g] \in Nat
  <2>1. try[g] \in 0 .. 2
    BY <1>c DEF FileInv, TypeOK
  <2>2. QED
    BY <2>1, PendingFinite, FS_CardinalityType DEF GetsRight, Counted
<1>x. X' = X \/ (X' = X \cup {Len(out[q]) + 1} /\ \E t \in 1 .. 2 : Execute(g, t))
  <2>1. ~Truncate(g)
    BY <1>c, <1>s DEF Truncate, Goes, FileInv, TypeOK
  <2>2. QED
    BY <2>1, TakesStep DEF Pops
<1>. SUFFICES Cardinality(X') + Cardinality(Pending(g)') < Sent(g)'
  BY <1>q DEF Spares
<1>1. CASE mode = "file" /\ state[g] \in {"new", "read"} /\ state'[g] = "none"
  <2>1. X = {} /\ Pending(g)' = {}
    BY <1>1, <1>c, <1>w DEF GetsRight, Pending, FileInv, Placed
  <2>2. X' = X
    BY <1>1, <1>c, <1>x, ExecuteSpends
  <2>3. Cardinality({}) = 0
    BY FS_EmptySet
  <2>4. QED
    BY <1>1, <1>w, <2>1, <2>2, <2>3 DEF Sent
<1>2. CASE EmptyHanded(g)
  <2>1. q = Place(at[g]) /\ n + k < Sent(g)
    BY <1>2, <1>q, <1>w DEF EmptyHanded, NonesRight, Spares, CallMoves, Place
  <2>2. CASE \E t \in 1 .. 2 : Execute(g, t)
    <3>1. PICK t \in 1 .. 2 : Execute(g, t)
      BY <2>2
    <3>2. try' = try /\ t \in Pending(g) /\ Pending(g)' = Pending(g) \ {t}
      BY <1>c, <3>1, ExecuteSpends
    <3>3. Cardinality(Pending(g)') = k - 1
      BY <3>2, PendingFinite, FS_RemoveElement
    <3>4. Cardinality(X') \in Nat /\ Cardinality(X') <= n + 1
      <4>1. CASE X' = X
        BY <1>n, <4>1
      <4>2. CASE X' = X \cup {Len(out[q]) + 1}
        <5>1. PICK S, x : S = X /\ x = Len(out[q]) + 1
          OBVIOUS
        <5>2. IsFiniteSet(S) /\ X' = S \cup {x} /\ Cardinality(S) = n
          BY <1>n, <4>2, <5>1
        <5>3. Cardinality(S \cup {x}) =
                IF x \in S THEN Cardinality(S) ELSE Cardinality(S) + 1
          BY <5>2, FS_AddElement
        <5>4. Cardinality(X') = n \/ Cardinality(X') = n + 1
          BY <5>2, <5>3
        <5>5. QED
          BY <1>n, <5>4
      <4>3. QED
        BY <1>x, <4>1, <4>2
    <3>5. Sent(g)' = Sent(g) /\ Sent(g) \in Nat
      BY <1>n, <1>w, <3>2 DEF Sent
    <3>6. QED
      BY <1>n, <2>1, <3>3, <3>4, <3>5
  <2>3. CASE \A t \in 1 .. 2 : ~Execute(g, t)
    <3>1. X' = X
      BY <1>x, <2>3
    <3>2. /\ try'[g] = try[g]
          /\ Cardinality(Pending(g)') \in Nat /\ Cardinality(Pending(g)') <= k
      <4>1. CASE Pending(g)' = Pending(g)
        BY <1>n, <1>s, <1>w, <4>1 DEF WireMoves
      <4>2. ASSUME NEW t \in Pending(g), Pending(g)' = Pending(g) \ {t}
            PROVE  /\ Cardinality(Pending(g)') \in Nat
                   /\ Cardinality(Pending(g)') <= k
        <5>1. IsFiniteSet(Pending(g)') /\ Cardinality(Pending(g)') = k - 1
          BY <4>2, PendingFinite, FS_RemoveElement
        <5>2. Cardinality(Pending(g)') \in Nat
          BY <5>1, FS_CardinalityType
        <5>3. QED
          BY <1>n, <5>1, <5>2
      <4>3. QED
        BY <1>s, <1>w, <4>1, <4>2 DEF WireMoves
    <3>3. Sent(g)' = Sent(g) /\ Sent(g) \in Nat
      BY <1>n, <1>w, <3>2 DEF Sent
    <3>4. QED
      BY <1>n, <2>1, <3>1, <3>2, <3>3
  <2>4. QED
    BY <2>2, <2>3
<1>3. ASSUME NEW t \in 1 .. 2, Execute(g, t), state[g] = "sent", ~EmptyHanded(g)
      PROVE  Cardinality(X') + Cardinality(Pending(g)') < Sent(g)'
  <2>1. /\ mode = "redis" /\ try' = try
        /\ t \in Pending(g) /\ Pending(g)' = Pending(g) \ {t}
    BY <1>3, <1>c, ExecuteSpends
  <2>2. Cardinality(Pending(g)') = k - 1
    BY <2>1, PendingFinite, FS_RemoveElement
  <2>3. X' = X
    <3>1. q = Redis
      BY <1>q, <1>w, <2>1 DEF Place
    <3>2. state'[g] = "done" /\ try[g] = t /\ answer'[g] = Nothing
      BY <1>3, <1>c, <1>s DEF Execute, Goes, EmptyHanded, FileInv, TypeOK
    <3>3. Keeps(Redis)
      <4>1. CASE Leaves(g, Redis)
        <5>1. Head(Items(Redis)) \in AllLines /\ answer \in [Gets -> Answers \cup {Nothing}]
          BY <3>1, <4>1, ItemsTypes, HeadTailProperties DEF Leaves, FileInv, TypeOK
        <5>2. \/ Keeps(Redis)
              \/ answer' = [answer EXCEPT ![g] = Head(Items(Redis))]
          BY <1>3, <1>c, <3>2, ExecuteStep
        <5>3. QED
          BY <3>2, <5>1, <5>2, QueueAssumption DEF Answers
      <4>2. QED
        BY <1>3, <1>c, <4>1, ExecuteStep
    <3>4. QED
      BY <3>1, <3>3 DEF Keeps, Takes
  <2>4. n + k <= Sent(g) /\ Sent(g)' = Sent(g) /\ Sent(g) \in Nat
    BY <1>n, <1>w, <2>1 DEF Counted, Sent
  <2>5. QED
    BY <1>n, <2>2, <2>3, <2>4
<1>4. QED
  BY <1>1, <1>2, <1>3, <1>w DEF GetMoves

\* The inductive invariant behind Accounted.
AccountInv == WireRight /\ PutsRight /\ GetsRight /\ NonesRight

LEMMA AccountInit == Init => AccountInv
<1>. SUFFICES ASSUME Init PROVE AccountInv
  OBVIOUS
<1>0. FileInv /\ ItemsRight
  BY FileInvInit, ItemsAre
<1>1. Calls = Puts \cup Gets /\ \A c \in Calls : state[c] = "new" /\ try[c] = 0
  BY DEF Init, Calls
<1>2. \A c \in Calls : Pending(c) = {}
  BY DEF Init, Pending
<1>3. \A q \in Places : Items(q) = << >> /\ out[q] = << >>
  <2>1. \A g \in Gets : state[g] # "cut"
    BY <1>1
  <2>2. QED
    BY <1>0, <2>1 DEF Init, ItemsRight
<1>4. ASSUME NEW q \in Places, NEW x PROVE Takes(x, q) = {} /\ Copies(x, q) = {}
  <2>1. Len(out[q]) = 0 /\ Len(Items(q)) = 0
    BY <1>3
  <2>2. Through(q) \in Seq(AllLines) /\ Len(Through(q)) = 0
    BY <1>0, <2>1, ThroughIs DEF ThroughRight, Joined
  <2>3. DOMAIN Through(q) = {} /\ DOMAIN out[q] = {}
    BY <1>3, <2>2, LenProperties
  <2>4. QED
    BY <2>3 DEF Takes, Copies
<1>5. ASSUME NEW c \in Calls PROVE Counted(c, {})
  <2>1. IsFiniteSet({}) /\ Cardinality({}) = 0
    BY FS_EmptySet
  <2>2. Sent(c) \in {0, 1}
    BY <1>1 DEF Sent
  <2>3. QED
    BY <1>2, <2>1, <2>2 DEF Counted
<1>6. WireRight
  BY <1>1, <1>2 DEF WireRight
<1>7. PutsRight
  BY <1>1, <1>4, <1>5 DEF PutsRight
<1>8. GetsRight
  BY <1>1, <1>4, <1>5 DEF GetsRight, Init
<1>9. NonesRight
  BY <1>1 DEF NonesRight, EmptyHanded, Calls
<1>10. QED
  BY <1>6, <1>7, <1>8, <1>9 DEF AccountInv

LEMMA AccountStep ==
  FileInv /\ FileInv' /\ AccountInv /\ [Next]_vars => AccountInv'
BY WireStep, PutsStep, GetsStep, NonesStep DEF AccountInv

LEMMA AccountInvariant == Spec => []AccountInv
BY AccountInit, AccountStep, FileInvariant, PTL DEF Spec

\* What a call has done is within what was sent for it.
LEMMA WithinLimit ==
  ASSUME FileInv, NEW c \in Calls, NEW X, Counted(c, X)
  PROVE  Cardinality(X) <= Sent(c)
<1>1. Cardinality(X) \in Nat /\ Cardinality(Pending(c)) \in Nat
  BY PendingFinite, FS_CardinalityType DEF Counted
<1>2. Sent(c) \in Nat
  <2>1. try[c] \in 0 .. 2
    BY DEF FileInv, TypeOK
  <2>2. QED
    BY <2>1 DEF Sent
<1>3. QED
  BY <1>1, <1>2 DEF Counted

LEMMA Accounts == FileInv /\ AccountInv => Accounted
<1>. SUFFICES ASSUME FileInv, AccountInv PROVE Accounted
  OBVIOUS
<1>0. WireRight /\ PutsRight /\ GetsRight /\ NonesRight
  BY DEF AccountInv
<1>1. ASSUME NEW c \in Calls, state[c] # "new" PROVE Place(at[c]) \in Places
  BY <1>1 DEF Place, Places, FileInv, Placed
<1>2. ASSUME NEW p \in Puts
      PROVE  /\ state[p] = "ok" => Copies(First(p), Place(at[p])) # {} \/ Place(at[p]) \in torn
             /\ state[p] \in {"sent"} \cup Ended =>
                  Cardinality(Copies(First(p), Place(at[p]))) <= Sent(p)
  <2>1. p \in Calls
    BY DEF Calls
  <2>2. CASE state[p] = "new"
    BY <2>2 DEF Ended
  <2>3. CASE state[p] # "new"
    <3>1. Place(at[p]) \in Places
      BY <1>1, <2>1, <2>3
    <3>2. Cardinality(Copies(First(p), Place(at[p]))) <= Sent(p)
      BY <1>0, <2>1, <3>1, WithinLimit DEF PutsRight
    <3>3. QED
      BY <1>0, <3>1, <3>2 DEF PutsRight, Sent
  <2>4. QED
    BY <2>2, <2>3
<1>3. ASSUME NEW g \in Gets
      PROVE  LET q == Place(at[g])
             IN /\ state[g] = "ok" =>
                     \E i \in Takes(g, q) : Said(out[q][i].line, q) = answer[g]
                /\ state[g] = "none" => Cardinality(Takes(g, q)) < Sent(g)
                /\ state[g] \in Ended => Cardinality(Takes(g, q)) <= Sent(g)
  <2>1. g \in Calls
    BY DEF Calls
  <2>. SUFFICES ASSUME state[g] \in Ended
                PROVE  /\ state[g] = "ok" => Gave(g, Place(at[g]))
                       /\ state[g] = "none" => Cardinality(Takes(g, Place(at[g]))) < Sent(g)
                       /\ Cardinality(Takes(g, Place(at[g]))) <= Sent(g)
    BY DEF Ended, Gave
  <2>2. Place(at[g]) \in Places
    BY <1>1, <2>1 DEF Ended
  <2>3. Counted(g, Takes(g, Place(at[g])))
    BY <1>0, <2>2 DEF GetsRight
  <2>4. Cardinality(Takes(g, Place(at[g]))) <= Sent(g)
    BY <2>1, <2>3, WithinLimit
  <2>5. state[g] = "ok" => Gave(g, Place(at[g]))
    BY <1>0, <2>2 DEF GetsRight
  <2>6. ASSUME state[g] = "none" PROVE Cardinality(Takes(g, Place(at[g]))) < Sent(g)
    <3>1. Spares(g)
      BY <1>0, <2>6 DEF NonesRight, EmptyHanded
    <3>2. /\ Cardinality(Takes(g, Place(at[g]))) \in Nat
          /\ Cardinality(Pending(g)) \in Nat
      BY <2>3, PendingFinite, FS_CardinalityType DEF Counted
    <3>3. Sent(g) \in Nat
      <4>1. try[g] \in 0 .. 2
        BY <2>1 DEF FileInv, TypeOK
      <4>2. QED
        BY <4>1 DEF Sent
    <3>4. QED
      BY <3>1, <3>2, <3>3 DEF Spares
  <2>7. QED
    BY <2>4, <2>5, <2>6
<1>4. QED
  BY <1>2, <1>3 DEF Accounted

\* A produce that was acknowledged has put its message where it says, unless a
\* rewrite of the file broke, and neither produce nor consume has done more than
\* the commands that were sent for it: twice at most with Redis, where a command
\* without an answer is repeated, once in a file.  A consume has taken the line it
\* answers, and one that answers None because it found nothing has taken fewer
\* lines than it was sent, none if it was sent once (handlers.py:31-60,
\* queue_node.py:17-72).
THEOREM NothingUnaccounted == Spec => []Accounted
BY FileInvariant, AccountInvariant, Accounts, PTL

-----------------------------------------------------------------------------
(* The order of what one client does after the other. *)

AfterRight == \A c \in Calls :
  /\ \A b \in after[c] : state[b] \in Ended
  /\ state[c] = "new" => after[c] = {}

\* A message that was sent after p was acknowledged comes after p, unless p has
\* been lost with a rewrite of its file.
PutsInOrder == \A p, r \in Puts, q \in Places :
  p \in after[r] /\ state[p] = "ok" /\ q = Place(at[p]) =>
    \/ \A j \in Copies(First(r), q) : \E i \in Copies(First(p), q) : i < j
    \/ mode = "file" /\ Copies(First(p), q) = {}

\* What g answered was taken before all that h, which was asked then, takes.
GetsInOrder == \A g, h \in Gets, q \in Places :
  g \in after[h] /\ state[g] = "ok" /\ q = Place(at[g]) =>
    \E i \in Takes(g, q) :
      Said(out[q][i].line, q) = answer[g] /\ \A j \in Takes(h, q) : i < j

OrderInv == AfterRight /\ PutsInOrder /\ GetsInOrder

\* b was answered before c was made: it was so before this step, or c is made
\* in this step, which leaves all topics as they are.
LEMMA AfterStep ==
  ASSUME FileInv, FileInv', AfterRight, [Next]_vars, NEW c \in Calls, NEW b \in Calls,
         b \in after'[c]
  PROVE  /\ state[b] \in Ended /\ state'[b] = state[b] /\ at'[b] = at[b]
         /\ \/ b \in after[c]
            \/ state[c] = "new" /\ \A q \in Places : Keeps(q)
<1>1. CallMoves(c) /\ CallMoves(b)
  BY CallStep DEF AllMove
<1>2. CASE b \in after[c]
  BY <1>1, <1>2 DEF AfterRight, CallMoves, Ended
<1>3. CASE b \notin after[c]
  BY <1>1, <1>3, QuietStep DEF CallMoves, Ended
<1>4. QED
  BY <1>2, <1>3

LEMMA AfterRightStep ==
  ASSUME FileInv, FileInv', AfterRight, [Next]_vars
  PROVE  AfterRight'
<1>1. ASSUME NEW c \in Calls, NEW b \in after'[c] PROVE state'[b] \in Ended
  <2>1. b \in Calls
    BY DEF FileInv, TypeOK
  <2>2. QED
    BY <2>1, AfterStep
<1>2. ASSUME NEW c \in Calls, state'[c] = "new" PROVE after'[c] = {}
  BY <1>2, CallStep DEF AllMove, CallMoves, AfterRight
<1>3. QED
  BY <1>1, <1>2 DEF AfterRight

LEMMA PutsInOrderStep ==
  ASSUME FileInv, FileInv', PutsRight, AfterRight, PutsInOrder, [Next]_vars,
         mode' = mode
  PROVE  PutsInOrder'
<1>. SUFFICES ASSUME NEW p \in Puts, NEW r \in Puts, NEW q \in Places,
                     p \in after'[r], state'[p] = "ok", q = Place(at[p])'
              PROVE  \/ \A j \in Copies(First(r), q)' :
                          \E i \in Copies(First(p), q)' : i < j
                     \/ mode = "file" /\ Copies(First(p), q)' = {}
  BY DEF PutsInOrder
<1>c. p \in Calls /\ r \in Calls
  BY DEF Calls
<1>1. /\ state[p] = "ok" /\ q = Place(at[p])
      /\ p \in after[r] \/ (state[r] = "new" /\ \A s \in Places : Keeps(s))
  BY <1>c, AfterStep DEF Place
<1>2. Copies(First(p), q) # {} \/ (mode = "file" /\ q \in Nodes)
  <2>1. torn \subseteq Nodes /\ mode \in {"redis", "file"}
    BY DEF FileInv, TypeOK
  <2>2. QED
    BY <1>1, <2>1, QueueAssumption DEF PutsRight, Place
<1>3. CASE p \notin after[r]
  <2>1. Copies(First(r), q) = {}
    BY <1>1, <1>3 DEF PutsRight
  <2>2. Copies(First(r), q)' = Copies(First(r), q)
    BY <1>1, <1>3, KeepsThrough DEF Copies
  <2>3. QED
    BY <2>1, <2>2
<1>4. CASE p \in after[r]
  <2>1. \/ \A j \in Copies(First(r), q) : \E i \in Copies(First(p), q) : i < j
        \/ mode = "file" /\ Copies(First(p), q) = {}
    BY <1>1, <1>4 DEF PutsInOrder
  <2>2. CASE SameLines(q)
    BY <2>1, <2>2 DEF SameLines
  <2>3. CASE FewerLines(q)
    <3>1. PICK m \in Nat : \A l : Copies(l, q)' = {i \in Copies(l, q) : i <= m}
      BY <2>3 DEF FewerLines
    <3>2. Copies(First(p), q) \subseteq Nat /\ Copies(First(r), q) \subseteq Nat
      BY CopiesFinite
    <3>3. CASE mode = "file" /\ Copies(First(p), q) = {}
      BY <3>1, <3>3
    <3>4. CASE \A j \in Copies(First(r), q) : \E i \in Copies(First(p), q) : i < j
      <4>1. ASSUME NEW j \in Copies(First(r), q)'
            PROVE  \E i \in Copies(First(p), q)' : i < j
        <5>1. j \in Copies(First(r), q) /\ j <= m
          BY <3>1
        <5>2. PICK i \in Copies(First(p), q) : i < j
          BY <3>4, <5>1
        <5>3. i \in Nat /\ j \in Nat /\ i <= m
          BY <3>2, <5>1, <5>2
        <5>4. QED
          BY <3>1, <5>2, <5>3
      <4>2. QED
        BY <4>1
    <3>5. QED
      BY <2>1, <3>3, <3>4
  <2>4. ASSUME NEW s \in Puts, Pushes(s, q), NewLine(s, q)
        PROVE  \/ \A j \in Copies(First(r), q)' :
                    \E i \in Copies(First(p), q)' : i < j
               \/ mode = "file" /\ Copies(First(p), q)' = {}
    <3>1. \A i \in Copies(First(p), q) : i < Len(Through(q)) + 1
      BY CopiesFinite
    <3>2. Copies(First(p), q) \subseteq Copies(First(p), q)'
      BY <2>4 DEF NewLine
    <3>3. CASE Copies(First(p), q) # {}
      <4>1. \A j \in Copies(First(r), q) : \E i \in Copies(First(p), q) : i < j
        BY <2>1, <3>3
      <4>2. \A j \in Copies(First(r), q)' :
              j \in Copies(First(r), q) \/ j = Len(Through(q)) + 1
        BY <2>4 DEF NewLine
      <4>3. QED
        BY <3>1, <3>2, <3>3, <4>1, <4>2
    <3>4. CASE Copies(First(p), q) = {}
      <4>1. mode = "file" /\ q \in Nodes
        BY <1>2, <3>4
      <4>2. s # p
        BY <1>1, <2>4, <4>1, QueueAssumption DEF Pushes, Write, HasLock
      <4>3. QED
        BY <2>4, <3>4, <4>1, <4>2 DEF NewLine
    <3>5. QED
      BY <3>3, <3>4
  <2>5. QED
    BY <2>2, <2>3, <2>4, TopicMoves DEF TopicMoved
<1>5. QED
  BY <1>3, <1>4

LEMMA GetsInOrderStep ==
  ASSUME FileInv, FileInv', GetsRight, AfterRight, GetsInOrder, [Next]_vars,
         mode' = mode
  PROVE  GetsInOrder'
<1>. SUFFICES ASSUME NEW g \in Gets, NEW h \in Gets, NEW q \in Places,
                     g \in after'[h], state'[g] = "ok", q = Place(at[g])'
              PROVE  \E i \in Takes(g, q)' : /\ Said(out'[q][i].line, q) = answer'[g]
                                             /\ \A j \in Takes(h, q)' : i < j
  BY DEF GetsInOrder
<1>c. g \in Calls /\ h \in Calls
  BY DEF Calls
<1>1. /\ state[g] = "ok" /\ q = Place(at[g])
      /\ g \in after[h] \/ (state[h] = "new" /\ \A s \in Places : Keeps(s))
  BY <1>c, AfterStep DEF Place
<1>2. answer'[g] = answer[g]
  BY CallStep DEF AllMove, GetMoves
<1>3. CASE g \notin after[h]
  <2>1. Takes(h, q)' = {}
    <3>1. Takes(h, q) = {} /\ out'[q] = out[q]
      BY <1>1, <1>3 DEF GetsRight, Keeps
    <3>2. QED
      BY <3>1 DEF Takes
  <2>2. PICK i \in Takes(g, q) : Said(out[q][i].line, q) = answer[g]
    BY <1>1 DEF GetsRight, Gave
  <2>3. i \in Takes(g, q)' /\ out'[q][i] = out[q][i]
    BY TakesStep
  <2>4. QED
    BY <1>2, <2>1, <2>2, <2>3
<1>4. CASE g \in after[h]
  <2>1. PICK i \in Takes(g, q) : /\ Said(out[q][i].line, q) = answer[g]
                                 /\ \A j \in Takes(h, q) : i < j
    BY <1>1, <1>4 DEF GetsInOrder
  <2>2. i \in Takes(g, q)' /\ out'[q][i] = out[q][i] /\ i < Len(out[q]) + 1
    BY TakesStep, TakesFinite
  <2>3. \A j \in Takes(h, q)' : j \in Takes(h, q) \/ j = Len(out[q]) + 1
    BY TakesStep
  <2>4. QED
    BY <1>2, <2>1, <2>2, <2>3
<1>5. QED
  BY <1>3, <1>4

LEMMA OrderInit == Init => OrderInv
<1>. SUFFICES ASSUME Init PROVE OrderInv
  OBVIOUS
<1>1. \A c \in Calls : after[c] = {}
  BY DEF Init
<1>2. QED
  BY <1>1 DEF OrderInv, AfterRight, PutsInOrder, GetsInOrder, Calls

LEMMA OrderStep ==
  FileInv /\ FileInv' /\ AccountInv /\ OrderInv /\ [Next]_vars => OrderInv'
<1>. SUFFICES ASSUME FileInv, FileInv', AccountInv, OrderInv, [Next]_vars
              PROVE  OrderInv'
  OBVIOUS
<1>1. mode' = mode
  BY WireStep DEF AccountInv
<1>2. QED
  BY <1>1, AfterRightStep, PutsInOrderStep, GetsInOrderStep DEF AccountInv, OrderInv

LEMMA OrderInvariant == Spec => []OrderInv
BY OrderInit, OrderStep, FileInvariant, AccountInvariant, PTL DEF Spec

\* A line that was taken has gone through the topic.
LEMMA TakenIsCopy ==
  ASSUME FileInv, NEW q \in Places, NEW g, NEW i \in Takes(g, q)
  PROVE  i \in Copies(out[q][i].line, q)
<1>1. /\ out[q] \in Seq([by : Gets, line : AllLines]) /\ Items(q) \in Seq(AllLines)
      /\ Joined(Through(q), out[q], Items(q))
  BY ThroughIs DEF ThroughRight
<1>2. /\ Len(out[q]) \in Nat /\ Len(Items(q)) \in Nat /\ i \in 1 .. Len(out[q])
      /\ DOMAIN Through(q) = 1 .. Len(out[q]) + Len(Items(q))
  BY <1>1, LenProperties DEF Joined, Takes
<1>3. QED
  BY <1>1, <1>2 DEF Joined, Copies

\* What is answered tells the first line of a message from every other line.
LEMMA SaidOfFirst ==
  ASSUME FileInv, NEW q \in Places, NEW g, NEW i \in Takes(g, q), NEW p \in Puts,
         Said(out[q][i].line, q) = Said(First(p), q)
  PROVE  out[q][i].line = First(p)
<1>1. out[q] \in Seq([by : Gets, line : AllLines]) /\ i \in DOMAIN out[q]
  BY DEF FileInv, TypeOK, Takes
<1>2. out[q][i] \in [by : Gets, line : AllLines]
  BY <1>1, ElementOfSeq, LenProperties
<1>3. PICK r \in Puts : \E j \in DOMAIN Lines[r] : out[q][i].line = Lines[r][j]
  BY <1>2 DEF AllLines
<1>j. PICK j \in DOMAIN Lines[r] : out[q][i].line = Lines[r][j]
  BY <1>3
<1>4. CASE q = Redis
  BY <1>4 DEF Said
<1>5. CASE q # Redis
  <2>1. Strip[Lines[r][j]] = Strip[Lines[p][1]]
    BY <1>j, <1>5 DEF Said, First
  <2>2. r = p /\ j = 1
    BY <2>1, FirstLinesDiffer
  <2>3. QED
    BY <1>j, <2>2 DEF First
<1>6. QED
  BY <1>4, <1>5

\* Two places make two copies.
LEMMA TwoCopies ==
  ASSUME NEW X, IsFiniteSet(X), X \subseteq Nat, NEW i \in X, NEW j \in X, i < j,
         Cardinality(X) <= 2
  PROVE  Cardinality(X) = 2
<1>1. Cardinality(X) \in Nat /\ IsFiniteSet(X \ {i})
      /\ Cardinality(X \ {i}) = Cardinality(X) - 1
  BY FS_CardinalityType, FS_RemoveElement
<1>2. j \in X \ {i}
  <2>1. i \in Nat /\ j \in Nat
    OBVIOUS
  <2>2. i # j
    BY <2>1
  <2>3. QED
    BY <2>2
<1>3. Cardinality(X \ {i}) \in Nat /\ Cardinality(X \ {i}) # 0
  BY <1>1, <1>2, FS_CardinalityType, FS_EmptySet
<1>4. QED
  BY <1>1, <1>3

LEMMA OrderReceived == FileInv /\ AccountInv /\ OrderInv => ReceivedInOrder
<1>. SUFFICES ASSUME FileInv, AccountInv, OrderInv,
                     NEW p \in Puts, NEW r \in Puts, NEW g \in Gets, NEW h \in Gets,
                     NEW q, q = Place(at[p]),
                     {at[p], at[r], at[g], at[h]} \subseteq Nodes,
                     Place(at[g]) = q, Place(at[h]) = q,
                     p \in after[r], state[p] = "ok",
                     g \in after[h], state[g] = "ok", state[h] = "ok",
                     answer[g] = Said(First(r), q), answer[h] = Said(First(p), q)
              PROVE  Cardinality(Copies(First(p), q)) = 2
  BY DEF ReceivedInOrder
<1>0. /\ WireRight /\ PutsRight /\ GetsRight /\ PutsInOrder /\ GetsInOrder
      /\ q \in Places /\ p \in Calls
  BY DEF AccountInv, OrderInv, Place, Places, Calls
<1>1. PICK a \in Takes(g, q) : /\ out[q][a].line = First(r)
                               /\ \A j \in Takes(h, q) : a < j
  <2>1. PICK a \in Takes(g, q) : /\ Said(out[q][a].line, q) = Said(First(r), q)
                                 /\ \A j \in Takes(h, q) : a < j
    BY <1>0 DEF GetsInOrder
  <2>2. out[q][a].line = First(r)
    BY <1>0, <2>1, SaidOfFirst
  <2>3. QED
    BY <2>1, <2>2
<1>2. PICK b \in Takes(h, q) : out[q][b].line = First(p)
  <2>1. PICK b \in Takes(h, q) : Said(out[q][b].line, q) = Said(First(p), q)
    BY <1>0 DEF GetsRight, Gave
  <2>2. out[q][b].line = First(p)
    BY <1>0, <2>1, SaidOfFirst
  <2>3. QED
    BY <2>1, <2>2
<1>3. a \in Copies(First(r), q) /\ b \in Copies(First(p), q) /\ a < b
  BY <1>0, <1>1, <1>2, TakenIsCopy
<1>4. PICK i \in Copies(First(p), q) : i < a
  BY <1>0, <1>3 DEF PutsInOrder
<1>5. /\ IsFiniteSet(Copies(First(p), q)) /\ Copies(First(p), q) \subseteq Nat
      /\ Copies(First(r), q) \subseteq Nat
  BY <1>0, CopiesFinite
<1>6. i < b
  <2>1. i \in Nat /\ a \in Nat /\ b \in Nat
    BY <1>3, <1>4, <1>5
  <2>2. QED
    BY <1>3, <1>4, <2>1
<1>7. Cardinality(Copies(First(p), q)) <= 2
  <2>1. Cardinality(Copies(First(p), q)) <= Sent(p)
    BY <1>0, WithinLimit DEF PutsRight
  <2>2. Sent(p) \in 0 .. 2
    <3>1. try[p] \in 0 .. 2
      BY <1>0 DEF FileInv, TypeOK
    <3>2. QED
      BY <3>1 DEF Sent
  <2>3. Cardinality(Copies(First(p), q)) \in Nat
    BY <1>5, FS_CardinalityType
  <2>4. QED
    BY <2>1, <2>2, <2>3
<1>8. QED
  BY <1>3, <1>4, <1>5, <1>6, <1>7, TwoCopies

\* A client that sends one message after the other, and one that receives one
\* after the other, agree on the order, unless the earlier message is there twice
\* because its command was repeated (handlers.py:31-60, queue_node.py:17-72).
THEOREM MessagesKeepOrder == Spec => []ReceivedInOrder
BY FileInvariant, AccountInvariant, OrderInvariant, OrderReceived, PTL
=============================================================================
