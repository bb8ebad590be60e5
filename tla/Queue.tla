------------------------------- MODULE Queue -------------------------------
(***************************************************************************)
(* One topic of the message queue: src/nodes/queue_node.py, with the        *)
(* handlers /queue/produce and /queue/consume of src/api/handlers.py.       *)
(*                                                                          *)
(* With Redis, the topic is one list for all nodes; the client repeats an   *)
(* RPUSH or LPOP that timed out, whatever has become of the first.  Without *)
(* Redis, every node has a file of its own, which consume reads, truncates  *)
(* and writes anew under the asyncio lock of the queue; it answers a line   *)
(* without the blanks at its ends.  produce lets an exception through,      *)
(* consume answers None instead.                                            *)
(***************************************************************************)
EXTENDS Naturals, Sequences, FiniteSets

CONSTANTS
  Nodes,    \* node ids
  Puts,     \* calls of produce, each with a message of its own
  Gets,     \* calls of consume
  Lines,    \* Lines[p]: the lines that the message of p takes in a file
  Strip,    \* Strip[l]: what str.strip leaves of the line l
  Redis,    \* names the Redis list
  Nothing,  \* no node, no line
  MaxRepeats \* bound: Redis commands that are sent a second time

Calls  == Puts \cup Gets
Places == Nodes \cup {Redis}
AllLines == UNION {{Lines[p][i] : i \in DOMAIN Lines[p]} : p \in Puts}
Answers  == AllLines \cup {Strip[l] : l \in AllLines}

ASSUME QueueAssumption ==
  /\ Puts \cap Gets = {} /\ Redis \notin Nodes /\ Nothing \notin Nodes \cup Answers
  /\ \A p \in Puts : Lines[p] \in Seq(AllLines) \ {<< >>}
  /\ MaxRepeats \in Nat

\* The first line of a message tells it from the others, with its blanks or
\* without.
ASSUME FirstLinesDiffer ==
  \A p, r \in Puts : \A i \in DOMAIN Lines[r] :
    Strip[Lines[r][i]] = Strip[Lines[p][1]] => r = p /\ i = 1

VARIABLES
  mode,    \* "redis", or "file" when the node has no Redis client
  state,   \* where each call is: "new"; with Redis "sent"; in file mode "wait"
           \* (for the lock, or at the head of its queue), "open", "read", "cut";
           \* "done" when its effect is complete; then "ok", "none" when there
           \* was nothing to consume, "failed" when consume answers None after
           \* an exception, "lost" after an error or with the connection
  at,      \* at[c]: the node called
  try,     \* try[c]: Redis commands sent for it
  wire,    \* Redis commands not executed: <<c, number of the try>>
  lockq,   \* lockq[n]: _lock of the queue of n, its holder first
  files,   \* nodes whose file exists
  store,   \* store[q]: the lines of the Redis list, or of the file of a node
  lines,   \* lines[g]: what consume has read
  answer,  \* answer[g]: what consume is going to answer
  out,     \* out[q]: lines taken and by whom; not in the code
  torn,    \* nodes whose file a rewrite did not complete; not in the code
  after    \* after[c]: the calls of its kind answered when c was made; not in
           \* the code

callVars  == <<state, at, after>>
redisVars == <<try, wire>>
fileVars  == <<lockq, files, lines, torn>>
vars == <<mode, callVars, redisVars, fileVars, store, answer, out>>

Place(n) == IF mode = "redis" THEN Redis ELSE n
Ended    == {"ok", "none", "failed", "lost"}
Same(c)  == IF c \in Puts THEN Puts ELSE Gets

\* What the message of p is in q: one element of a list, or lines of a file.
Text(p, q) == IF q = Redis THEN <<Lines[p][1]>> ELSE Lines[p]

Init ==
  /\ mode \in {"redis", "file"}
  /\ state = [c \in Calls |-> "new"]
  /\ at = [c \in Calls |-> Nothing]
  /\ try = [c \in Calls |-> 0]
  /\ wire = {}
  /\ lockq = [n \in Nodes |-> << >>]
  /\ files = {}
  /\ store = [q \in Places |-> << >>]
  /\ lines = [g \in Gets |-> << >>]
  /\ answer = [g \in Gets |-> Nothing]
  /\ out = [q \in Places |-> << >>]
  /\ torn = {}
  /\ after = [c \in Calls |-> {}]

Goes(c, s) == state' = [state EXCEPT ![c] = s]

\* A client calls a node.
Asks(c, n, s) ==
  /\ state[c] = "new"
  /\ Goes(c, s)
  /\ at' = [at EXCEPT ![c] = n]
  /\ after' = [after EXCEPT ![c] = {b \in Same(c) : state[b] \in Ended}]

\* An exception reaches the caller of produce; consume turns it into None.
Failed(c) == IF c \in Puts THEN "lost" ELSE "failed"

\* What consume says of a line that it has taken.
Said(l, q) == IF q = Redis THEN l ELSE Strip[l]

-----------------------------------------------------------------------------
(* With Redis *)

SendFirst(c, n) ==
  /\ mode = "redis"
  /\ Asks(c, n, "sent")
  /\ try' = [try EXCEPT ![c] = 1]
  /\ wire' = wire \cup {<<c, 1>>}
  /\ UNCHANGED <<mode, fileVars, store, answer, out>>

\* Mutant: LPUSH, the message enters at the wrong end.
PushFirst(p) ==
  store' = [store EXCEPT ![Redis] = Text(p, Redis) \o @] /\ UNCHANGED <<answer, out>>

PushText(p) ==
  store' = [store EXCEPT ![Redis] = @ \o Text(p, Redis)] /\ UNCHANGED <<answer, out>>

\* LPOP: the head of the list, for which g may no longer be waiting.
PopLine(g, heard) ==
  IF store[Redis] = << >>
    THEN UNCHANGED <<store, answer, out>>
    ELSE /\ store' = [store EXCEPT ![Redis] = Tail(@)]
         /\ answer' = IF heard THEN [answer EXCEPT ![g] = Head(store[Redis])]
                               ELSE answer
         /\ out' = [out EXCEPT ![Redis] =
                      Append(@, [by |-> g, line |-> Head(store[Redis])])]

\* Redis executes a command.  Its answer counts if the client still waits on
\* the connection it came by.
Execute(c, t) ==
  LET heard == state[c] = "sent" /\ try[c] = t
  IN /\ <<c, t>> \in wire
     /\ wire' = wire \ {<<c, t>>}
     /\ IF heard THEN Goes(c, "done") ELSE UNCHANGED state
     /\ IF c \in Puts THEN PushText(c) ELSE PopLine(c, heard)
     /\ UNCHANGED <<mode, at, after, try, fileVars>>

\* Mutant: the command is sent again as often as no answer comes.
SendForever(c) ==
  /\ mode = "redis" /\ state[c] \in {"sent", "done"}
  /\ Goes(c, "sent")
  /\ try' = [try EXCEPT ![c] = @ + 1]
  /\ wire' = wire \cup {<<c, try[c] + 1>>}
  /\ answer' = IF c \in Gets THEN [answer EXCEPT ![c] = Nothing] ELSE answer
  /\ UNCHANGED <<mode, at, after, fileVars, store, out>>

\* No answer within socket_timeout: the command is sent once more.
SendAgain(c) ==
  /\ mode = "redis" /\ state[c] \in {"sent", "done"} /\ try[c] = 1
  /\ Cardinality({b \in Calls : try[b] = 2}) < MaxRepeats
  /\ Goes(c, "sent")
  /\ try' = [try EXCEPT ![c] = 2]
  /\ wire' = wire \cup {<<c, 2>>}
  /\ answer' = IF c \in Gets THEN [answer EXCEPT ![c] = Nothing] ELSE answer
  /\ UNCHANGED <<mode, at, after, fileVars, store, out>>

-----------------------------------------------------------------------------
(* Without Redis *)

\* produce, or consume of a file that exists, queues for the lock.
AskLock(c, n) ==
  /\ mode = "file" /\ (c \in Gets => n \in files)
  /\ Asks(c, n, "wait")
  /\ lockq' = [lockq EXCEPT ![n] = Append(@, c)]
  /\ UNCHANGED <<mode, redisVars, files, lines, torn, store, answer, out>>

\* There is no file yet: consume answers None without the lock.
NoFile(g, n) ==
  /\ mode = "file" /\ n \notin files
  /\ Asks(g, n, "none")
  /\ UNCHANGED <<mode, redisVars, fileVars, store, answer, out>>

HasLock(c, s) == /\ mode = "file" /\ state[c] = s
                 /\ Head(lockq[at[c]]) = c

\* Opened to append: the file exists from now on.
Open(p) ==
  /\ HasLock(p, "wait")
  /\ Goes(p, "open")
  /\ files' = files \cup {at[p]}
  /\ UNCHANGED <<mode, at, after, redisVars, lockq, lines, torn, store, answer, out>>

\* Mutant: the message is written without the lock.
WriteUnlocked(p) ==
  /\ mode = "file" /\ state[p] \in {"wait", "open"}
  /\ Goes(p, "done")
  /\ files' = files \cup {at[p]}
  /\ store' = [store EXCEPT ![at[p]] = @ \o Text(p, at[p])]
  /\ UNCHANGED <<mode, at, after, redisVars, lockq, lines, torn, answer, out>>

Write(p) ==
  /\ HasLock(p, "open")
  /\ Goes(p, "done")
  /\ store' = [store EXCEPT ![at[p]] = @ \o Text(p, at[p])]
  /\ UNCHANGED <<mode, at, after, redisVars, fileVars, answer, out>>

\* The lock goes to the next in line.
Release(c) == lockq' = [lockq EXCEPT ![at[c]] = Tail(@)]

Read(g) ==
  /\ HasLock(g, "wait")
  /\ Goes(g, "read")
  /\ lines' = [lines EXCEPT ![g] = store[at[g]]]
  /\ UNCHANGED <<mode, at, after, redisVars, lockq, files, torn, store, answer, out>>

\* The file is empty: None.
ReadNothing(g) ==
  /\ HasLock(g, "read") /\ lines[g] = << >>
  /\ Goes(g, "none")
  /\ Release(g)
  /\ UNCHANGED <<mode, at, after, redisVars, files, lines, torn, store, answer, out>>

\* Opened to write: nothing is left in the file.
Truncate(g) ==
  /\ HasLock(g, "read") /\ lines[g] # << >>
  /\ Goes(g, "cut")
  /\ store' = [store EXCEPT ![at[g]] = << >>]
  /\ out' = [out EXCEPT ![at[g]] =
               Append(@, [by |-> g, line |-> Head(lines[g])])]
  /\ UNCHANGED <<mode, at, after, redisVars, fileVars, answer>>

Rewrite(g) ==
  /\ HasLock(g, "cut")
  /\ Goes(g, "done")
  /\ store' = [store EXCEPT ![at[g]] = Tail(lines[g])]
  /\ answer' = [answer EXCEPT ![g] = Said(Head(lines[g]), at[g])]
  /\ lines' = [lines EXCEPT ![g] = << >>]
  /\ UNCHANGED <<mode, at, after, redisVars, lockq, files, torn, out>>

\* What an interrupted rewrite may leave in the file.
Remains(g) == {SubSeq(lines[g], 2, k) : k \in 1 .. Len(lines[g])}

\* Mutant: an exception in the rewrite leaves the lock taken.
RewriteFailsLocked(g) ==
  /\ HasLock(g, "cut")
  /\ Goes(g, "failed")
  /\ \E rest \in Remains(g) : store' = [store EXCEPT ![at[g]] = rest]
  /\ torn' = torn \cup {at[g]}
  /\ UNCHANGED <<mode, at, after, redisVars, lockq, files, lines, answer, out>>

\* The disk fails: consume answers None, as if the topic were empty.
RewriteFails(g) ==
  /\ HasLock(g, "cut")
  /\ Goes(g, "failed")
  /\ \E rest \in Remains(g) : store' = [store EXCEPT ![at[g]] = rest]
  /\ torn' = torn \cup {at[g]}
  /\ lines' = [lines EXCEPT ![g] = << >>]
  /\ Release(g)
  /\ UNCHANGED <<mode, at, after, redisVars, files, answer, out>>

-----------------------------------------------------------------------------

\* Mutant: the call does not wait until Redis has answered.
ReturnEarly(c) ==
  /\ state[c] \in {"sent", "done"}
  /\ Goes(c, IF c \in Puts \/ answer[c] # Nothing THEN "ok" ELSE "none")
  /\ IF mode = "file" THEN Release(c) ELSE UNCHANGED lockq
  /\ UNCHANGED <<mode, at, after, redisVars, files, lines, torn, store, answer, out>>

\* A call returns; LPOP of an empty list is None.
Return(c) ==
  /\ state[c] = "done"
  /\ Goes(c, IF c \in Puts \/ answer[c] # Nothing THEN "ok" ELSE "none")
  /\ IF mode = "file" THEN Release(c) ELSE UNCHANGED lockq
  /\ UNCHANGED <<mode, at, after, redisVars, files, lines, torn, store, answer, out>>

\* Redis gives no answer in time, or reports an error; the disk fails before
\* anything is written.
Fail(c) ==
  /\ \/ mode = "redis" /\ state[c] \in {"sent", "done"}
     \/ \E s \in {"wait", "open", "read"} : HasLock(c, s)
  /\ Goes(c, Failed(c))
  /\ IF mode = "file" THEN Release(c) ELSE UNCHANGED lockq
  /\ lines' = [g \in Gets |-> IF g = c THEN << >> ELSE lines[g]]
  /\ answer' = [g \in Gets |-> IF g = c THEN Nothing ELSE answer[g]]
  /\ UNCHANGED <<mode, at, after, redisVars, files, torn, store, out>>

\* The process of n starts again: its calls are gone, its file is what it was,
\* or what a rewrite has got to.
Restart(n) ==
  LET mine == {c \in Calls : at[c] = n /\ state[c] \notin Ended}
      cut  == {g \in mine : state[g] = "cut"}
  IN /\ mine # {}
     /\ state' = [c \in Calls |-> IF c \in mine THEN "lost" ELSE state[c]]
     /\ lockq' = [lockq EXCEPT ![n] = << >>]
     /\ torn' = IF cut # {} THEN torn \cup {n} ELSE torn
     /\ IF cut = {} THEN UNCHANGED store
          ELSE \E g \in cut : \E rest \in Remains(g) :
                 store' = [store EXCEPT ![n] = rest]
     /\ lines' = [g \in Gets |-> IF g \in mine THEN << >> ELSE lines[g]]
     /\ answer' = [g \in Gets |-> IF g \in mine THEN Nothing ELSE answer[g]]
     /\ UNCHANGED <<mode, at, after, redisVars, files, out>>

Finish(c) == Return(c) \/ Fail(c)

FileStep(c) ==
  \/ c \in Puts /\ (Open(c) \/ Write(c))
  \/ c \in Gets /\ (Read(c) \/ ReadNothing(c) \/ Truncate(c) \/ Rewrite(c)
                      \/ RewriteFails(c))

Next ==
  \/ \E c \in Calls, n \in Nodes : SendFirst(c, n) \/ AskLock(c, n)
  \/ \E g \in Gets, n \in Nodes : NoFile(g, n)
  \/ \E c \in Calls : FileStep(c) \/ Finish(c) \/ SendAgain(c)
  \/ \E c \in Calls, t \in 1 .. 2 : Execute(c, t)
  \/ \E n \in Nodes : Restart(n)

\* A file operation ends; a Redis call answers or raises in bounded time.
Spec ==
  /\ Init /\ [][Next]_vars
  /\ \A c \in Calls : WF_vars(FileStep(c) \/ Finish(c))

-----------------------------------------------------------------------------

TypeOK ==
  /\ mode \in {"redis", "file"}
  /\ state \in [Calls -> {"new", "sent", "wait", "open", "read", "cut", "done"}
                           \cup Ended]
  /\ at \in [Calls -> Nodes \cup {Nothing}]
  /\ try \in [Calls -> 0 .. 2]
  /\ wire \in SUBSET (Calls \X (1 .. 2))
  /\ lockq \in [Nodes -> Seq(Calls)]
  /\ files \in SUBSET Nodes
  /\ store \in [Places -> Seq(AllLines)]
  /\ lines \in [Gets -> Seq(AllLines)]
  /\ answer \in [Gets -> Answers \cup {Nothing}]
  /\ out \in [Places -> Seq([by : Gets, line : AllLines])]
  /\ torn \in SUBSET Nodes
  /\ after \in [Calls -> SUBSET Calls]

\* The lines of a topic: while a file is truncated, the ones still to be written.
Items(q) ==
  IF \E g \in Gets : state[g] = "cut" /\ at[g] = q
    THEN Tail(lines[CHOOSE g \in Gets : state[g] = "cut" /\ at[g] = q])
    ELSE store[q]

\* Every Redis list and every file is a first-in first-out queue: reading,
\* truncating and rewriting a file under the lock is one step, no produce falls
\* into the gap, and what is lost is lost at the end.
Topics == INSTANCE Fifo WITH
  Texts  <- [q \in Places |-> {Text(p, q) : p \in Puts}],
  Takers <- Gets,
  items  <- [q \in Places |-> Items(q)]

EveryTopicIsFifo == Topics!Spec

\* The places of a line among all that have gone through a topic.
Through(q) == [i \in DOMAIN out[q] |-> out[q][i].line] \o Items(q)
Copies(l, q) == {i \in DOMAIN Through(q) : Through(q)[i] = l}
First(p) == Lines[p][1]
Takes(g, q) == {i \in DOMAIN out[q] : out[q][i].by = g}
Sent(c) == IF mode = "redis" THEN try[c] ELSE 1

\* Nothing acknowledged is lost but by a broken rewrite of its file, and nothing
\* is there more often than it was sent.  A consume takes the line it answers and
\* at most one for each command sent, and one that answers None without having
\* failed has taken fewer: what was taken and answered to nobody was taken by a
\* consume that was sent twice, failed or was cut off.
Accounted ==
  /\ \A p \in Puts :
       LET q == Place(at[p])
       IN /\ state[p] = "ok" => Copies(First(p), q) # {} \/ q \in torn
          /\ state[p] \in {"sent"} \cup Ended => Cardinality(Copies(First(p), q)) <= Sent(p)
  /\ \A g \in Gets :
       LET q == Place(at[g])
       IN /\ state[g] = "ok" => \E i \in Takes(g, q) : Said(out[q][i].line, q) = answer[g]
          /\ state[g] = "none" => Cardinality(Takes(g, q)) < Sent(g)
          /\ state[g] \in Ended => Cardinality(Takes(g, q)) <= Sent(g)

\* A message acknowledged before another one was sent is not received after it
\* by a client that asks for one after the other, unless it is a repeated copy.
ReceivedInOrder ==
  \A p, r \in Puts, g, h \in Gets :
    LET q == Place(at[p])
    IN /\ {at[p], at[r], at[g], at[h]} \subseteq Nodes
       /\ \A c \in {r, g, h} : Place(at[c]) = q
       /\ p \in after[r] /\ state[p] = "ok"
       /\ g \in after[h] /\ state[g] = "ok" /\ state[h] = "ok"
       /\ answer[g] = Said(First(r), q) /\ answer[h] = Said(First(p), q)
       => Cardinality(Copies(First(p), q)) = 2

\* Every call ends, although the others wait for the same lock and fail with it.
CallsEnd == \A c \in Calls : state[c] # "new" ~> state[c] \in Ended

=============================================================================
