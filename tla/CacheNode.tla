----------------------------- MODULE CacheNode -----------------------------
(***************************************************************************)
(* The cache of each node and the messages that keep the caches coherent:   *)
(* src/nodes/cache_node.py with the handlers /cache/* and, of               *)
(* message_passing.py, what a peer's answer or its absence does.            *)
(*                                                                          *)
(* get, put, handle_invalidate and handle_fetch all run under the asyncio   *)
(* lock of their node.  get and put hold it while they call one peer after  *)
(* the other, so two nodes that call each other wait until the calls time   *)
(* out; a request that has timed out at its caller is still executed when   *)
(* the lock of the peer gets free.  A request that never reaches its peer   *)
(* (refused, no connection, any error) is lost: post and get return None,   *)
(* and the caller goes on as after an answer that says nothing.             *)
(*                                                                          *)
(* A line is stored SHARED or MODIFIED only: no code stores EXCLUSIVE or    *)
(* INVALID, so the branches of get and put for those never run.             *)
(***************************************************************************)
EXTENDS Naturals, FiniteSets, SequencesExt

CONSTANTS
  Nodes,        \* node ids
  Keys,         \* cache keys
  Calls,        \* client calls of get and put; a put writes its own name
  Peers,        \* Peers[n]: msg.peers of n, the PEERS variable as it stands
  Capacity,     \* lines a cache may hold
  Query,        \* Query[k]: the key a peer reads out of /cache/fetch?key=k, into
                \* which k is put as it is: k itself, unless it has an &, #, +
                \* or % in it; Nothing when no key is left
  Nothing,      \* no value: None
  Concurrency,  \* bound: client calls that run at a time
  Strays        \* bound: requests that are on their way when a client calls

ASSUME PeersAssumption == \A n \in Nodes : Peers[n] \in Seq(Nodes)
ASSUME NothingAssumption == Nothing \notin Calls \cup Keys
ASSUME QueryAssumption == Query \in [Keys -> Keys \cup {Nothing}]
ASSUME BoundsAssumption == Capacity \in Nat /\ Concurrency \in Nat /\ Strays \in Nat

VARIABLES
  cache,   \* cache[n]: CacheNode.cache of n, least recently used line first
  lockq,   \* lockq[n]: _lock of n, its holder followed by the tasks that wait
  call,    \* call[c]: what c asks for and of which node
  pc,      \* pc[c]: where c is
  asked,   \* asked[c]: how many of the peers of its node c has called
  answer,  \* answer[c]: the last answer of a peer to c
  result,  \* result[c]: what c has returned to its client
  wire,    \* requests that have not arrived at their peer
  latest,  \* latest[k]: what the put of k that returned last wrote
  missed,  \* <<k, n>>: an invalidation of k for n was lost, and n has executed
           \* none since
  unsure   \* keys whose last invalidating put has gone on without knowing that
           \* every other node has executed its invalidation; latest, missed and
           \* unsure are not in the code, the properties speak about them

vars == <<cache, lockq, call, pc, asked, answer, result, wire, latest, missed, unsure>>

notes == <<missed, unsure>>

\* The request c makes of the i-th peer of its node.
Request == [of : Calls, nth : Nat \ {0}]
Task    == Calls \cup Request
Line    == [key : Keys, state : {"M", "S"}, value : Calls]
NoCall  == [op |-> "none"]
Call    == [op : {"get", "put"}, key : Keys, at : Nodes]

ASSUME TasksAssumption == \A c \in Calls : c \notin Request

Target(q)  == Peers[call[q.of].at][q.nth]

\* The key q is about, as the peer reads it: the body of an invalidation is JSON,
\* a fetch has the key in its URL.
Wanted(q) == LET k == call[q.of].key
             IN  IF call[q.of].op = "put" THEN k ELSE Query[k]

-----------------------------------------------------------------------------
(* The OrderedDict *)

Has(lines, k)     == \E i \in DOMAIN lines : lines[i].key = k
Index(lines, k)   == CHOOSE i \in DOMAIN lines : lines[i].key = k
At(lines, k)      == lines[Index(lines, k)]
Without(lines, k) ==
  IF Has(lines, k) THEN RemoveAt(lines, Index(lines, k)) ELSE lines

\* Popped and stored again, at the end.
Store(lines, k, s, v) ==
  Append(Without(lines, k), [key |-> k, state |-> s, value |-> v])

\* Mutant: one line too many is allowed.
EvictLate(lines) == IF Len(lines) > Capacity + 1 THEN Tail(lines) ELSE lines

\* put evicts the line used longest ago, one at most.
Evict(lines) == IF Len(lines) > Capacity THEN Tail(lines) ELSE lines

-----------------------------------------------------------------------------

Init ==
  /\ cache = [n \in Nodes |-> << >>]
  /\ lockq = [n \in Nodes |-> << >>]
  /\ call = [c \in Calls |-> NoCall]
  /\ pc = [c \in Calls |-> "new"]
  /\ asked = [c \in Calls |-> 0]
  /\ answer = [c \in Calls |-> Nothing]
  /\ result = [c \in Calls |-> Nothing]
  /\ wire = {}
  /\ latest = [k \in Keys |-> Nothing]
  /\ missed = {}
  /\ unsure = {}

Holds(n, t) == lockq[n] # << >> /\ Head(lockq[n]) = t

Running == {c \in Calls : pc[c] \in {"wait", "call", "answered"}}

\* Requests that a peer may still execute.
Pending ==
  wire \cup {q \in UNION {{lockq[n][i] : i \in DOMAIN lockq[n]} : n \in Nodes} : q \in Request}

\* A client calls /cache/get or /cache/put of node n.  Nothing is read before
\* the lock is taken, so c queues for it and starts when it is first.
Arrive(c, op, k, n) ==
  /\ pc[c] = "new"
  /\ Cardinality(Running) < Concurrency
  /\ Cardinality(Pending) <= Strays
  /\ call' = [call EXCEPT ![c] = [op |-> op, key |-> k, at |-> n]]
  /\ pc' = [pc EXCEPT ![c] = "wait"]
  /\ lockq' = [lockq EXCEPT ![n] = Append(@, c)]
  /\ UNCHANGED <<cache, asked, answer, result, wire, latest, notes>>

\* get or put returns v, leaving lines in the cache; the lock goes to the next
\* in line.
Return(c, lines, v) ==
  LET n == call[c].at
  IN  /\ cache' = [cache EXCEPT ![n] = lines]
      /\ lockq' = [lockq EXCEPT ![n] = Tail(@)]
      /\ pc' = [pc EXCEPT ![c] = "done"]
      /\ result' = [result EXCEPT ![c] = v]
      /\ latest' = IF call[c].op = "put"
                     THEN [latest EXCEPT ![call[c].key] = c] ELSE latest
      /\ UNCHANGED <<call, asked, answer, wire>>

\* get and put after the loop over the peers: a miss returns None, a new line
\* is MODIFIED.
AfterPeers(c, lines) ==
  IF call[c].op = "get"
    THEN Return(c, lines, Nothing)
    ELSE Return(c, Evict(Store(lines, call[c].key, "M", c)), c)

\* The loop goes on to the next peer, or ends.
NextPeer(c, lines) ==
  LET n == call[c].at
  IN  IF asked[c] < Len(Peers[n])
        THEN /\ cache' = [cache EXCEPT ![n] = lines]
             /\ asked' = [asked EXCEPT ![c] = @ + 1]
             /\ pc' = [pc EXCEPT ![c] = "call"]
             /\ wire' = wire \cup {[of |-> c, nth |-> asked[c] + 1]}
             /\ UNCHANGED <<lockq, call, answer, result, latest>>
        ELSE AfterPeers(c, lines)

\* get: a hit moves the line to the end, a miss asks the peers.
Get(c) ==
  LET lines == cache[call[c].at]
      k     == call[c].key
      line  == At(lines, k)
  IN  /\ pc[c] = "wait" /\ call[c].op = "get" /\ Holds(call[c].at, c)
      /\ IF Has(lines, k)
           THEN Return(c, Store(lines, k, line.state, line.value), line.value)
           ELSE NextPeer(c, lines)
      /\ UNCHANGED notes

\* put: a MODIFIED line is overwritten; any other is popped, if there, and the
\* peers are told before the new line is stored.
Put(c) ==
  LET lines == cache[call[c].at]
      k     == call[c].key
  IN  /\ pc[c] = "wait" /\ call[c].op = "put" /\ Holds(call[c].at, c)
      /\ IF Has(lines, k) /\ At(lines, k).state = "M"
           THEN AfterPeers(c, lines) /\ UNCHANGED unsure
           ELSE NextPeer(c, Without(lines, k)) /\ unsure' = unsure \ {k}
      /\ UNCHANGED missed

-----------------------------------------------------------------------------
(* The peers *)

\* A request arrives and queues for the lock of the peer.  One without a key is
\* answered with 400 and None at its caller, like one that is lost.
Deliver(q) ==
  /\ Wanted(q) # Nothing
  /\ wire' = wire \ {q}
  /\ lockq' = [lockq EXCEPT ![Target(q)] = Append(@, q)]
  /\ UNCHANGED <<cache, call, pc, asked, answer, result, latest, notes>>

\* A request does not reach its peer: the host is not found, the connection is
\* refused or not made within two seconds, or it breaks.
Lose(q) ==
  /\ wire' = wire \ {q}
  /\ missed' = IF call[q.of].op = "put"
                  THEN missed \cup {<<call[q.of].key, Target(q)>>} ELSE missed
  /\ UNCHANGED <<cache, lockq, call, pc, asked, answer, result, latest, unsure>>

\* The request at the head of the queue of n is executed: it leaves lines in
\* the cache and answers v, to a caller that may have stopped waiting.
Answer(q, n, lines, v) ==
  /\ cache' = [cache EXCEPT ![n] = lines]
  /\ lockq' = [lockq EXCEPT ![n] = Tail(@)]
  /\ IF pc[q.of] = "call" /\ asked[q.of] = q.nth
       THEN /\ pc' = [pc EXCEPT ![q.of] = "answered"]
            /\ answer' = [answer EXCEPT ![q.of] = v]
       ELSE UNCHANGED <<pc, answer>>
  /\ UNCHANGED <<call, asked, result, wire, latest>>

\* Mutant: the line stays.
InvalidateNothing(n) ==
  /\ lockq[n] # << >> /\ Head(lockq[n]) \in Request
  /\ LET q == Head(lockq[n])
     IN  /\ call[q.of].op = "put"
         /\ Answer(q, n, cache[n], Nothing)
         /\ missed' = missed \ {<<Wanted(q), n>>}
  /\ UNCHANGED unsure

HandleInvalidate(n) ==
  /\ lockq[n] # << >> /\ Head(lockq[n]) \in Request
  /\ LET q == Head(lockq[n])
     IN  /\ call[q.of].op = "put"
         /\ Answer(q, n, Without(cache[n], Wanted(q)), Nothing)
         /\ missed' = missed \ {<<Wanted(q), n>>}
  /\ UNCHANGED unsure

\* Mutant: the owner of a line that is fetched stays its owner.
FetchKeepsState(n) ==
  /\ lockq[n] # << >> /\ Head(lockq[n]) \in Request
  /\ LET q == Head(lockq[n])
         k == Wanted(q)
     IN  /\ call[q.of].op = "get"
         /\ IF Has(cache[n], k)
              THEN LET line == At(cache[n], k)
                   IN  Answer(q, n, Store(cache[n], k, line.state, line.value),
                              line.value)
              ELSE Answer(q, n, cache[n], Nothing)
  /\ UNCHANGED notes

\* A line that is fetched becomes SHARED and moves to the end.
HandleFetch(n) ==
  /\ lockq[n] # << >> /\ Head(lockq[n]) \in Request
  /\ LET q == Head(lockq[n])
         k == Wanted(q)
     IN  /\ call[q.of].op = "get"
         /\ IF Has(cache[n], k)
              THEN LET v == At(cache[n], k).value
                   IN  Answer(q, n, Store(cache[n], k, "S", v), v)
              ELSE Answer(q, n, cache[n], Nothing)
  /\ UNCHANGED notes

\* Mutant: a fetched line is stored EXCLUSIVE.
ContinueExclusive(c) ==
  LET lines == cache[call[c].at]
  IN  /\ pc[c] = "answered"
      /\ IF call[c].op = "get" /\ answer[c] # Nothing
           THEN Return(c, Store(lines, call[c].key, "E", answer[c]), Nothing)
           ELSE NextPeer(c, lines)
      /\ UNCHANGED notes

\* The answer of a peer is back.  A fetched value is stored, under the key that
\* was asked for, and get returns None all the same.
Continue(c) ==
  LET lines == cache[call[c].at]
  IN  /\ pc[c] = "answered"
      /\ IF call[c].op = "get" /\ answer[c] # Nothing
           THEN Return(c, Store(lines, call[c].key, "S", answer[c]), Nothing)
           ELSE NextPeer(c, lines)
      /\ UNCHANGED notes

\* No answer: post and get return None, like an answer that says nothing.
GiveUp(c) == NextPeer(c, cache[call[c].at])

\* Mutant: calls of a peer have no time limit.
NoTimeout(c) == FALSE /\ GiveUp(c)

\* An error at any time, or five seconds without an answer, wherever the request
\* or its answer is by then.
Timeout(c) ==
  LET q == [of |-> c, nth |-> asked[c]]
  IN  /\ pc[c] \in {"call", "answered"}
      /\ GiveUp(c)
      /\ unsure' = IF /\ pc[c] = "call" /\ call[c].op = "put"
                      /\ Target(q) # call[c].at
                     THEN unsure \cup {call[c].key} ELSE unsure
      /\ UNCHANGED missed

\* The process of n starts again: the cache is empty, calls in progress and
\* requests that waited for the lock are gone.  Requests that are sent to it while
\* it is down are lost, or connect when it is back.
Restart(n) ==
  LET Killed == {c \in Running : call[c].at = n}
      Half   == {c \in Killed : call[c].op = "put" /\ pc[c] # "wait"}
  IN  /\ cache' = [cache EXCEPT ![n] = << >>]
      /\ lockq' = [lockq EXCEPT ![n] = << >>]
      /\ pc' = [c \in Calls |-> IF c \in Killed THEN "lost" ELSE pc[c]]
      /\ missed' = missed \ (Keys \X {n})
      /\ unsure' = unsure \cup {call[c].key : c \in Half}
      /\ UNCHANGED <<call, asked, answer, result, wire, latest>>

-----------------------------------------------------------------------------

CallStep(c) == Get(c) \/ Put(c) \/ Continue(c) \/ Timeout(c)
NodeStep(n) == HandleInvalidate(n) \/ HandleFetch(n)

Arrivals == \E c \in Calls, op \in {"get", "put"}, k \in Keys, n \in Nodes :
              Arrive(c, op, k, n)

Next ==
  \/ Arrivals
  \/ \E c \in Calls : CallStep(c)
  \/ \E q \in wire : Deliver(q) \/ Lose(q)
  \/ \E n \in Nodes : NodeStep(n) \/ Restart(n)

\* The event loop runs what can run, and the client timeout of aiohttp fires.
\* Nothing is assumed of requests: each arrives, is lost or stays on its way.
Fairness ==
  /\ \A c \in Calls : WF_vars(CallStep(c))
  /\ \A n \in Nodes : WF_vars(NodeStep(n))

Spec == Init /\ [][Next]_vars /\ Fairness

\* c waits for a node whose lock is held by an operation that waits for a node.
Blocked(c) ==
  LET q == [of |-> c, nth |-> asked[c]]
      peer == lockq[Target(q)]
  IN  /\ pc[c] = "call" /\ Contains(peer, q)
      /\ Head(peer) \in Calls /\ pc[Head(peer)] \in {"call", "answered"}

\* Some of these behaviours: every process and the network are sound, and a call
\* times out only because nodes wait for each other.
CalmNext ==
  \/ Arrivals
  \/ \E c \in Calls : Get(c) \/ Put(c) \/ Continue(c) \/ (Blocked(c) /\ Timeout(c))
  \/ \E q \in wire : Deliver(q)
  \/ \E n \in Nodes : NodeStep(n)

CalmSpec == Init /\ [][CalmNext]_vars

-----------------------------------------------------------------------------

TypeOK ==
  /\ cache \in [Nodes -> Seq(Line)]
  /\ lockq \in [Nodes -> Seq(Task)]
  /\ call \in [Calls -> Call \cup {NoCall}]
  /\ pc \in [Calls -> {"new", "wait", "call", "answered", "done", "lost"}]
  /\ asked \in [Calls -> Nat]
  /\ answer \in [Calls -> Calls \cup {Nothing}]
  /\ result \in [Calls -> Calls \cup {Nothing}]
  /\ wire \in SUBSET Request
  /\ latest \in [Keys -> Calls \cup {Nothing}]
  /\ missed \in SUBSET (Keys \X Nodes)
  /\ unsure \in SUBSET Keys

Quiet == Running = {}

Owns(n, k) == Has(cache[n], k) /\ At(cache[n], k).state = "M"

\* docker-compose.yml, and the default of PEERS: every node lists all the others.
PeersListed ==
  \A n \in Nodes : \A m \in Nodes \ {n} : \E i \in DOMAIN Peers[n] : Peers[n][i] = m

\* Two nodes have a key MODIFIED only while an invalidation for one of them is
\* still to be executed or after one was lost, however many calls time out or die
\* with their node: one owner is left in the end if the requests arrive (put holds
\* the lock from before its first invalidation until its line is stored), and a
\* request that does not arrive leaves two owners for good.
OwnersCollide ==
  \A m, n \in Nodes, k \in Keys :
    m # n /\ Owns(m, k) /\ Owns(n, k) =>
      \/ \E q \in Pending :
           call[q.of].op = "put" /\ call[q.of].key = k /\ Target(q) \in {m, n}
      \/ {<<k, m>>, <<k, n>>} \cap missed # {}

\* A cache exceeds its capacity only by lines it has fetched: put evicts one
\* line for every one it adds, whatever the cache has grown to, and the fetches,
\* which evict nothing, are gets that have answered None.
ExcessIsFetched ==
  \A n \in Nodes :
    Len(cache[n]) <=
      Capacity + Cardinality({c \in Calls :
        /\ pc[c] = "done" /\ result[c] = Nothing
        /\ call[c].op = "get" /\ call[c].at = n})

\* The key is fetched as it is, and every other node has executed the invalidation
\* of the put that was the last to send any.
Settled(k) == Query[k] = k /\ k \notin unsure

\* One call at a time: when none runs, every copy of a settled key is what was put
\* last, and a MODIFIED one is the only copy.  One put that all the other nodes
\* have executed puts right what lost invalidations before it have left; what is
\* still on its way from them does no harm.
CoherentWhenQuiet ==
  Quiet =>
    \A n \in Nodes, k \in Keys :
      Settled(k) /\ Has(cache[n], k) =>
        /\ At(cache[n], k).value = latest[k]
        /\ Owns(n, k) => \A m \in Nodes \ {n} : ~Has(cache[m], k)

\* One call at a time: a get of a settled key returns what was put last, or None.
FreshReads ==
  [][\A c \in Calls :
       /\ pc'[c] = "done" /\ pc[c] # "done"
       /\ call[c].op = "get" /\ Settled(call[c].key)
       => result'[c] \in {latest[call[c].key], Nothing}]_vars

\* Nodes that wait for each other's lock do not wait for ever: every get and put
\* returns, unless its node dies.
CallsReturn == \A c \in Calls : pc[c] = "wait" ~> pc[c] \in {"done", "lost"}

-----------------------------------------------------------------------------
(* What the documents say *)

\* "Value berhasil disimpan", the value was stored (docs/api_spec.yaml:372):
\* with room for every key, a key that was put is in some cache.
StoredSomewhere ==
  Quiet /\ Pending = {} =>
    \A c \in Calls :
      pc[c] = "done" /\ call[c].op = "put" =>
        \E n \in Nodes : Has(cache[n], call[c].key)

=============================================================================
