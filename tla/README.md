# A TLA+ model of the distributed sync system

The repository is a small distributed system in Python: every node runs a
simplified leader election, a lock manager replicated over a Redis list, a cache
kept coherent by messages, and a queue. This directory models the parts in which
nodes, tasks and messages interleave, checks them with TLC and proves the most
important facts with TLAPS. Paths below are relative to the repository.

## The system

| Part | State | Operations | Modelled in |
|---|---|---|---|
| Election and log, `src/consensus/raft_redis.py` | `leader`, `term`, `last_heartbeat`, `_lock`; Redis list `raft:log` | `_heartbeat_loop`, `receive_heartbeat`, `append_command` (`get_log` only reads; `_tail_log_loop`) | RaftRedis, TimedElection |
| Lock manager, `src/nodes/lock_manager.py` | `locks` (mode, holders, queue), `_last_applied` | `_apply_loop`, `_apply_acquire`, `_apply_release` | LockTable, LockManager; LockService |
| Deadlock detection, same file | local edges of one round | `_deadlock_loop`, `local_wait_for_edges`, `_detect_cycle` | DeadlockLoop, DetectCycle |
| Lock API, same file and `src/api/handlers.py` | none | `acquire`, `release`: append at the leader, forward elsewhere | LockCluster |
| Cache, `src/nodes/cache_node.py` | `cache` (ordered lines, state M or S), `_lock` | `get`, `put`, `handle_invalidate`, `handle_fetch` | CacheNode |
| Message client, `src/communication/message_passing.py` | one HTTP session | `post`, `get`: an answer, or `None` after any error or 5 s | in its callers |
| Node, `src/nodes/base_node.py` | wiring | start-up, Redis client with `retry_on_timeout` | in the others |
| Queue, `src/nodes/queue_node.py` | Redis lists or files in `/tmp` | `produce`, `consume`, `get_queue_length` | Queue; Fifo |
| Metrics, logging, error handling, configuration, `src/utils/` | counters | monitoring | see below |

How the parts interact:

* Everything runs on one asyncio event loop per node: code between two `await`s
  is atomic, and an action of the models is such a stretch of code.
* Nodes share one Redis. A lock command is an entry of `raft:log`; the leader
  appends it, and every node, the leader too, learns of it by polling the list.
* Nodes call each other by HTTP: heartbeats, forwarded commands, wait-for edges,
  cache invalidations and fetches. A call gives no answer when it is refused, when
  no connection comes about within two seconds, after any error and after five
  seconds: it may then have been lost, or executed, or be executed later.
* `append_command` and the claim of `_heartbeat_loop` take the same asyncio lock;
  the four operations of the cache take the lock of their node, and `get` and
  `put` keep it while they call peers.

What is hard: tests run one node and no failures. The behaviours that matter are
the ones of several nodes and tasks: a value tested before a wait for a lock and
used after it, heartbeats of several leaders in any order, RPUSHes the client
repeats, forwarded commands that are lost although the client is told success,
replicas behind the log by different distances while a wait-for graph is put
together from them, calls between two caches that hold their locks, a queue file
that is read, truncated and rewritten in steps, and a task that an exception
ends. `PROJECT.json` lists each hazard at its line.

A note on deployment: `MessageClient._url` adds the node's number to port 8000,
while `docker/docker-compose.yml` lets every node listen on 8000 inside the
network. There every call between nodes is refused. In the models of the election
and of the locks that is the case in which no message ever arrives; in CacheNode
`Lose` takes every request, so every put that sends invalidations leaves them `missed`, two nodes
that put a key both own it for good, and a get answers what its own node has. With
processes on one host calls do arrive, and the models cover that too.

## Modules

* **LockTable** has no behaviour: the table `LockManager.locks` as a value,
  `Grant` (`_apply_acquire`), `Free` (`_apply_release`), `Apply` (one log entry),
  `WaitFor` (`local_wait_for_edges`), `OnCycle` (what `_detect_cycle` finds) and
  the parts of a well-formed lock.
* **LockManager**: the log and one replica per node. `Poll` is the step from `llen`
  to `lindex`, with the index incremented before the fetch; `FetchApply` the step
  from the answer of `lindex` on; `LoopDies` an exception of either call;
  `Restart` a new process. `LossySpec` adds `RedisLosesTail`: Redis back from a
  snapshot. Two variables serve the properties only: `history` keeps the table of
  every log prefix, `stranded` the nodes that were past the end of the log when it
  was cut and have not started again.
* **LockService** is the abstract specification of one lock server: a lock is taken,
  shared, waited for, left or handed to the head of its queue, or the server
  forgets all of it. `LockManager` instantiates it with its tables;
  `ReplicasServeLocks` says that every step of a replica is one of these or none.
* **RaftRedis**: the heartbeat loop (test, wait for the lock, claim, one post after
  the other), the network, `append_command` (wait for the lock, RPUSH, answer, the
  retry of redis-py), the handler's test of the leader, restarts. `Push` stamps the
  term when the lock is got, as the code does.
* **TimedElection** extends RaftRedis with seconds: the age of `last_heartbeat` and
  the time the loop has spent in its sleep or post. `Tick` may not pass a deadline:
  a sleep of one second, a post of at most five (`ClientTimeout`), each longer by
  `Lag` while `metrics.py` measures the CPU with a call that blocks the event loop.
  No command is appended in it, so a claim never waits for the lock.
* **LockCluster** composes RaftRedis and LockTable: clients ask some node, which
  appends, forwards or refuses.
* **DetectCycle** is the depth-first search of `_detect_cycle` with its shared stack
  and set of visited owners as variables. A step is one call of `dfs` or one turn of
  a loop; the code does not yield in between, the steps only let an invariant speak
  of the search half-way. Its contract, `CycleIsFound`, is what `NoVictim` and
  `PickVictim` of DeadlockLoop take for granted.
* **DeadlockLoop**: the log, how far each replica has applied it, and the rounds of
  `_deadlock_loop`: one answer after the other, a victim, and the release as a
  step of its own. That a replica is a prefix of the log is not assumed: it is
  theorem `ReplicasFollowLog`. The owner `_detect_cycle` puts first depends on the
  order of Python sets, so any owner on a cycle may be the victim; its lock is the
  first one in the dictionary, as in the code.
* **CacheNode**: the ordered dictionaries, the queues of the asyncio locks, the
  calls of the peers and what becomes of them. A request arrives (`Deliver`), is lost
  (`Lose`: refused, not connected, broken off) or stays on its way; `Timeout` ends a
  call at any moment, on an error or after its five seconds, wherever the request is
  by then; `Restart` empties a node in the middle of its calls. `Query` says which key
  a peer reads out of the URL that the key of a fetch is put into (`Wanted`): `x` for
  `x&y`. `Without` removes the one line of a key (an `OrderedDict` has no two).
  Three variables serve the properties only: `latest` is what was put last, `missed`
  the invalidations that were lost and not made good by a later one at the same node,
  `unsure` the keys of which the last put to send invalidations went on without
  knowing that every other node has executed its own. `CalmSpec` has no losses,
  restarts or errors, only time-outs of calls that wait for a node that waits too; the
  finding `cache_both_lost` needs no more. `PeersListed` says of a deployment that
  every node lists the others, as `docker/docker-compose.yml` and the default of
  `PEERS` have it.
* **Queue**: one topic, in Redis or in files; which of the two is chosen at start-up,
  as `redis.from_url` raises or not. In Redis a command is sent, executed, answered
  and, after a time-out, sent again; in a file `Open`, `Write`, `Read`, `Truncate`
  and `Rewrite` are steps of their own under the asyncio lock. `RewriteFails` and
  `Restart` in the middle of a rewrite leave a part of the lines. A message with a
  line break is one element of a list and several lines of a file, and in file mode
  `consume` answers a line without the blanks at its ends (`Strip`, `Said`). A consume
  that finds nothing ends as "none", one that answers `None` after an exception as
  "failed": the client sees no difference, `Accounted` does.
* **Fifo** is the abstract specification of a topic: lines enter at the end, leave at
  the head, and the end may go missing. Queue implements it with the lines that are
  still to be rewritten counted as there (`Items`).
* **MC\*** modules give the constants values that a configuration cannot express;
  DetectCycle needs none.
* **\*Proofs** modules hold the theorems.

Definitions that start with the comment "Mutant" are wrong on purpose: each
property is shown to fail when one of them replaces the definition after it.

## What is checked

Passing runs:

| Run | Bounds | Shows |
|---|---|---|
| replicas | 2 nodes, 2 owners, 1 resource, both modes, log of 3 | tables well formed and equal to the prefix consumed; at different indices a holder has gone only with a release in between (`HeldUntilReleased`); a logged command reaches every node that stays up and whose loop survives; every replica is a lock service |
| timed_election | 2 nodes, term 2, time-out 3 s, sleep 1 s, post 5 s, lag 1 s | leader and term always of one claim; terms never fall back; a silent leader is given up within 8 s |
| cluster_node | 1 node, a lock and an unlock request, term 2 | lock discipline; every append ends; every RPUSH accounted for; commands in the log in the client's order |
| cluster_forward | 2 nodes, 1 request, term 1 | every client is answered |
| cycle | 3 owners, every list of up to 5 edges | a cycle is returned just when there is one, and it is one; the search never comes back to a turn it has made, and ends |
| deadlock_abort | 2 nodes, 2 owners, 1 resource, both modes, log of 4 | without a release in between, the victim is in a deadlock now |
| deadlock_resolved | 2 nodes, 2 owners, 2 resources, 4 commands and up to 4 aborts | deadlocks end |
| cache_concurrent | 2 nodes, 1 key, 3 concurrent calls, losses, time-outs and restarts at any moment | two owners only while an invalidation is pending or after one was lost; every call returns |
| cache_sequential | 2 nodes, one of them its own peer, 2 keys of which one is fetched as the other, 3 calls, one at a time, at most one stray request when a client calls, the same faults, capacity 1 | coherent copies and fresh reads of settled keys; lines beyond the capacity are fetched ones |
| queue | 1 node, Redis or file, 2 produces, one with a line break and blanks, 2 consumes, 1 repeated command | a topic is first-in first-out; nothing lost, taken or doubled without a cause; order of acknowledged messages; every call ends |

The bounds are small but reach what the properties are about. Two replicas are
enough for one to be ahead, behind, restarted or dead, and three commands for a
lock that is taken, waited for and handed over. Two appends and a claim are the
shortest queue with somebody in the middle. In the queue, two lines are enough for
a rewrite that writes some and loses some, and two consumes for one that waits for
a lock whose holder fails. In seconds the bound of `FailoverBound` is reached: with
one second less the run fails. Two nodes and two terms let a
heartbeat arrive after its receiver has claimed the next term, and after its
sender has. Four commands are the shortest log with a cross-wise deadlock, and a
request for a lock one holds already makes one in two. Three calls on two nodes
let a late invalidation meet a third call, and a put make good what a lost
invalidation has left. `MaxTerm` stops claims, `MaxLog` and
`MaxCommands` appends, `MaxEdges` the list of edges, `Concurrency` the clients,
`Strays` the requests of earlier calls that are still on their way when a client calls,
`MaxRepeats` the commands of the queue that are sent again.
Where nothing can follow (all clients done) the configuration does not check for
deadlock.

Two runs end in a counterexample; each checks a statement of the documents
against the code, quoted in `PROJECT.json` under "findings":

* *cluster_held_again*: a repeated RPUSH gives a released lock back to its owner.
* *cache_both_lost*: two puts of one key that time out on each other end with
  neither value anywhere, although no request is lost and no node fails.

Other statements of the documents that the models show not to hold, without a run
of their own, as each is plain from the lines it is about:

* one failed `llen` or `lindex` ends the apply loop of a node that stays up
  (`LoopDies`), and one failed append ends deadlock detection (`AbortFails`);
* after Redis has lost the end of the list (`RedisLosesTail`), the nodes that were
  past its end (`stranded`) have tables of their own until they start again;
* a shared request joins a shared lock whoever waits, so the queue is not fair
  (`11221090_Laporan Tugas 2.md:83` calls it "fair queuing policy"), and
  `LockService` promises no order between them;
* the queue does not deliver at least once (`11221090_Laporan Tugas 2.md:35`): a
  consume whose answer is lost has taken the message, a repeated LPOP takes two, and
  a broken rewrite of a file loses acknowledged messages;
* recovery of the leader takes up to `max(3, 6 * peers) + 2` seconds, which the
  README of the repository (`README.md:313`) puts below one second;
* two nodes may lead the same term, and an append that has waited for the lock is
  stamped with a term its node never led;
* a forwarded command is acknowledged whatever became of it, and an acknowledged
  acquire is logged, not granted;
* in file mode a message comes back without the blanks at its ends
  (`nodes/queue_node.py:57`), with Redis as it was;
* a get of `x&y` fetches `x` and stores its value under `x&y` (`nodes/cache_node.py:108`),
  where the next get finds it: nothing is claimed of such a key (`Settled`);
* one invalidation that is refused leaves a stale copy or a second owner until the
  next put that sends any reaches that node, and with the ports of
  `docker-compose.yml` every one is;
* concurrent calls may leave two caches with different values of a key, a miss
  returns `None` although a peer had the value, a fetched line is stored without
  an eviction, and a node whose `PEERS` names itself (the default,
  `nodes/base_node.py:13`) calls itself under its own lock and loses what it has put
  when the call is executed late.

### Fairness

Tasks of an event loop run when they can (weak fairness of the steps that need no
outside event), a Redis call answers or raises within `socket_timeout`, an HTTP
call ends after five seconds. `_detect_cycle` does not await and so runs to its end
(`SearchStep`). In RaftRedis and LockCluster nothing is assumed about
messages arriving. In Queue a call that has the lock or an answer goes on, or
fails; that Redis executes a command is not assumed. In CacheNode nothing is assumed
of requests: a call ends because `Timeout`, which is always possible while a call is
out, has a limit of five seconds in the code. Losses and restarts are never forced. In DeadlockLoop's
`TimelySpec` nodes answer, replicas catch up before the next round
(0.2 s against 5 s) and one node keeps taking itself for the leader; appends of a
release may fail and end its loop, and `DeadlocksResolved` speaks of a loop that
lives on. TimedElection needs no fairness: `FailoverBound` is an invariant on clocks
that cannot pass a deadline. Crashes are
never forced nor excluded; properties of a node that stays up say so.

## What is proved

Proofs hold for any finite or infinite sets of nodes, owners, resources, requests
and any bounds; they use the named assumptions on the constants only
(`ModesAssumption`, `PeersAssumption`, `MaxTermAssumption`, ...), which TLC
evaluates in every run, and hypotheses that are stated where they are needed.

* `LockTableProofs`: `Grant` and `Free` keep entries well typed and well formed;
  an acquire takes no edge away from the wait-for graph (`AcquireKeepsWaits`), a
  cycle survives more edges (`OnCycleGrows`).
* `LockManagerProofs`: `TypeCorrect`, `TablesWellFormed` and, with a lossy Redis,
  `LossyTables` follow from the lemmas above, as every table is changed by `Apply`
  only. That tables follow the log needs more: `ReplicaInv` adds that `history[k+1]`
  is `Apply` of `history[k]` and the k-th command, and that the index of a node that
  is not stranded is inside the log, also in the middle of a fetch. From it,
  `LossyReplicas` holds on a Redis that loses the end of the log
  for every node that is not stranded; without the loss nobody is stranded, so
  `ReplicasFollowLog` speaks of all, and two nodes at one index have one table. `HeldTillReleased` compares replicas at different
  places: `HistoryHolds` says the same of any two tables of the history, and an entry
  takes a lock from nobody but the owner it releases (`ApplyHolds`). With
  `LossyTables` this gives `NodesExclude`, mutual exclusion between nodes: while the
  holder of an exclusive lock has logged no release, no node further ahead shows
  another holder. `ServesLocks` is the refinement: `GrantServes`
  and `FreeServes` show that each branch of `_apply_acquire` and `_apply_release` is
  a step of the lock service, `ServiceStep` lifts it to every action.
* `RaftRedisProofs`: `LockDisciplined` (the lock's queue never holds a task twice,
  its head is the append whose RPUSH is out, who waits is in it), `LeadersClaimed`
  by an invariant that also covers what a node in the middle of its posts will
  announce, and `TermsGrow` as an action property. `LogAccounted` counts: the
  entries of a request in the log and its RPUSHes on the way are together the ones
  that were sent (`CountRight`), through errors, repeats and restarts.
* `TimedElectionProofs`: `FailsOver`, for any number of nodes and peers and any
  times. In the invariant `TimedInv` a node that sleeps is no older than the bound
  less what is left of its sleep, one that posts no older than its posts so far may
  have taken. `TimedLeaders` carries over what is proved of RaftRedis: a step in
  seconds is a step of RaftRedis or none.
* `LockClusterProofs`: `ClusterImplementsRaft`, hence every theorem of RaftRedis
  holds in the cluster, and `LogKeepsOrder`, which needs `LogAccounted`: what has
  been answered is in the log already, so what is asked afterwards comes later,
  also as a repeated RPUSH or a late forward. `ClusterFeedsReplicas` joins it to the
  replicas: the commands in its log are a log as `AppendCommand` of LockManager grows
  it, so what is proved of replicas on any log holds of those on this one.
* `DeadlockLoopProofs`: `AbortsJustified`. The victim is on a cycle of edges of
  different moments. The invariant `AbortInv` says that, as long as nothing was
  released, every edge of every earlier table is one of the current table
  (`KeepsWaits`), hence every gathered edge is (`EdgesHold`). `KeepsWaits` has to
  speak of the whole history, as the next answer may come from any prefix.
  Then the search, for any list of edges: `CyclesReal`, `CyclesFound` and
  `SearchesAdvance`. In `SearchInv` the stack is a path of the graph (`PathRight`), the
  owners `dfs` has returned for are closed under the edges and on no cycle
  (`DoneRight`), and the loops of the owners on the stack have passed edges to those
  or to the next on the stack only (`LookedRight`). That the returned piece of the
  stack makes each owner on it wait for itself (`Leads`) is shown from the sets
  `OnCycle` quantifies over, not by an induction over the piece.
* `CacheNodeProofs`, all of it with lost and late requests, time-outs at any moment
  and restarts. First for any number of concurrent calls. `CachesWellFormed` rests on
  `CacheInv`: a cache has one line per key, a call holds the lock of its node from its
  first request until it returns, and every request has a peer it is for.
  `ExcessFetched` gives each line over the capacity a get of its own that has returned
  `None` (`ExcessInv`). `OneOwnerRemains`: `ClaimsInv` treats a put that still calls
  its peers like an owner, towards the peers it has called already; of two such nodes
  one has the invalidation of the other still to execute, or has missed it. Then with
  one call at a time: `CopiesCoherent` and `ReadsFresh`, of keys that are fetched as
  they are and whose last invalidations were all executed (`Settled`). `CoherentInv`
  has three parts: between calls every copy of such a key is what was put last and an
  owner has the only one (`AtRest`); the peers that a put has heard from have no line
  of its key any more (`ToldGone`); and an answer that a get has heard is what was put
  last (`AnswerFresh`). Late requests do no harm to a settled key: an invalidation
  takes a line away and a fetch makes an owner share. What lost ones have left is gone
  once every other node has executed a later put's. The last three theorems assume `PeersListed`, and they need it: a node that is
  not listed is never told. `MCCacheNode` has TLC evaluate it.
* `QueueProofs`: `QueueTypes` and, by the same invariant `FileInv`, `TopicsAreFifo`,
  the refinement to `Fifo`. Who works on a file is the head of its lock's queue, so
  what `consume` has read is what the file holds until it is rewritten; a line that
  is still to be rewritten counts as there. `NothingUnaccounted` compares, for each
  call, the times its command was executed with the commands sent (`AccountInv`): with
  those still on the way they are no more than were sent, and one fewer for a consume
  that has found nothing, as one of its commands was executed in vain (`NonesRight`);
  `MessagesKeepOrder` follows the positions of two messages from the topic to the
  replies (`OrderInv`). Both need that a message is told from others by its first
  line, with its blanks or without (`FirstLinesDiffer`): the code gives messages no identity, so the properties
  speak of runs in which the clients do, as the configuration does.

Only model-checked: liveness, which the provers do not cover (`EveryCommandApplied`,
`AppendsEnd`, `EveryRequestAnswered`, `DeadlocksResolved`, `CallsReturn`, `CallsEnd`,
`SearchEnds`). Of `SearchEnds` the safety part is proved: no turn is repeated.

## Not modelled, and why

* Wording of requests and answers, the check for missing fields, monitoring
  endpoints and counters: no property depends on them.
* `_tail_log_loop`: writes `raft:applied:<node>`, which nothing reads.
* `get_log`, `get_queue_length`: they only read, and nothing depends on the answer.
* Time outside TimedElection: "nothing heard for three seconds" may be true at any
  moment. A claim that waits behind an append is in RaftRedis, not in TimedElection.
* Queue: a write that stops inside a line, a topic whose name is a path, messages
  that are not strings, and processes of one host that share `/tmp`
  (`docker-compose.yml` gives every node its own).
* Metrics and error handling: counters and percentiles that only monitoring reads.
  `RetryHandler`, `HealthChecker` and `PerformanceMonitor` have no caller.
  Configuration, load tests and scripts: no behaviour.
* In DeadlockLoop the release of a victim is logged once; repeated RPUSHes are the
  subject of RaftRedis.

## Plan

1. Done: LockTable, LockManager with its refinement to LockService, RaftRedis,
   TimedElection, LockCluster, DetectCycle, DeadlockLoop, CacheNode, Queue with its
   refinement to Fifo.
2. Done: every invariant and every action property that a run checks is a theorem;
   so are the refinements to LockService, Fifo and RaftRedis, and the contract of the
   search that DeadlockLoop uses.
3. The models of the log's writers and of its readers are joined by a theorem
   (`ClusterFeedsReplicas`), not by one composed specification, whose state space
   would be the product of both. Left for such a module: liveness from a client's
   request to the tables of the nodes.
