----------------------------- MODULE RaftRedis -----------------------------
(***************************************************************************)
(* Leadership and the log: src/consensus/raft_redis.py, with the handlers   *)
(* /raft/heartbeat and /raft/append of src/api/handlers.py.                 *)
(*                                                                          *)
(* There is no vote.  A node that has no leader, or that has heard nothing  *)
(* for three seconds, makes itself leader of the next term it knows and     *)
(* tells its peers; who hears it and knows no later term follows.  Commands *)
(* go to one Redis list under the asyncio lock self._lock of the node, the  *)
(* same lock a claim takes.                                                 *)
(*                                                                          *)
(* Time is abstracted: "heard nothing for three seconds" may be true at any *)
(* moment.  A heartbeat that is never delivered is a lost one, and one      *)
(* delivered late outlived the five seconds its sender waits for.           *)
(***************************************************************************)
EXTENDS Naturals, Sequences, FiniteSets

CONSTANTS
  Nodes,     \* node ids
  Requests,  \* calls of append_command, each made at most once
  Peers,     \* Peers[n]: raft.peers of n, in the order of the PEERS variable
  None,      \* no node: raft.leader before the first heartbeat
  MaxTerm    \* bound: no new claim is begun at this term

ASSUME PeersAssumption ==
  /\ None \notin Nodes
  /\ \A n \in Nodes : Peers[n] \in Seq(Nodes \ {n})

ASSUME MaxTermAssumption == MaxTerm \in Nat

VARIABLES
  leader,  \* leader[n]: raft.leader
  term,    \* term[n]: raft.term
  beat,    \* where n's heartbeat loop is: "idle" before the test of the leader,
           \* "claim" waiting for _lock, "post" in the loop over the peers
  left,    \* left[n]: the peers the loop has still to post to
  net,     \* heartbeats posted and not delivered
  lockq,   \* lockq[n]: _lock of n, its holder followed by the tasks that wait
  append,  \* append[r]: where the call of append_command for r is
  at,      \* at[r]: the node that runs it
  stamp,   \* stamp[r]: the term in its log entry
  try,     \* try[r]: RPUSHes redis-py has sent for it
  wire,    \* RPUSHes Redis has not executed
  rlog,    \* Redis list 'raft:log'
  claims   \* leaderships ever claimed; no variable of the code, the properties
           \* speak about it

electionVars == <<leader, term, beat, left, net, claims>>
appendVars   == <<append, at, stamp, try, wire, rlog>>
vars         == <<electionVars, lockq, appendVars>>

\* The heartbeat loop's place in the queue of _lock.
Claim == "claim"

ASSUME ClaimAssumption == Claim \notin Requests

AppendStates == {"new", "wait", "rpush", "answered", "ok", "refused", "error",
                 "lost"}

Heartbeat == [to : Nodes, leader : Nodes \cup {None}, term : Nat]
Entry     == [req : Requests, by : Nodes, term : Nat]

TypeOK ==
  /\ leader \in [Nodes -> Nodes \cup {None}]
  /\ term \in [Nodes -> Nat]
  /\ beat \in [Nodes -> {"idle", "claim", "post"}]
  /\ left \in [Nodes -> Seq(Nodes)]
  /\ net \in SUBSET Heartbeat
  /\ lockq \in [Nodes -> Seq(Requests \cup {Claim})]
  /\ append \in [Requests -> AppendStates]
  /\ at \in [Requests -> Nodes \cup {None}]
  /\ stamp \in [Requests -> Nat]
  /\ try \in [Requests -> 0 .. 2]
  /\ wire \in SUBSET (Requests \X (1 .. 2))
  /\ rlog \in Seq(Entry)
  /\ claims \in SUBSET (Nodes \X Nat)

Init ==
  /\ leader = [n \in Nodes |-> None]
  /\ term = [n \in Nodes |-> 0]
  /\ beat = [n \in Nodes |-> "idle"]
  /\ left = [n \in Nodes |-> << >>]
  /\ net = {}
  /\ lockq = [n \in Nodes |-> << >>]
  /\ append = [r \in Requests |-> "new"]
  /\ at = [r \in Requests |-> None]
  /\ stamp = [r \in Requests |-> 0]
  /\ try = [r \in Requests |-> 0]
  /\ wire = {}
  /\ rlog = << >>
  /\ claims = {}

-----------------------------------------------------------------------------
(* _heartbeat_loop and receive_heartbeat *)

\* What n does under the lock: leader of its next term.
BecomeLeader(n) ==
  /\ term' = [term EXCEPT ![n] = @ + 1]
  /\ leader' = [leader EXCEPT ![n] = n]
  /\ claims' = claims \cup {<<n, term[n] + 1>>}
  /\ beat' = [beat EXCEPT ![n] = "post"]
  /\ left' = [left EXCEPT ![n] = Peers[n]]

\* The test finds no leader, or an old heartbeat, and _lock is free: test,
\* lock and claim run without an await.
TimeoutClaim(n) ==
  /\ beat[n] = "idle" /\ term[n] < MaxTerm
  /\ lockq[n] = << >>
  /\ BecomeLeader(n)
  /\ UNCHANGED <<net, lockq, appendVars>>

\* The same, but an append holds _lock: the loop waits, and what it has tested
\* is not tested again.
TimeoutWait(n) ==
  /\ beat[n] = "idle" /\ term[n] < MaxTerm
  /\ lockq[n] # << >>
  /\ beat' = [beat EXCEPT ![n] = "claim"]
  /\ lockq' = [lockq EXCEPT ![n] = Append(@, Claim)]
  /\ UNCHANGED <<leader, term, left, net, claims, appendVars>>

\* The wait is over.
LockedClaim(n) ==
  /\ lockq[n] # << >> /\ Head(lockq[n]) = Claim
  /\ BecomeLeader(n)
  /\ lockq' = [lockq EXCEPT ![n] = Tail(@)]
  /\ UNCHANGED <<net, appendVars>>

\* The next peer is posted what n believes now, which may be no longer what it
\* has claimed.
PostHeartbeat(n) ==
  /\ beat[n] = "post" /\ left[n] # << >>
  /\ net' = net \cup {[to |-> Head(left[n]), leader |-> leader[n],
                       term |-> term[n]]}
  /\ left' = [left EXCEPT ![n] = Tail(@)]
  /\ UNCHANGED <<leader, term, beat, lockq, claims, appendVars>>

\* Every peer has answered or timed out: sleep, and test again.
EndPosts(n) ==
  /\ beat[n] = "post" /\ left[n] = << >>
  /\ beat' = [beat EXCEPT ![n] = "idle"]
  /\ UNCHANGED <<leader, term, left, net, lockq, claims, appendVars>>

\* Mutant: the leader is followed, its term is not taken over.
ReceiveNoTerm(m) ==
  /\ net' = net \ {m}
  /\ leader' = IF m.term >= term[m.to]
                 THEN [leader EXCEPT ![m.to] = m.leader] ELSE leader
  /\ UNCHANGED <<term, beat, left, lockq, claims, appendVars>>

\* Mutant: a heartbeat of an earlier term is followed as well.
ReceiveAnyTerm(m) ==
  /\ net' = net \ {m}
  /\ leader' = [leader EXCEPT ![m.to] = m.leader]
  /\ term' = [term EXCEPT ![m.to] = m.term]
  /\ UNCHANGED <<beat, left, lockq, claims, appendVars>>

\* A heartbeat arrives: its leader is followed unless its term is behind.
ReceiveHeartbeat(m) ==
  /\ net' = net \ {m}
  /\ IF m.term >= term[m.to]
       THEN /\ leader' = [leader EXCEPT ![m.to] = m.leader]
            /\ term' = [term EXCEPT ![m.to] = m.term]
       ELSE UNCHANGED <<leader, term>>
  /\ UNCHANGED <<beat, left, lockq, claims, appendVars>>

-----------------------------------------------------------------------------
(* append_command, called by /raft/append and by acquire and release of a   *)
(* node that takes itself for the leader                                    *)

\* The entry is made of the term the node has when it gets the lock.
Push(r, n) ==
  /\ append' = [append EXCEPT ![r] = "rpush"]
  /\ stamp' = [stamp EXCEPT ![r] = term[n]]
  /\ try' = [try EXCEPT ![r] = 1]
  /\ wire' = wire \cup {<<r, 1>>}

\* The caller finds its node is not the leader: 403.
RefuseAppend(r, n) ==
  /\ append[r] = "new" /\ leader[n] # n
  /\ append' = [append EXCEPT ![r] = "refused"]
  /\ at' = [at EXCEPT ![r] = n]
  /\ UNCHANGED <<electionVars, lockq, stamp, try, wire, rlog>>

\* It is, and _lock is free: the RPUSH leaves in the same step.
AppendNow(r, n) ==
  /\ append[r] = "new" /\ leader[n] = n
  /\ lockq[n] = << >>
  /\ lockq' = [lockq EXCEPT ![n] = <<r>>]
  /\ at' = [at EXCEPT ![r] = n]
  /\ Push(r, n)
  /\ UNCHANGED <<electionVars, rlog>>

\* Mutant: the RPUSH does not wait for the lock.
AppendUnlocked(r, n) ==
  /\ append[r] = "new" /\ leader[n] = n
  /\ lockq[n] # << >>
  /\ at' = [at EXCEPT ![r] = n]
  /\ Push(r, n)
  /\ UNCHANGED <<electionVars, lockq, rlog>>

\* It is, but _lock is taken.
AppendWait(r, n) ==
  /\ append[r] = "new" /\ leader[n] = n
  /\ lockq[n] # << >>
  /\ lockq' = [lockq EXCEPT ![n] = Append(@, r)]
  /\ at' = [at EXCEPT ![r] = n]
  /\ append' = [append EXCEPT ![r] = "wait"]
  /\ UNCHANGED <<electionVars, stamp, try, wire, rlog>>

\* The lock is handed to the call: who leads now is not asked again.
AppendLocked(r) ==
  /\ append[r] = "wait" /\ Head(lockq[at[r]]) = r
  /\ Push(r, at[r])
  /\ UNCHANGED <<electionVars, lockq, at, rlog>>

\* Redis executes an RPUSH.  Its answer counts if the client still waits on
\* the connection it came by.
RedisExecutes(r, t) ==
  /\ <<r, t>> \in wire
  /\ wire' = wire \ {<<r, t>>}
  /\ rlog' = Append(rlog, [req |-> r, by |-> at[r], term |-> stamp[r]])
  /\ append' = IF append[r] = "rpush" /\ try[r] = t
                 THEN [append EXCEPT ![r] = "answered"] ELSE append
  /\ UNCHANGED <<electionVars, lockq, at, stamp, try>>

\* No answer within socket_timeout: retry_on_timeout sends the RPUSH once more,
\* whether or not Redis has executed or will execute the first.
RedisRetry(r) ==
  /\ append[r] \in {"rpush", "answered"} /\ try[r] = 1
  /\ append' = [append EXCEPT ![r] = "rpush"]
  /\ try' = [try EXCEPT ![r] = 2]
  /\ wire' = wire \cup {<<r, 2>>}
  /\ UNCHANGED <<electionVars, lockq, at, stamp, rlog>>

\* The call returns, or raises, and the lock goes to the next in line.
EndAppend(r, how) ==
  /\ append' = [append EXCEPT ![r] = how]
  /\ lockq' = [lockq EXCEPT ![at[r]] = Tail(@)]
  /\ UNCHANGED <<electionVars, at, stamp, try, wire, rlog>>

\* Mutant: the call does not wait for the answer of Redis.
ReturnsEarly(r) == append[r] \in {"rpush", "answered"} /\ EndAppend(r, "ok")

AppendReturns(r) == append[r] = "answered" /\ EndAppend(r, "ok")

\* Mutant: an exception leaves the lock taken.
RaisesKeepsLock(r) ==
  /\ append[r] \in {"rpush", "answered"}
  /\ append' = [append EXCEPT ![r] = "error"]
  /\ UNCHANGED <<electionVars, lockq, at, stamp, try, wire, rlog>>

AppendRaises(r) ==
  append[r] \in {"rpush", "answered"} /\ EndAppend(r, "error")

-----------------------------------------------------------------------------

\* The process of n starts again: term, leader and every call in progress are
\* gone, what it has sent is not.
Restart(n) ==
  /\ leader' = [leader EXCEPT ![n] = None]
  /\ term' = [term EXCEPT ![n] = 0]
  /\ beat' = [beat EXCEPT ![n] = "idle"]
  /\ left' = [left EXCEPT ![n] = << >>]
  /\ lockq' = [lockq EXCEPT ![n] = << >>]
  /\ append' = [r \in Requests |->
                  IF at[r] = n /\ append[r] \in {"wait", "rpush", "answered"}
                    THEN "lost" ELSE append[r]]
  /\ UNCHANGED <<net, claims, at, stamp, try, wire, rlog>>

Election(n) ==
  TimeoutClaim(n) \/ TimeoutWait(n) \/ LockedClaim(n) \/ PostHeartbeat(n)
    \/ EndPosts(n)

StartAppend(r, n) == RefuseAppend(r, n) \/ AppendNow(r, n) \/ AppendWait(r, n)

RunAppend(r) ==
  AppendLocked(r) \/ RedisRetry(r) \/ AppendReturns(r) \/ AppendRaises(r)

Next ==
  \/ \E n \in Nodes : Election(n) \/ Restart(n)
  \/ \E m \in net : ReceiveHeartbeat(m)
  \/ \E r \in Requests, n \in Nodes : StartAppend(r, n)
  \/ \E r \in Requests : RunAppend(r) \/ \E t \in 1 .. 2 : RedisExecutes(r, t)

Spec == Init /\ [][Next]_vars

\* Tasks that have the lock, or are next in line for it, run; a Redis call
\* answers or raises.
Fairness ==
  /\ \A n \in Nodes : WF_vars(LockedClaim(n))
  /\ \A r \in Requests :
       WF_vars(AppendLocked(r)) /\ WF_vars(AppendReturns(r) \/ AppendRaises(r))

FairSpec == Spec /\ Fairness

-----------------------------------------------------------------------------

\* Whatever is lost, late or interleaved with an append, a leader somebody
\* believes in or announces is one that has claimed that very term: the two
\* fields leader and term are never of two different claims.
LeadershipClaimed ==
  /\ \A n \in Nodes : leader[n] # None => <<leader[n], term[n]>> \in claims
  /\ \A m \in net : <<m.leader, m.term>> \in claims

Queued(q, t) == \E i \in DOMAIN q : q[i] = t
NoRepeat(q)  == \A i, j \in DOMAIN q : q[i] = q[j] => i = j

RpushHoldsLock ==
  \A r \in Requests :
    append[r] \in {"rpush", "answered"} =>
      lockq[at[r]] # << >> /\ Head(lockq[at[r]]) = r

WaitersQueued ==
  /\ \A r \in Requests : append[r] = "wait" => Queued(lockq[at[r]], r)
  /\ \A n \in Nodes : beat[n] = "claim" => Queued(lockq[n], Claim)

\* The call whose RPUSH is out holds _lock of its node, calls and claims that
\* wait are in its queue, and none is queued twice.
LockDiscipline ==
  RpushHoldsLock /\ WaitersQueued /\ \A n \in Nodes : NoRepeat(lockq[n])

\* How often the command of r is in the log.
Logged(r) == Cardinality({i \in DOMAIN rlog : rlog[i].req = r})

\* Every RPUSH sent is executed once or still on its way; a call that returned
\* has its command in the log, and one refused by the handler has not.
LogAccounts ==
  \A r \in Requests :
    /\ Logged(r) + Cardinality({t \in 1 .. 2 : <<r, t>> \in wire}) = try[r]
    /\ append[r] = "ok" => Logged(r) > 0
    /\ append[r] \in {"new", "wait", "refused"} => try[r] = 0

\* A node never returns to an earlier term, unless it starts again.
TermGrows == [][\A n \in Nodes : term'[n] >= term[n] \/ leader'[n] = None]_vars

\* The lock is never lost: a call that waits for it returns, raises or dies
\* with its node, although claims and other calls queue for the same lock.
AppendsEnd ==
  \A r \in Requests :
    append[r] \in {"wait", "rpush"} ~> append[r] \in {"ok", "error", "lost"}

=============================================================================
