---------------------------- MODULE LockCluster ----------------------------
(***************************************************************************)
(* Clients that lock and unlock through the nodes: /locks/acquire and       *)
(* /locks/release with LockManager.acquire and release of                   *)
(* src/nodes/lock_manager.py, on top of RaftRedis.                          *)
(*                                                                          *)
(* A node that takes itself for the leader appends the command; another one *)
(* forwards it with one POST to the node it takes for the leader.  The POST *)
(* never raises, so the forwarding node answers success whatever became of  *)
(* the command.  What the log makes of the locks is LockTable's Apply.      *)
(***************************************************************************)
EXTENDS RaftRedis, LockTable, SequencesExt

CONSTANTS
  Cmd  \* Cmd[r]: the command of request r

ASSUME ClientsAssumption == Cmd \in [Requests -> Acquire \cup Release]

VARIABLES
  op,   \* op[r]: "new"; "local", run by the node asked; "forwarded", the node
        \* asked waits for its POST; then what it answered: "true", "false", or
        \* "error" when it died first
  via,  \* via[r]: the node the client has asked
  fwd,  \* forwarded commands that have not arrived: <<r, leader>>
  after \* after[r]: requests answered before r was made; no variable of the
        \* code, the properties speak about it

clientVars  == <<op, via, fwd, after>>
clusterVars == <<vars, clientVars>>

ClusterInit ==
  /\ Init
  /\ op = [r \in Requests |-> "new"]
  /\ via = [r \in Requests |-> None]
  /\ fwd = {}
  /\ after = [r \in Requests |-> {}]

Answered(r) == \/ op[r] \in {"true", "false", "error"}
               \/ op[r] = "local" /\ append[r] \in {"ok", "error", "lost"}

Asks(r, n, how) ==
  /\ op[r] = "new"
  /\ after' = [after EXCEPT ![r] = {b \in Requests : Answered(b)}]
  /\ op' = [op EXCEPT ![r] = how]
  /\ via' = [via EXCEPT ![r] = n]

\* acquire or release at a node that takes itself for the leader.
AskLeader(r, n) ==
  /\ Asks(r, n, "local")
  /\ AppendNow(r, n) \/ AppendWait(r, n)
  /\ UNCHANGED fwd

\* Mutant: that there is a leader is not tested.
AskAnyLeader(r, n) ==
  /\ leader[n] # n
  /\ Asks(r, n, "forwarded")
  /\ fwd' = fwd \cup {<<r, leader[n]>>}
  /\ UNCHANGED vars

\* At a node that follows another one.
AskFollower(r, n) ==
  /\ leader[n] \notin {n, None}
  /\ Asks(r, n, "forwarded")
  /\ fwd' = fwd \cup {<<r, leader[n]>>}
  /\ UNCHANGED vars

\* At a node that has no leader yet.
AskNobody(r, n) ==
  /\ leader[n] = None
  /\ Asks(r, n, "false")
  /\ UNCHANGED <<vars, fwd>>

\* /raft/append at the node that was taken for the leader.
ForwardArrives(r, p) ==
  /\ <<r, p>> \in fwd
  /\ StartAppend(r, p)
  /\ fwd' = fwd \ {<<r, p>>}
  /\ UNCHANGED <<op, via, after>>

\* Mutant: the POST has no time limit, it returns when it has arrived.
ForwardWaits(r) ==
  /\ op[r] = "forwarded" /\ append[r] # "new"
  /\ op' = [op EXCEPT ![r] = "true"]
  /\ UNCHANGED <<vars, via, fwd, after>>

\* The POST returns: with an answer, a 403, an error or after five seconds.
ForwardReturns(r) ==
  /\ op[r] = "forwarded"
  /\ op' = [op EXCEPT ![r] = "true"]
  /\ UNCHANGED <<vars, via, fwd, after>>

\* The process of n starts again, and its clients lose their connection.
ClusterRestart(n) ==
  /\ Restart(n)
  /\ op' = [r \in Requests |->
              IF op[r] = "forwarded" /\ via[r] = n THEN "error" ELSE op[r]]
  /\ UNCHANGED <<via, fwd, after>>

\* Elections, calls in progress and Redis go on as in RaftRedis.
ElectionStep == (\E n \in Nodes : Election(n)) \/ (\E m \in net : ReceiveHeartbeat(m))
AppendStep ==
  \E r \in Requests : RunAppend(r) \/ \E t \in 1 .. 2 : RedisExecutes(r, t)

ClusterNext ==
  \/ ElectionStep /\ UNCHANGED clientVars
  \/ AppendStep /\ UNCHANGED clientVars
  \/ \E r \in Requests, n \in Nodes :
       \/ AskLeader(r, n)
       \/ AskFollower(r, n)
       \/ AskNobody(r, n)
       \/ ForwardArrives(r, n)
  \/ \E r \in Requests : ForwardReturns(r)
  \/ \E n \in Nodes : ClusterRestart(n)

ClusterSpec == ClusterInit /\ [][ClusterNext]_clusterVars

ClusterFairness ==
  /\ \A n \in Nodes : WF_clusterVars(LockedClaim(n) /\ UNCHANGED clientVars)
  /\ \A r \in Requests :
       /\ WF_clusterVars(AppendLocked(r) /\ UNCHANGED clientVars)
       /\ WF_clusterVars((AppendReturns(r) \/ AppendRaises(r)) /\ UNCHANGED clientVars)
       /\ WF_clusterVars(ForwardReturns(r))

FairClusterSpec == ClusterSpec /\ ClusterFairness

-----------------------------------------------------------------------------

ClusterTypeOK ==
  /\ TypeOK
  /\ op \in [Requests -> {"new", "local", "forwarded", "true", "false", "error"}]
  /\ via \in [Requests -> Nodes \cup {None}]
  /\ fwd \in SUBSET (Requests \X Nodes)
  /\ after \in [Requests -> SUBSET Requests]

\* The locks as the whole log leaves them.
LogTable == FoldLeft(LAMBDA t, e : Apply(t, Cmd[e.req]), EmptyTable, rlog)

\* Requests that the leader has answered before another one is made come before
\* it in the log, although RPUSHes are repeated and executed late.
LogOrder ==
  \A r \in Requests : \A b \in after[r] :
    op[b] = "local" /\ append[b] = "ok" =>
      \A i \in DOMAIN rlog :
        rlog[i].req = r => \E j \in 1 .. i - 1 : rlog[j].req = b

\* No client waits for ever, whatever happens to the node it has asked and to the
\* node that was taken for the leader.
EveryRequestAnswered ==
  \A r \in Requests : op[r] # "new" ~> Answered(r)

-----------------------------------------------------------------------------
(* What the documents say *)

Settled(r) == (\A n \in Nodes : <<r, n>> \notin fwd)
              /\ append[r] \notin {"wait", "rpush", "answered"}
              /\ \A t \in 1 .. 2 : <<r, t>> \notin wire

\* "Lock berhasil dilepas", the lock was released (docs/api_spec.yaml:236): once
\* the leader has answered a client's acquire and then its release, and nothing is
\* under way, the client does not hold the lock.
ReleasedIsFree ==
  \A r \in Requests :
    /\ Cmd[r].type = "release"
    /\ \A q \in Requests : Settled(q) /\ op[q] = "local" /\ append[q] = "ok"
    /\ after[r] = Requests \ {r}
    => Cmd[r].owner \notin LogTable[Cmd[r].resource].holders

=============================================================================
