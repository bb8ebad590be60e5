--------------------------- MODULE MCLockCluster ---------------------------
(* LockCluster for TLC: what the clients ask for.                           *)
EXTENDS LockCluster, TLC

CONSTANTS a, b, res, acq, rel

MCPeers == [n \in Nodes |-> SetToSeq(Nodes \ {n})]

\* One client locks, and one unlocks at any time.
LockUnlock == [r \in Requests |->
                 IF r = rel THEN [type |-> "release", resource |-> res, owner |-> a]
                 ELSE [type |-> "acquire", resource |-> res, owner |-> a,
                       mode |-> "exclusive"]]
=============================================================================
