---------------------------- MODULE MCCacheNode ----------------------------
(* CacheNode for TLC.                                                       *)
EXTENDS CacheNode, TLC, SequencesExt

\* docker-compose.yml: every node lists the other nodes.
Others == [n \in Nodes |-> SetToSeq(Nodes \ {n})]

\* One node keeps the default PEERS, which lists every node, itself too.
Default == CHOOSE n \in Nodes : TRUE
OneDefault == [Others EXCEPT ![Default] = SetToSeq(Nodes)]

\* One key is plain, the other ones are like it with "&x" behind.
Plain == CHOOSE k \in Keys : TRUE
Unescaped == [k \in Keys |-> Plain]

ASSUME DeploymentAssumption == PeersListed

Symmetry == Permutations(Calls)
=============================================================================
