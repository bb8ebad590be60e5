-------------------------- MODULE MCTimedElection --------------------------
(* TimedElection for TLC: every node posts to the other nodes.              *)
EXTENDS TimedElection, TLC, SequencesExt

MCPeers == [n \in Nodes |-> SetToSeq(Nodes \ {n})]

Symmetry == Permutations(Nodes)
=============================================================================
