--------------------------- MODULE MCDeadlockLoop ---------------------------
(* DeadlockLoop for TLC.                                                    *)
EXTENDS DeadlockLoop, TLC, SequencesExt

Others == [n \in Nodes |-> SetToSeq(Nodes \ {n})]

Everything == Acquire \cup Release

\* Nobody asks for a shared lock, and one client alone ever gives a lock back.
ExclusiveOnly ==
  {cmd \in Acquire : cmd.mode # Shared}
    \cup {cmd \in Release : cmd.owner = CHOOSE o \in Owners : TRUE}

Symmetry == Permutations(Owners) \cup Permutations(Resources)
=============================================================================
