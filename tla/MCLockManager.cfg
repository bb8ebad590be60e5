SPECIFICATION FairSpec
CONSTANTS
  Nodes = {n1, n2}
  Resources = {r1}
  Owners = {a, b}
  Shared = "shared"
  Modes = {"shared", "exclusive"}
  NoMode = NoMode
  MaxLog = 3
INVARIANTS TypeOK LocksWellFormed ReplicaOfLog HeldUntilReleased
PROPERTIES ReplicasServeLocks EveryCommandApplied
