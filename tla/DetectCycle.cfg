SPECIFICATION SearchSpec
CONSTANTS
  Owners = {a, b, c}
  MaxEdges = 5
  Resources = {res}
  Shared = "shared"
  Modes = {"shared", "exclusive"}
  NoMode = NoMode
CHECK_DEADLOCK FALSE
INVARIANTS CycleIsReal CycleIsFound
PROPERTIES SearchAdvances SearchEnds
