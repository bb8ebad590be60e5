SPECIFICATION TimelySpec
CONSTANTS
  Nodes = {n1, n2}
  Leaders = {n1}
  Peers <- Others
  Owners = {a, b}
  Resources = {r1, r2}
  Shared = "shared"
  Modes = {"exclusive", "shared"}
  NoMode = NoMode
  Commands <- ExclusiveOnly
  MaxCommands = 4
  MaxLog = 8
PROPERTIES DeadlocksResolved
CHECK_DEADLOCK FALSE
