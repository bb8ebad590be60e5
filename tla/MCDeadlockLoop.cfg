SPECIFICATION Spec
CONSTANTS
  Nodes = {n1, n2}
  Leaders = {n1}
  Peers <- Others
  Owners = {a, b}
  Resources = {r1}
  Shared = "shared"
  Modes = {"exclusive", "shared"}
  NoMode = NoMode
  Commands <- Everything
  MaxCommands = 4
  MaxLog = 4
SYMMETRY Symmetry
INVARIANTS TypeOK AbortIsJustified
