SPECIFICATION FairClusterSpec
CONSTANTS
  Nodes = {n1, n2}
  Requests = {acq}
  Cmd <- LockUnlock
  MaxTerm = 1
  Peers <- MCPeers
  None = None
  acq = acq
  rel = rel
  a = a
  b = b
  res = res
  Resources = {res}
  Owners = {a, b}
  Shared = "shared"
  Modes = {"shared", "exclusive"}
  NoMode = NoMode
PROPERTIES EveryRequestAnswered
