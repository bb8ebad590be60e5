SPECIFICATION ClusterSpec
CONSTANTS
  Nodes = {n1}
  Requests = {acq, rel}
  Cmd <- LockUnlock
  MaxTerm = 1
  Peers <- MCPeers
  None = None
  acq = acq
  rel = rel
  a = a
  b = b
  res = res
  Resources = {res}
  Owners = {a, b}
  Shared = "shared"
  Modes = {"shared", "exclusive"}
  NoMode = NoMode
INVARIANTS ReleasedIsFree
