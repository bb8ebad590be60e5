SPECIFICATION FairClusterSpec
CONSTANTS
  Nodes = {n1}
  Requests = {acq, rel}
  Cmd <- LockUnlock
  MaxTerm = 2
  Peers <- MCPeers
  None = None
  acq = acq
  rel = rel
  a = a
  b = b
  res = res
  Resources = {res}
  Owners = {a, b}
  Shared = "shared"
  Modes = {"shared", "exclusive"}
  NoMode = NoMode
INVARIANTS ClusterTypeOK LockDiscipline LogAccounts LogOrder
PROPERTIES AppendsEnd
