SPECIFICATION TimedSpec
CONSTANTS
  Nodes = {n1, n2}
  Requests = {}
  Peers <- MCPeers
  None = None
  MaxTerm = 2
  Timeout = 3
  Period = 1
  PostMax = 5
  Lag = 1
SYMMETRY Symmetry
INVARIANTS LeadershipClaimed FailoverBound
PROPERTIES TermGrows
