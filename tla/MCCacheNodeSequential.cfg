SPECIFICATION Spec
CONSTANTS
  Nodes = {n1, n2}
  Keys = {k1, k2}
  Calls = {c1, c2, c3}
  Peers <- OneDefault
  Capacity = 1
  Query <- Unescaped
  Nothing = Nothing
  Concurrency = 1
  Strays = 1
CHECK_DEADLOCK FALSE
SYMMETRY Symmetry
INVARIANTS CoherentWhenQuiet ExcessIsFetched
PROPERTIES FreshReads
