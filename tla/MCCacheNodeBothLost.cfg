SPECIFICATION CalmSpec
CONSTANTS
  Nodes = {n1, n2}
  Keys = {k1}
  Calls = {c1, c2}
  Peers <- Others
  Capacity = 1
  Query <- Unescaped
  Nothing = Nothing
  Concurrency = 2
  Strays = 2
CHECK_DEADLOCK FALSE
INVARIANTS StoredSomewhere
