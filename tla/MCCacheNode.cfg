SPECIFICATION Spec
CONSTANTS
  Nodes = {n1, n2}
  Keys = {k1}
  Calls = {c1, c2, c3}
  Peers <- Others
  Capacity = 1
  Query <- Unescaped
  Nothing = Nothing
  Concurrency = 3
  Strays = 3
CHECK_DEADLOCK FALSE
INVARIANTS TypeOK OwnersCollide
PROPERTIES CallsReturn
