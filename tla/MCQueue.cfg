SPECIFICATION Spec
CONSTANTS
  Nodes = {n1}
  Puts = {p1, p2}
  Gets = {g1, g2}
  Lines <- OneOrTwoLines
  Strip <- BareLines
  Redis = Redis
  Nothing = Nothing
  MaxRepeats = 1
  broken = p2
  rest = rest
  bare = bare
CHECK_DEADLOCK FALSE
INVARIANTS TypeOK Accounted ReceivedInOrder
PROPERTIES EveryTopicIsFifo CallsEnd
