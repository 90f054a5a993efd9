\* A gateway with two radios and an access point with one; any read may fail, and pairs of
\* them that together change the role or the name of a box.
SPECIFICATION Spec
CONSTANTS
  Routers = {"g", "a"}
  Gateways = {"g"}
  NextHop = "g"
  Radios = {"g2", "g5", "a5"}
  RouterOf <- MCRouterOf
  Macs = {"c", "ma", "mm"}
  OwnMacs <- MCOwnMacs
  ModemMacs = {"mm"}
  Stations = {"c"}
  Settings <- MCSettings
  Failures <- MCFailures
INVARIANTS
  TypeOK
  NoDanglingEdge
  NoCollidingNodes
  ClientsAreWhereTheyAre
  GuessesOnlyUnread
