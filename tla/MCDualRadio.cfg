\* The gateway with two radios and the access point of MCTopology.cfg.
SPECIFICATION Spec
CONSTANTS
  Routers = {"g", "a"}
  Gateways = {"g"}
  NextHop = "g"
  Radios = {"g2", "g5", "a5"}
  RouterOf <- MCRouterOf
  Macs = {"c", "ma", "mm"}
  OwnMacs <- MCOwnMacs
  ModemMacs = {"mm"}
  Stations = {"c"}
  Settings <- MCSettings
  Failures <- MCFailures
INVARIANTS
  NeverGuessesWired
