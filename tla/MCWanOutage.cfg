SPECIFICATION FairSpec
CONSTANTS
  Helpers = {"wan_quality"}
  Discipline <- MCDiscipline
  Installs <- MCInstalls
  Pids = {p1, p2}
  None = None
  Partial = Partial
  MaxEpoch = 2
  MaxFaults = 0
  MaxSetups = 0
PROPERTIES
  OutageIsShown
CHECK_DEADLOCK FALSE
