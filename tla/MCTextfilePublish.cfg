\* A helper that reports a silent source, one that does not, and the one that stages in the
\* scraped directory without a trap: each started by cron and once by the installer; two of
\* its runs may die and the router may reboot.
SPECIFICATION FairSpec
CONSTANTS
  Helpers = {"client_traffic", "wan_quality", "dhcp_pool"}
  Discipline <- MCDiscipline
  Installs <- MCInstalls
  Pids = {p1, p2}
  None = None
  Partial = Partial
  MaxEpoch = 3
  MaxFaults = 2
  MaxSetups = 1
INVARIANTS
  TypeOK
  LiveStagingIntact
  ClearingIsSafe
  LeftoversArePaidFor
PROPERTIES
  CronNeverGoesBack
  TextfileDirHeals
  EventuallyCurrent
  ImplementsBoard
CHECK_DEADLOCK FALSE
