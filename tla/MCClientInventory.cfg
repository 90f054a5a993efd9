\* One client more than the cap.
SPECIFICATION Spec
CONSTANTS
  Macs = {1, 2, 3}
  MaxClients = 2
  MaxTime = 3
  MaxFaults = 1
  MaxClockBacks = 1
INVARIANTS
  TypeOK
  ExportedIsSaved
PROPERTIES
  KnownUntilCrowdedOut
  RecordsAreDurable
  NotAnnouncedAgain
CHECK_DEADLOCK FALSE
