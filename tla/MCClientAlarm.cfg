\* As many clients as the cap admits, so that none is ever evicted.
SPECIFICATION Spec
CONSTANTS
  Macs = {1, 2}
  MaxClients = 2
  MaxTime = 3
  MaxFaults = 1
  MaxClockBacks = 0
PROPERTIES
  AnnouncedOnce
CHECK_DEADLOCK FALSE
