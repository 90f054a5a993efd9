\* The cache is the least that the ring allows.
SPECIFICATION FairSpec
CONSTANTS
  Ifaces = {w0, w1}
  SsidOf <- MCSsidOf
  RingSize = 2
  CacheSize = 4
  MaxEvents = 3
  MaxFaults = 2
INVARIANTS
  TypeOK
  NoRecount
  SeenIsCounted
PROPERTIES
  CounterNeverDecreases
  EventuallyCounted
CHECK_DEADLOCK FALSE
