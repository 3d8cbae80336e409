\* Two overlapping ticks and one player with two browsers.
SPECIFICATION Spec
CONSTANTS
  w1 = w1
  w2 = w2
  w3 = w3
  b1 = b1
  b2 = b2
  None = None
  Players = {1}
  Browsers = {b1, b2}
  Ticks = {w1, w2}
  BrowsersOf <- BothHis
  Times = {0}
  Zones = {0}
  HomeZone = 0
  DayLength = 3
  Grace = 1
  Batch = 1
  Lease = 2
  Reserve = 1
  Finishers = {1}
  MaxClock = 5
SYMMETRY SymTicks
INVARIANTS
  OneSender
  AckMeansReached
  OkMeansAcked
PROPERTIES
  NoPushAfterAck
  NoReleaseAfterPush
CHECK_DEADLOCK FALSE
