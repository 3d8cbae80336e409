\* Two overlapping ticks that page through two players, one of them without a
\* browser, who may change their settings.
SPECIFICATION FairSpec
CONSTANTS
  w1 = w1
  w2 = w2
  w3 = w3
  b1 = b1
  b2 = b2
  None = None
  Players = {1, 2}
  Browsers = {b1, b2}
  Ticks = {w1, w2}
  BrowsersOf <- FirstOnly
  Times = {0, 1}
  Zones = {0}
  HomeZone = 0
  DayLength = 6
  Grace = 4
  Batch = 1
  Lease = 2
  Reserve = 1
  Finishers = {}
  MaxClock = 1
PROPERTIES
  TickEnds
CHECK_DEADLOCK FALSE
