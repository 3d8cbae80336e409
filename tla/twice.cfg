\* The switch overlaps a settlement: the constants of the code, one account.
SPECIFICATION Spec
CONSTANTS
  alice = alice
  guest = guest
  w1 = w1
  w2 = w2
  None = None
  NoRow = NoRow
  Accounts = {alice}
  Guests = {}
  Workers = {w1, w2}
  Gifts = {}
  EveryDays = 7
  Cap = 2
  MaxBridge = 3
  MinRun = 2
  MaxDay = 11
  MaxDelay = 0
  MaxChanges = 1
SYMMETRY WorkerSymmetry
INVARIANT
  FreezeCoversOnce
