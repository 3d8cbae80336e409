\* An account, a guest and an operator over four days; a freeze for every two played days.
SPECIFICATION Spec
CONSTANTS
  alice = alice
  guest = guest
  w1 = w1
  w2 = w2
  None = None
  NoRow = NoRow
  Accounts = {alice}
  Guests = {guest}
  Workers = {w1, w2}
  Gifts = {3}
  EveryDays = 2
  Cap = 2
  MaxBridge = 2
  MinRun = 2
  MaxDay = 4
  MaxDelay = 1
  MaxChanges = 1
SYMMETRY WorkerSymmetry
INVARIANTS
  HeldInBounds
  BooksBalance
  EarnedByPlay
PROPERTIES
  CoverSavesRun
  SettledOnce
  StreakSurvivesAdoption
