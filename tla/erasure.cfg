\* An in-app erasure and the operator's, two repetitions each.
SPECIFICATION Spec
CONSTANTS
  player = player
  settings = settings
  g1 = g1
  old = old
  new = new
  app = app
  operator = operator
  None = None
  Player = player
  Settings = settings
  Guests = {g1}
  Subjects = {old, new}
  OldForm = old
  Erasers = {app, operator}
  NamedBy <- AppAndOperator
  Attempts = 2
INVARIANTS
  ToldWholeIsWhole
  DeletedAreNamed
PROPERTIES
  ErasedWhole
CHECK_DEADLOCK FALSE
