\* Pages that wait for the server and pages that do not; two boards, two saves in flight.
SPECIFICATION FairSpec
CONSTANTS
  c1 = c1
  c2 = c2
  c3 = c3
  ann = ann
  none = none
  Users = {ann}
  Guest = none
  Calls = {c1, c2}
  MaxGeneration = 2
INVARIANTS
  LocksAgree
  ShownIsOfThisBoard
  AcceptedBeforeShown
  OneSavePerBoard
  RejectedPlaysOn
PROPERTY
  PromiseKept
