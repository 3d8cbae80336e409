\* Every kind of request at once, under the fairness of the runtime: all the
\* ways a player id comes into use, by one browser.
SPECIFICATION FairSpec
CONSTANTS
  t1 = t1
  t2 = t2
  s1 = s1
  s2 = s2
  r1 = r1
  r2 = r2
  r3 = r3
  easy = easy
  hard = hard
  old = old
  slot = slot
  None = None
  Tokens = {t1}
  Players = {1, 2, 3, 4, 5}
  Subjects = {s1, s2}
  Requests = {r1, r2, r3}
  Puzzles = {easy}
  OldFinishes = {old}
  Ops = {"submit", "claim", "signin"}
  MaxDay = 1
  AllocIds = {1, 2, 3}
  SpareIds = {4, 5}
  SlotOf <- EasySlot
  DayOf <- FirstDay
  Formerly <- S2ReplacesS1
  OldForm <- OldForm1
  Linked <- NoSubject
  OldOwner <- OldOf2
  OldPuzzle <- OldEasy
INVARIANTS
  GuestNotAccount
  NoLateConflict
  OnePlayerPerPerson
PROPERTY
  EveryRequestEnds
CHECK_DEADLOCK FALSE
