\* Submits and reads of two browsers and two accounts, three requests at a time.
SPECIFICATION Spec
CONSTANTS
  t1 = t1
  t2 = t2
  s1 = s1
  s2 = s2
  r1 = r1
  r2 = r2
  r3 = r3
  easy = easy
  hard = hard
  old = old
  slot = slot
  None = None
  Tokens = {t1, t2}
  Players = {1, 2, 3}
  Subjects = {s1, s2}
  Requests = {r1, r2, r3}
  Puzzles = {easy, hard}
  OldFinishes = {old}
  Ops = {"submit", "read"}
  MaxDay = 2
  AllocIds = {2, 3}
  SpareIds = {}
  SlotOf <- OneSlot
  DayOf <- FirstDay
  Formerly <- NoSubject
  OldForm <- NoSubject
  Linked <- BothSigned
  OldOwner <- OldOf1
  OldPuzzle <- OldEasy
SYMMETRY SymBrowsers
INVARIANTS
  OneFinish
  AdoptionComplete
  AcceptedFinishKept
PROPERTIES
  TokenKeepsPlayer
  AdoptedGuestSealed
  RowsMoveOnce
CHECK_DEADLOCK FALSE
