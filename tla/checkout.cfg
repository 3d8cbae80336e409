\* Creates and reads of retained checkouts, with an erasure. Calls are made once.
SPECIFICATION Spec
CONSTANTS
  b1 = b1
  b2 = b2
  q1 = q1
  q2 = q2
  p1 = p1
  p2 = p2
  c1 = c1
  c2 = c2
  c3 = c3
  None = None
  Buyers = {b1, b2}
  Requests = {q1, q2}
  Plans = {p1, p2}
  Calls = {c1, c2, c3}
SYMMETRY SymCheckout
INVARIANTS
  OnlyTheRetained
  ToldIsTrue
CHECK_DEADLOCK FALSE
