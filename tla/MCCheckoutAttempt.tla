-------------------------- MODULE MCCheckoutAttempt --------------------------
(***************************************************************************)
(* Three calls of one buyer or two, two request ids, two plans.            *)
(***************************************************************************)
EXTENDS CheckoutAttempt, TLC

CONSTANTS b1, b2, q1, q2, p1, p2, c1, c2, c3

SymCheckout ==
    Permutations({b1, b2}) \cup Permutations({q1, q2}) \cup Permutations({p1, p2}) \cup Permutations({c1, c2, c3})
=============================================================================
