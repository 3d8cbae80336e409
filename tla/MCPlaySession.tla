---------------------------- MODULE MCPlaySession ----------------------------
(* A small instance of PlaySession. *)
EXTENDS PlaySession, TLC

CONSTANTS c1, c2, c3, ann, none

SymCalls == Permutations({c1, c2, c3})
=============================================================================
