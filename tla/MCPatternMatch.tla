---------------------------- MODULE MCPatternMatch ----------------------------
(***************************************************************************)
(* A board the generator can serve: twelve cards with the six sets it asks *)
(* for. Three cards of one set are in each of the others.                  *)
(***************************************************************************)
EXTENDS PatternMatch

ServedFaces ==
    << <<3, 3, 3, 2>>, <<3, 1, 2, 3>>, <<1, 1, 3, 2>>, <<1, 2, 2, 2>>, <<1, 2, 1, 2>>, <<2, 3, 3, 1>>,
       <<3, 3, 2, 1>>, <<2, 1, 3, 2>>, <<1, 3, 3, 1>>, <<3, 1, 3, 3>>, <<2, 3, 1, 1>>, <<2, 3, 2, 1>> >>
=============================================================================
