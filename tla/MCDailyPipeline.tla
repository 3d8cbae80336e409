-------------------------- MODULE MCDailyPipeline --------------------------
(* Small instances of DailyPipeline: a game with two levels and one without. *)
EXTENDS DailyPipeline, TLC

CONSTANTS easy, hard, f1, f2, r1, r2, v1, v2

TwoGames == << [game |-> 1, level |-> easy], [game |-> 1, level |-> hard],
               [game |-> 2, level |-> None] >>
Rollout == [p \in Procs |-> IF p \in {f1, r1} THEN v1 ELSE v2]
\* A past day of the game without levels, stored before the pipeline.
OldDay == {[track |-> 3, day |-> 0]}
=============================================================================
