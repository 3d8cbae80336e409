-------------------------- MODULE MCDailyReminder --------------------------
(* Small instances of DailyReminder. *)
EXTENDS DailyReminder, TLC

CONSTANTS w1, w2, w3, b1, b2

BothHis == [p \in Players |-> {b1, b2}]
OneEach == [p \in Players |-> IF p = 1 THEN {b1} ELSE {b2}]
FirstOnly == [p \in Players |-> IF p = 1 THEN {b1} ELSE {}]
SymTicks == Permutations(Ticks)
=============================================================================
