-------------------------- MODULE MCGuestIdentity --------------------------
(* Small instances of GuestIdentity. *)
EXTENDS GuestIdentity, TLC

CONSTANTS t1, t2, s1, s2, r1, r2, r3, easy, hard, old, slot

\* Two levels of one game on day 1.
OneSlot == [z \in {easy, hard} |-> slot]
EasySlot == [z \in {easy} |-> slot]
FirstDay == [d \in {slot} |-> 1]
NoSubject == [s \in Subjects |-> None]
Signed1 == [s \in Subjects |-> IF s = s1 THEN 1 ELSE None]
BothSigned == [s \in Subjects |-> IF s = s1 THEN 1 ELSE 2]
OldOf1 == [f \in OldFinishes |-> 1]
OldOf2 == [f \in OldFinishes |-> 2]
OldEasy == [f \in OldFinishes |-> easy]
OldForm1 == [s \in Subjects |-> IF s = s1 THEN 1 ELSE None]
S2ReplacesS1 == [s \in Subjects |-> IF s = s2 THEN s1 ELSE None]
SymBrowsers == Permutations({r1, r2, r3}) \cup Permutations({t1, t2})
=============================================================================
