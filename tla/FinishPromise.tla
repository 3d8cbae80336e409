----------------------------- MODULE FinishPromise -----------------------------
(***************************************************************************)
(* What a puzzle page promises about the end of a board, whatever happens  *)
(* to its requests: a page that waits for the server shows a result only   *)
(* after the finish was recorded, a finish handed over is answered, and a  *)
(* new board starts with nothing of the old one.                           *)
(***************************************************************************)
VARIABLES accept,      \* whether the page waits for the server's answer
          phase,       \* "playing", "checking" or "shown"
          recorded     \* a finish of this ritual is in the server's books

promiseVars == <<accept, phase, recorded>>

Init == accept \in BOOLEAN /\ phase = "playing" /\ recorded = FALSE

Finish ==
    /\ phase = "playing"
    /\ phase' = IF accept THEN "checking" ELSE "shown"
    /\ UNCHANGED <<accept, recorded>>

Record == ~recorded /\ recorded' = TRUE /\ UNCHANGED <<accept, phase>>

Show == phase = "checking" /\ recorded /\ phase' = "shown" /\ UNCHANGED <<accept, recorded>>

Refuse == phase = "checking" /\ phase' = "playing" /\ UNCHANGED <<accept, recorded>>

StartOver == phase' = "playing" /\ UNCHANGED <<accept, recorded>>

Next == Finish \/ Record \/ Show \/ Refuse \/ StartOver

Spec == Init /\ [][Next]_promiseVars

FairSpec == Spec /\ WF_promiseVars(Show \/ Refuse)
==============================================================================
