----------------------------- MODULE StreakRules -----------------------------
(***************************************************************************)
(* The streak and its freezes, as functions of sets of days.               *)
(*                                                                         *)
(* A day is a number.  A player's played days and the days a freeze        *)
(* covered are sets; the code's sorted vectors without duplicates are      *)
(* these sets in order.  A covered day joins a run and is not counted.     *)
(***************************************************************************)
EXTENDS Integers, FiniteSets, FiniteSetsExt

CONSTANTS
  EveryDays,   \* FREEZE_EVERY_DAYS: played days of a run that earn a freeze
  Cap,         \* FREEZE_CAP: most freezes held
  MaxBridge,   \* MAX_BRIDGE_DAYS: most missed days one return covers
  MinRun       \* MIN_RUN_TO_PROTECT: played days that make a run worth it

ASSUME RulesAssumption ==
  /\ EveryDays \in Nat \ {0}
  /\ Cap \in Nat
  /\ MaxBridge \in Nat
  /\ MinRun \in Nat \ {0}

\* The unbroken days up to end; none when end itself is not there.
RunEndingOn(end, days) == {d \in days : d <= end /\ d..end \subseteq days}

\* current_streak: yesterday's run stands until today is over.
Streak(day, play, froz) ==
  LET end == IF day \in play THEN day ELSE day - 1
  IN  Cardinality(play \cap RunEndingOn(end, play \cup froz))

\* The place of a day in a set of days, from 1.
Nth(d, days) == Cardinality({e \in days : e <= d})

\* saturating_sub: an operator may have given more than the cap.
Room(held) == IF held < Cap THEN Cap - held ELSE 0

Idle(held) == [awards |-> {}, granted |-> 0, cover |-> {}, after |-> held]

Nothing(plan) == plan.awards = {} /\ plan.cover = {}

\* Days since the last covered one, neither that day nor today counted.
Missed(day, last) == IF day > last THEN day - last - 1 ELSE 0

\* Faulty: a long run earns on every day from its first milestone on.
BadMilestones(run) == {d \in run : Nth(d, run) >= EveryDays}

Milestones(run) == {d \in run : Nth(d, run) % EveryDays = 0}

\* A run that cannot be saved any more is left alone; otherwise its unrecorded
\* milestones are earned, and all the missed days are covered or none.
SettleFreezes(day, play, froz, awarded, held, auto) ==
  LET days == {d \in play \cup froz : d <= day}
      last == Max(days)
      missed == Missed(day, last)
      run == play \cap RunEndingOn(last, days)
      earned == Milestones(run) \ awarded
      granted == Min({Cardinality(earned), Room(held)})
      saves == /\ missed > 0 /\ auto
               /\ Cardinality(run) >= MinRun
               /\ missed <= held + granted
  IN  IF days = {} \/ missed > MaxBridge
      THEN Idle(held)
      ELSE [awards |-> earned,
            granted |-> granted,
            cover |-> IF saves THEN last + 1 .. last + missed ELSE {},
            after |-> held + granted - (IF saves THEN missed ELSE 0)]
=============================================================================
