------------------------ MODULE GuestIdentityProofs ------------------------
(* Theorems about GuestIdentity, for any tokens, players and requests. *)
EXTENDS GuestIdentity, TLAPS

JobType == [op : Ops \cup {"none"}, token : MaybeToken, player : MaybePlayer,
            subject : Subjects \cup {None}, day : Nat]

PlanType == [uid : MaybePlayer, adopt : BOOLEAN, moves : SUBSET Finishes,
             puzzle : Puzzles \cup {None}, ritual : BOOLEAN]

States == {"idle", "admit", "lock", "commit"} \cup Ended

(* The empty plan is a plan.                                                   *)
LEMMA NoPlanType == NoPlan \in PlanType
BY DEF NoPlan, MaybePlayer, PlanType

(* What an adoption moves are rows that exist.                                 *)
LEMMA MovableType ==
  \A g, a : Movable(g, a) \subseteq Finishes
BY DEF Movable, RowsOf

(* Ending a transaction leaves the lock tables well typed.                     *)
LEMMA ReleaseType ==
  ASSUME TypeOK, NEW r \in Requests, ReleaseAll(r)
  PROVE  /\ tokenLock' \in [Tokens -> Requests \cup {None}]
         /\ playerLock' \in [Players -> Requests \cup {None}]
BY DEF TypeOK, ReleaseAll

(* Taking a token's lock leaves the lock table well typed.                     *)
LEMMA TakeTokenType ==
  ASSUME TypeOK, NEW r \in Requests, NEW t, TakeToken(r, t)
  PROVE  tokenLock' \in [Tokens -> Requests \cup {None}]
BY DEF TypeOK, TakeToken

(* The tables an older release leaves behind are well typed.                   *)
THEOREM TypeInit == Init => TypeOK
<1> SUFFICES ASSUME Init PROVE TypeOK
  OBVIOUS
<1> USE TableAssumption, FinishAssumption
<1>1. NoJob \in [op : Ops \cup {"none"}, token : MaybeToken, player : MaybePlayer,
                 subject : Subjects \cup {None}, legacy : Subjects \cup {None}, day : Nat]
  BY DEF NoJob, MaybeToken, MaybePlayer
<1> QED
  BY <1>1, NoPlanType DEF Init, TypeOK, MaybePlayer, Finishes, PlanType

(* A step is the day's change or one action of one request.                    *)
LEMMA StepCases ==
  ASSUME Next
  PROVE  \/ NextDay
         \/ \E r \in Requests :
              \/ ArrivePlay(r) \/ ArriveClaim(r) \/ ArriveSignIn(r)
              \/ Admit(r) \/ LockNext(r) \/ Redraw(r)
              \/ Decide(r) \/ Refuse(r) \/ CommitPlay(r)
              \/ DecideClaim(r) \/ CommitClaim(r)
              \/ DecideSignIn(r) \/ CommitSignIn(r) \/ Abort(r)
BY DEF Next, Arrive, Progress

(* Every step of every handler keeps the types, plans included: they name      *)
(* players, rows and puzzles that exist, whatever the interleaving.            *)
THEOREM TypeStep == TypeOK /\ [Next]_vars => TypeOK'
<1> SUFFICES ASSUME TypeOK, [Next]_vars PROVE TypeOK'
  OBVIOUS
<1> USE TableAssumption, FinishAssumption, DrawAssumption DEF TypeOK, Ended, tables, locks
<1>1. CASE UNCHANGED vars
  BY <1>1 DEF vars
<1>2. CASE NextDay
  BY <1>2 DEF NextDay
<1>3. ASSUME NEW r \in Requests, ArrivePlay(r) PROVE TypeOK'
  BY <1>3 DEF ArrivePlay, MaybePlayer, MaybeToken
<1>4. ASSUME NEW r \in Requests, ArriveClaim(r) PROVE TypeOK'
  <2>1. tokenLock' \in [Tokens -> Requests \cup {None}]
    BY <1>4, TakeTokenType DEF ArriveClaim
  <2> QED
    BY <1>4, <2>1 DEF ArriveClaim, Fresh, MaybePlayer, MaybeToken
<1>5. ASSUME NEW r \in Requests, ArriveSignIn(r) PROVE TypeOK'
  <2>1. \A s \in Subjects : \A l \in {None, Formerly[s]} : Known(s, l) \in MaybePlayer
    BY DEF Known
  <2>2. Fresh \subseteq Players
    BY DEF Fresh
  <2>3. PICK s \in Subjects : \E l \in {None, Formerly[s]} :
          /\ job' = [job EXCEPT ![r] = [op |-> "signin", token |-> None, player |-> None,
                                        subject |-> s, legacy |-> l, day |-> today]]
          /\ \/ /\ pc' = [pc EXCEPT ![r] = "accepted"]
                /\ UNCHANGED cand
             \/ /\ pc' = [pc EXCEPT ![r] = "lock"]
                /\ \E p \in IF Known(s, l) # None THEN {Known(s, l)} ELSE Fresh :
                     cand' = [cand EXCEPT ![r] = p]
    BY <1>5 DEF ArriveSignIn
  <2>8. PICK l \in {None, Formerly[s]} :
          /\ job' = [job EXCEPT ![r] = [op |-> "signin", token |-> None, player |-> None,
                                        subject |-> s, legacy |-> l, day |-> today]]
          /\ \/ UNCHANGED cand
             \/ \E p \in IF Known(s, l) # None THEN {Known(s, l)} ELSE Fresh :
                  cand' = [cand EXCEPT ![r] = p]
    BY <2>3
  <2>4. pc' \in [Requests -> {"idle", "admit", "lock", "commit"} \cup Ended]
    BY <2>3
  <2>5. cand' \in [Requests -> MaybePlayer]
    <3>1. CASE UNCHANGED cand
      BY <3>1
    <3>2. CASE \E p \in IF Known(s, l) # None THEN {Known(s, l)} ELSE Fresh :
                 cand' = [cand EXCEPT ![r] = p]
      <4>1. PICK p \in MaybePlayer : cand' = [cand EXCEPT ![r] = p]
        BY <2>1, <2>2, <3>2 DEF MaybePlayer
      <4> QED
        BY <4>1
    <3> QED
      BY <2>8, <3>1, <3>2
  <2>6. [op |-> "signin", token |-> None, player |-> None, subject |-> s,
         legacy |-> l, day |-> today]
          \in [op : Ops \cup {"none"}, token : MaybeToken, player : MaybePlayer,
               subject : Subjects \cup {None}, legacy : Subjects \cup {None}, day : Nat]
    BY <1>5 DEF ArriveSignIn, MaybePlayer, MaybeToken
  <2>7. job' \in [Requests -> [op : Ops \cup {"none"}, token : MaybeToken,
                              player : MaybePlayer, subject : Subjects \cup {None},
                              legacy : Subjects \cup {None}, day : Nat]]
    BY <2>8, <2>6
  <2> QED
    BY <1>5, <2>4, <2>5, <2>7 DEF ArriveSignIn
<1>6. ASSUME NEW r \in Requests, Admit(r) PROVE TypeOK'
  <2>1. tokenLock' \in [Tokens -> Requests \cup {None}]
    BY <1>6, TakeTokenType DEF Admit
  <2>2. job[r].token \in MaybeToken
    OBVIOUS
  <2>3. cand' \in [Requests -> MaybePlayer]
    BY <1>6, <2>2 DEF Admit, MaybeToken, MaybePlayer
  <2> QED
    BY <1>6, <2>1, <2>3 DEF Admit
<1>7. ASSUME NEW r \in Requests, LockNext(r) PROVE TypeOK'
  <2>1. PICK p \in Need(r) \ HeldBy(r) : playerLock' = [playerLock EXCEPT ![p] = r]
    BY <1>7 DEF LockNext
  <2>2. playerLock' \in [Players -> Requests \cup {None}]
    BY <2>1
  <2> QED
    BY <1>7, <2>2 DEF LockNext
<1>8. ASSUME NEW r \in Requests, Redraw(r) PROVE TypeOK'
  BY <1>8, ReleaseType DEF Redraw
<1>9. ASSUME NEW r \in Requests, Decide(r) PROVE TypeOK'
  <2>1. Primary(r) \in MaybePlayer
    BY DEF Primary, Platform, GuestOf, MaybePlayer
  <2>2. Moved(r) \subseteq Finishes
    BY MovableType DEF Moved
  <2>3. Adopts(r) \in BOOLEAN
    BY DEF Adopts
  <2> QED
    <3>1. PICK z \in Puzzles \cup {None}, b \in BOOLEAN :
            plan' = [plan EXCEPT ![r] =
              [uid |-> Primary(r), adopt |-> Adopts(r), moves |-> Moved(r),
               puzzle |-> z, ritual |-> b]]
      BY <1>9 DEF Decide
    <3>2. plan' \in [Requests -> PlanType]
      BY <2>1, <2>2, <2>3, <3>1 DEF PlanType
    <3> QED
      BY <1>9, <3>2 DEF Decide, PlanType
<1>10. ASSUME NEW r \in Requests, Refuse(r) PROVE TypeOK'
  BY <1>10, ReleaseType DEF Refuse
<1>11. ASSUME NEW r \in Requests, CommitPlay(r) PROVE TypeOK'
  <2>1. r \in Finishes
    BY DEF Finishes
  <2>2. CASE IndexHit(r)
    BY <1>11, <2>2, ReleaseType DEF CommitPlay
  <2>3. CASE ~IndexHit(r)
    <3>1. /\ plan[r].uid \in MaybePlayer
          /\ plan[r].puzzle \in Puzzles \cup {None}
          /\ plan[r].ritual \in BOOLEAN
          /\ cand[r] \in MaybePlayer
      OBVIOUS
    <3>2. /\ holder' = IF allocate[r]
                       THEN [holder EXCEPT ![job[r].token] = cand[r]] ELSE holder
          /\ adopter' = IF plan[r].adopt
                        THEN [adopter EXCEPT ![job[r].token] = plan[r].uid] ELSE adopter
          /\ owner' = [f \in Finishes |->
               IF f \in plan[r].moves \/ (f = r /\ plan[r].puzzle # None)
               THEN plan[r].uid ELSE owner[f]]
          /\ origin' = [f \in Finishes |->
               IF f \in plan[r].moves THEN cand[r] ELSE origin[f]]
          /\ puzzle' = [puzzle EXCEPT ![r] = plan[r].puzzle]
          /\ ritual' = [ritual EXCEPT ![r] = plan[r].ritual]
      BY <1>11, <2>3 DEF CommitPlay
    <3>3. /\ holder' \in [Tokens -> MaybePlayer]
          /\ adopter' \in [Tokens -> MaybePlayer]
      BY <3>1, <3>2
    <3>4. /\ owner' \in [Finishes -> MaybePlayer]
          /\ origin' \in [Finishes -> MaybePlayer]
      BY <3>1, <3>2
    <3>6. /\ puzzle' \in [Finishes -> Puzzles \cup {None}]
          /\ ritual' \in [Finishes -> BOOLEAN]
      BY <3>1, <3>2
    <3>5. /\ pc' \in [Requests -> {"idle", "admit", "lock", "commit"} \cup Ended]
          /\ UNCHANGED <<subject, today, job, cand, allocate, plan>>
      BY <1>11, <2>3 DEF CommitPlay
    <3> QED
      BY <1>11, <3>3, <3>4, <3>5, <3>6, ReleaseType DEF CommitPlay
  <2> QED
    BY <2>2, <2>3
<1>12. ASSUME NEW r \in Requests, DecideClaim(r) PROVE TypeOK'
  <2>1. [NoPlan EXCEPT !.uid = cand[r], !.moves = Movable(job[r].player, cand[r])]
          \in PlanType
    BY NoPlanType, MovableType DEF PlanType
  <2>2. CASE Claimable(r)
    <3>1. plan' = [plan EXCEPT ![r] =
            [NoPlan EXCEPT !.uid = cand[r], !.moves = Movable(job[r].player, cand[r])]]
      BY <1>12, <2>2 DEF DecideClaim
    <3>2. plan \in [Requests -> PlanType]
      BY DEF PlanType
    <3>3. plan' \in [Requests -> PlanType]
      BY <2>1, <3>1, <3>2
    <3> QED
      BY <1>12, <2>2, <3>3 DEF DecideClaim, PlanType
  <2>3. CASE ~Claimable(r)
    BY <1>12, <2>3, ReleaseType DEF DecideClaim
  <2> QED
    BY <2>2, <2>3
<1>13. ASSUME NEW r \in Requests, CommitClaim(r) PROVE TypeOK'
  <2>1. cand[r] \in MaybePlayer /\ job[r].player \in MaybePlayer
    OBVIOUS
  <2>2. /\ holder' \in [Tokens -> MaybePlayer]
        /\ owner' \in [Finishes -> MaybePlayer]
        /\ origin' \in [Finishes -> MaybePlayer]
    <3>1. CASE UNCHANGED <<holder, owner, origin>>
      BY <3>1
    <3>2. CASE /\ holder' = [holder EXCEPT ![job[r].token] = cand[r]]
               /\ owner' = [f \in Finishes |->
                    IF f \in plan[r].moves THEN cand[r] ELSE owner[f]]
               /\ origin' = [f \in Finishes |->
                    IF f \in plan[r].moves THEN job[r].player ELSE origin[f]]
      BY <2>1, <3>2
    <3> QED
      BY <1>13, <3>1, <3>2 DEF CommitClaim
  <2>3. /\ pc' = [pc EXCEPT ![r] = "conflict"] \/ pc' = [pc EXCEPT ![r] = "accepted"]
        /\ UNCHANGED <<adopter, subject, puzzle, ritual, today, job, cand, allocate, plan>>
    BY <1>13 DEF CommitClaim
  <2> QED
    <3>1. pc' \in [Requests -> {"idle", "admit", "lock", "commit"} \cup Ended]
      BY <2>3
    <3>2. ReleaseAll(r)
      BY <1>13 DEF CommitClaim
    <3> QED
      BY <2>2, <2>3, <3>1, <3>2, ReleaseType
<1>14. ASSUME NEW r \in Requests, DecideSignIn(r) PROVE TypeOK'
  <2>1. Fresh \subseteq Players
    BY DEF Fresh
  <2> QED
    <3>1. /\ pc' \in [Requests -> {"idle", "admit", "lock", "commit"} \cup Ended]
          /\ UNCHANGED <<tables, today, job, allocate, plan>>
      BY <1>14 DEF DecideSignIn
    <3>2. cand' = cand \/ \E p \in Fresh : cand' = [cand EXCEPT ![r] = p]
      BY <1>14 DEF DecideSignIn
    <3>3. cand' \in [Requests -> MaybePlayer]
      BY <2>1, <3>2 DEF MaybePlayer
    <3>4. UNCHANGED locks \/ ReleaseAll(r)
      BY <1>14 DEF DecideSignIn
    <3> QED
      BY <3>1, <3>3, <3>4, ReleaseType
<1>15. ASSUME NEW r \in Requests, CommitSignIn(r) PROVE TypeOK'
  BY <1>15, ReleaseType DEF CommitSignIn
<1>16. ASSUME NEW r \in Requests, Abort(r) PROVE TypeOK'
  BY <1>16, ReleaseType DEF Abort
<1> QED
  BY StepCases, <1>1, <1>2, <1>3, <1>4, <1>5, <1>6, <1>7, <1>8, <1>9, <1>10,
     <1>11, <1>12, <1>13, <1>14, <1>15, <1>16

(* Every variable keeps its type in every run of the api's handlers.           *)
THEOREM TypeCorrect == Spec => []TypeOK
<1>1. Init => TypeOK
  BY TypeInit
<1>2. TypeOK /\ [Next]_vars => TypeOK'
  BY TypeStep
<1> QED
  BY <1>1, <1>2, PTL DEF Spec
-----------------------------------------------------------------------------
(* The inductive invariant. *)

StepOf(q) == Arrive(q) \/ Progress(q) \/ Abort(q)

(* A request's step leaves the record of every other request alone. *)
LEMMA OthersKept ==
  ASSUME TypeOK, NEW q \in Requests, StepOf(q), NEW r \in Requests, r # q
  PROVE  /\ pc'[r] = pc[r]
         /\ job'[r] = job[r]
         /\ cand'[r] = cand[r]
         /\ allocate'[r] = allocate[r]
         /\ plan'[r] = plan[r]
<1> USE DEF TypeOK
<1>1. pc'[r] = pc[r]
  BY DEF StepOf, Arrive, Progress, ArrivePlay, ArriveClaim, ArriveSignIn, Admit, LockNext,
         Redraw, Decide, Refuse, CommitPlay, DecideClaim, CommitClaim,
         DecideSignIn, CommitSignIn, Abort
<1>2. job'[r] = job[r]
  BY DEF StepOf, Arrive, Progress, ArrivePlay, ArriveClaim, ArriveSignIn, Admit, LockNext,
         Redraw, Decide, Refuse, CommitPlay, DecideClaim, CommitClaim,
         DecideSignIn, CommitSignIn, Abort
<1>3. cand'[r] = cand[r]
  BY DEF StepOf, Arrive, Progress, ArrivePlay, ArriveClaim, ArriveSignIn, Admit, LockNext,
         Redraw, Decide, Refuse, CommitPlay, DecideClaim, CommitClaim,
         DecideSignIn, CommitSignIn, Abort
<1>4. allocate'[r] = allocate[r]
  BY DEF StepOf, Arrive, Progress, ArrivePlay, ArriveClaim, ArriveSignIn, Admit, LockNext,
         Redraw, Decide, Refuse, CommitPlay, DecideClaim, CommitClaim,
         DecideSignIn, CommitSignIn, Abort
<1>5. plan'[r] = plan[r]
  BY DEF StepOf, Arrive, Progress, ArrivePlay, ArriveClaim, ArriveSignIn, Admit, LockNext,
         Redraw, Decide, Refuse, CommitPlay, DecideClaim, CommitClaim,
         DecideSignIn, CommitSignIn, Abort
<1> QED
  BY <1>1, <1>2, <1>3, <1>4, <1>5

(* The locks of the others are neither taken nor released by it. *)
LEMMA LocksKept ==
  ASSUME TypeOK, NoneAssumption, NEW q \in Requests, StepOf(q), NEW r \in Requests, r # q
  PROVE  /\ \A t \in Tokens : (tokenLock'[t] = r) <=> (tokenLock[t] = r)
         /\ \A p \in Players : (playerLock'[p] = r) <=> (playerLock[p] = r)
<1>1. r # None
  BY NoneAssumption
<1>2. CASE UNCHANGED locks
  BY <1>2 DEF locks
<1>3. CASE ReleaseAll(q)
  BY <1>1, <1>3 DEF ReleaseAll, TypeOK
<1>4. CASE (\E t \in MaybeToken : TakeToken(q, t)) /\ UNCHANGED playerLock
  BY <1>1, <1>4, NoneAssumption DEF TakeToken, TypeOK, MaybeToken
<1>5. CASE LockNext(q)
  BY <1>1, <1>5 DEF LockNext, TypeOK, HeldBy
<1>6. job[q].token \in MaybeToken
  BY DEF TypeOK
<1>7. \A t \in Tokens : t \in MaybeToken
  BY DEF MaybeToken
<1>8. \/ UNCHANGED locks \/ ReleaseAll(q) \/ LockNext(q)
      \/ (\E t \in MaybeToken : TakeToken(q, t)) /\ UNCHANGED playerLock
  <2>1. CASE ArrivePlay(q) \/ ArriveSignIn(q) \/ Decide(q)
    BY <2>1 DEF ArrivePlay, ArriveSignIn, Decide
  <2>2. CASE ArriveClaim(q) \/ Admit(q)
    BY <1>6, <1>7, <2>2 DEF ArriveClaim, Admit
  <2>3. CASE Redraw(q) \/ Refuse(q) \/ CommitPlay(q) \/ CommitClaim(q)
             \/ CommitSignIn(q) \/ Abort(q)
    BY <2>3 DEF Redraw, Refuse, CommitPlay, CommitClaim, CommitSignIn, Abort
  <2>4. CASE DecideClaim(q) \/ DecideSignIn(q)
    BY <2>4 DEF DecideClaim, DecideSignIn
  <2> QED
    BY <2>1, <2>2, <2>3, <2>4 DEF StepOf, Arrive, Progress
<1> QED
  BY <1>2, <1>3, <1>4, <1>5, <1>8

(* Only the three commits write the tables.                                    *)
LEMMA TableSteps ==
  ASSUME NEW q \in Requests, StepOf(q)
  PROVE  \/ UNCHANGED tables
         \/ CommitPlay(q) /\ ~IndexHit(q)
         \/ CommitClaim(q)
         \/ CommitSignIn(q)
<1>1. CASE CommitPlay(q) \/ CommitClaim(q) \/ CommitSignIn(q)
  BY <1>1 DEF CommitPlay
<1>2. CASE Arrive(q) \/ Abort(q)
  BY <1>2 DEF Arrive, Abort, ArrivePlay, ArriveClaim, ArriveSignIn
<1>3. CASE Admit(q) \/ LockNext(q) \/ Redraw(q) \/ Decide(q) \/ Refuse(q)
            \/ DecideClaim(q) \/ DecideSignIn(q)
  BY <1>3 DEF Admit, LockNext, Redraw, Decide, Refuse, DecideClaim, DecideSignIn
<1> QED
  BY <1>1, <1>2, <1>3 DEF StepOf, Progress

(* What another request needs and holds is not changed by a step.              *)
LEMMA HeldKept ==
  ASSUME TypeOK, NoneAssumption, NEW q \in Requests, StepOf(q), NEW r \in Requests, r # q
  PROVE  Need(r)' = Need(r) /\ HeldBy(r)' = HeldBy(r) /\ HasLocks(r)' = HasLocks(r)
BY OthersKept, LocksKept DEF Need, HeldBy, HasLocks

(* After its release a request holds no lock.                                  *)
LEMMA ReleaseNone ==
  ASSUME TypeOK, NoneAssumption, NEW q \in Requests, ReleaseAll(q)
  PROVE  /\ \A t \in Tokens : tokenLock'[t] # q
         /\ \A p \in Players : playerLock'[p] # q
BY DEF ReleaseAll, TypeOK

(* The locks of the acting request itself. *)
LEMMA OwnLocks ==
  ASSUME TypeOK, NoneAssumption, LocksHeld, JobsSound, NEW q \in Requests, StepOf(q)
  PROVE  /\ ~Active(q)' => /\ \A t \in Tokens : tokenLock'[t] # q
                           /\ \A p \in Players : playerLock'[p] # q
         /\ (Active(q)' /\ job'[q].token # None) =>
              tokenLock'[job'[q].token] = q
         /\ pc'[q] = "commit" => HasLocks(q)'
<1> DEFINE Goal ==
      /\ ~Active(q)' => /\ \A t \in Tokens : tokenLock'[t] # q
                        /\ \A p \in Players : playerLock'[p] # q
      /\ (Active(q)' /\ job'[q].token # None) => tokenLock'[job'[q].token] = q
      /\ pc'[q] = "commit" => HasLocks(q)'
<1>1. job[q].token \in MaybeToken
  BY DEF TypeOK
<1>2. CASE ArrivePlay(q)
  <2>1. pc'[q] \in {"refused", "admit"} /\ ~Active(q)
    BY <1>2 DEF ArrivePlay, TypeOK, Active
  <2> QED
    BY <1>2, <2>1 DEF ArrivePlay, LocksHeld, locks, Active
<1>3. CASE ArriveClaim(q)
  <2>1. PICK t \in Tokens : job'[q].token = t /\ TakeToken(q, t) /\ pc'[q] = "lock"
    BY <1>3 DEF ArriveClaim, TypeOK
  <2>2. tokenLock'[t] = q
    BY <2>1 DEF TakeToken
  <2> QED
    BY <2>1, <2>2 DEF Active
<1>4. CASE ArriveSignIn(q)
  <2>1. pc'[q] \in {"accepted", "lock"} /\ ~Active(q) /\ job'[q].token = None
    BY <1>4 DEF ArriveSignIn, TypeOK, Active
  <2> QED
    BY <1>4, <2>1 DEF ArriveSignIn, LocksHeld, locks, Active
<1>5. CASE Admit(q)
  <2>1. TakeToken(q, job[q].token) /\ pc'[q] = "lock" /\ job' = job
    BY <1>5 DEF Admit, TypeOK
  <2>2. job[q].token # None => tokenLock'[job[q].token] = q
    BY <1>1, <2>1 DEF TakeToken, MaybeToken
  <2> QED
    BY <2>1, <2>2 DEF Active
<1>6. CASE LockNext(q)
  <2>1. pc' = pc /\ job' = job /\ tokenLock' = tokenLock /\ pc[q] = "lock"
    BY <1>6 DEF LockNext
  <2> QED
    BY <2>1 DEF LocksHeld, Active
<1>7. CASE Redraw(q) \/ Refuse(q) \/ CommitPlay(q) \/ CommitClaim(q)
             \/ CommitSignIn(q) \/ Abort(q)
  <2>1. ReleaseAll(q)
    BY <1>7 DEF Redraw, Refuse, CommitPlay, CommitClaim, CommitSignIn, Abort
  <2>2. pc'[q] \in {"admit"} \cup Ended
    BY <1>7 DEF Redraw, Refuse, CommitPlay, CommitClaim, CommitSignIn, Abort, TypeOK, Ended
  <2> QED
    BY <2>1, <2>2, ReleaseNone DEF Active, Ended
<1>8. CASE Decide(q)
  <2>1. /\ pc[q] = "lock" /\ pc'[q] = "commit" /\ HasLocks(q)
        /\ UNCHANGED <<locks, job, cand>>
    BY <1>8 DEF Decide, ReadyToDecide, TypeOK
  <2> QED
    BY <2>1 DEF LocksHeld, Active, HasLocks, HeldBy, Need, locks
<1>9. CASE DecideClaim(q)
  <2>1. CASE Claimable(q)
    <3>1. /\ pc[q] = "lock" /\ pc'[q] = "commit" /\ HasLocks(q)
          /\ UNCHANGED <<locks, job, cand>>
      BY <1>9, <2>1 DEF DecideClaim, TypeOK
    <3> QED
      BY <3>1 DEF LocksHeld, Active, HasLocks, HeldBy, Need, locks
  <2>2. CASE ~Claimable(q)
    <3>1. ReleaseAll(q) /\ pc'[q] = "refused"
      BY <1>9, <2>2 DEF DecideClaim, TypeOK
    <3> QED
      BY <3>1, ReleaseNone DEF Active
  <2> QED
    BY <2>1, <2>2
<1>10. CASE DecideSignIn(q)
  <2>1. job' = job /\ pc[q] = "lock" /\ HasLocks(q) /\ job[q].token = None
    BY <1>10 DEF DecideSignIn, JobsSound
  <2>2. CASE ReleaseAll(q) /\ pc'[q] = "accepted"
    BY <2>2, ReleaseNone DEF Active
  <2>3. CASE ReleaseAll(q) /\ pc' = pc
    BY <2>1, <2>3 DEF Active
  <2>4. CASE pc'[q] = "commit" /\ UNCHANGED <<locks, cand>>
    BY <2>1, <2>4 DEF LocksHeld, Active, HasLocks, HeldBy, Need, locks
  <2> QED
    BY <1>10, <2>2, <2>3, <2>4 DEF DecideSignIn, TypeOK
<1> QED
  BY <1>2, <1>3, <1>4, <1>5, <1>6, <1>7, <1>8, <1>9, <1>10 DEF StepOf, Arrive, Progress

(* lock_players and the end of a transaction keep LocksHeld.                   *)
LEMMA LocksHeldStep ==
  ASSUME TypeOK, NoneAssumption, LocksHeld, JobsSound, NEW q \in Requests, StepOf(q)
  PROVE  LocksHeld'
<1> SUFFICES ASSUME NEW r \in Requests
             PROVE  /\ ~Active(r)' => /\ \A t \in Tokens : tokenLock'[t] # r
                                      /\ \A p \in Players : playerLock'[p] # r
                    /\ (Active(r)' /\ job'[r].token # None) =>
                         tokenLock'[job'[r].token] = r
                    /\ pc'[r] = "commit" => HasLocks(r)'
  BY DEF LocksHeld
<1>1. CASE r = q
  BY <1>1, OwnLocks
<1>2. CASE r # q
  <2>1. job[r].token \in MaybeToken
    BY DEF TypeOK
  <2> QED
    BY <1>2, <2>1, OthersKept, LocksKept, HeldKept DEF LocksHeld, Active, MaybeToken
<1> QED
  BY <1>1, <1>2

(* A subject's player never changes. *)
LEMMA SubjectKept ==
  ASSUME TypeOK, NEW q \in Requests, StepOf(q), NEW s \in Subjects, subject[s] # None
  PROVE  subject'[s] = subject[s]
<1>1. CASE CommitSignIn(q)
  BY <1>1 DEF CommitSignIn, TypeOK
<1>2. CASE CommitPlay(q) /\ ~IndexHit(q)
  BY <1>2 DEF CommitPlay
<1>3. CASE CommitClaim(q)
  BY <1>3 DEF CommitClaim
<1>4. CASE UNCHANGED tables
  BY <1>4 DEF tables
<1> QED
  BY <1>1, <1>2, <1>3, <1>4, TableSteps

JobSound(r) ==
  /\ pc[r] = "idle" => ~allocate[r]
  /\ job[r].op \in {"submit", "read"} =>
       /\ job[r].player # None => \E s \in Subjects : subject[s] = job[r].player
       /\ Active(r) /\ job[r].token = None => cand[r] = None
  /\ job[r].op = "claim" => job[r].token # None /\ job[r].player \in Players \ SpareIds
  /\ job[r].op = "signin" => /\ job[r].subject # None
                             /\ job[r].player = None
                             /\ job[r].token = None
                             /\ Active(r) => cand[r] # None
  /\ allocate[r] => /\ job[r].op = "submit"
                    /\ job[r].player = None
                    /\ job[r].token # None

(* Ids drawn for a claim are players.                                          *)
LEMMA FreshPlayers == ASSUME NoneAssumption, DrawAssumption PROVE Fresh \subseteq Players \ {None}
BY NoneAssumption, DrawAssumption DEF Fresh

(* A request's own step keeps its job sound.                                   *)
LEMMA OwnJob ==
  ASSUME TypeOK, NoneAssumption, DrawAssumption, TableAssumption, JobsSound,
         NEW q \in Requests, StepOf(q)
  PROVE  JobSound(q)'
<1>1. JobSound(q)
  BY DEF JobsSound, JobSound
<1> USE DEF JobSound, Active
<1>2. CASE ArrivePlay(q)
  <2>1. PICK o \in Ops \cap {"submit", "read"}, t \in MaybeToken,
             a \in {subject[s] : s \in Subjects} \cup {None} :
          job' = [job EXCEPT ![q] = [op |-> o, token |-> t, player |-> a,
                                     subject |-> None, legacy |-> None, day |-> today]]
    BY <1>2 DEF ArrivePlay
  <2>2. job'[q].op \in {"submit", "read"} /\ job'[q].player = a
    BY <2>1 DEF TypeOK
  <2>3. pc[q] = "idle" /\ pc'[q] \in {"refused", "admit"} /\ UNCHANGED <<subject, allocate>>
    BY <1>2 DEF ArrivePlay, tables, TypeOK
  <2>4. a # None => \E s \in Subjects : subject'[s] = a
    BY <2>3
  <2> QED
    BY <1>1, <2>2, <2>3, <2>4
<1>3. CASE ArriveClaim(q)
  <2>1. PICK t \in Tokens, old \in Players \ SpareIds :
          job' = [job EXCEPT ![q] = [op |-> "claim", token |-> t, player |-> old,
                                     subject |-> None, legacy |-> None, day |-> today]]
    BY <1>3 DEF ArriveClaim
  <2>2. job'[q].op = "claim" /\ job'[q].token = t /\ job'[q].player = old
    BY <2>1 DEF TypeOK
  <2>3. pc[q] = "idle" /\ UNCHANGED allocate
    BY <1>3 DEF ArriveClaim
  <2> QED
    BY <1>1, <2>1, <2>2, <2>3, NoneAssumption
<1>4. CASE ArriveSignIn(q)
  <2>1. PICK s \in Subjects : \E l \in {None, Formerly[s]} :
          /\ job' = [job EXCEPT ![q] = [op |-> "signin", token |-> None, player |-> None,
                                        subject |-> s, legacy |-> l, day |-> today]]
          /\ \/ pc' = [pc EXCEPT ![q] = "accepted"]
             \/ \E p \in IF Known(s, l) # None THEN {Known(s, l)} ELSE Fresh :
                  cand' = [cand EXCEPT ![q] = p]
    BY <1>4 DEF ArriveSignIn
  <2>2. job'[q].op = "signin" /\ job'[q].token = None /\ job'[q].player = None
        /\ job'[q].subject = s /\ s # None
    BY <2>1, NoneAssumption DEF TypeOK
  <2>3. pc[q] = "idle" /\ UNCHANGED allocate
    BY <1>4 DEF ArriveSignIn
  <2>4. pc'[q] = "accepted" \/ cand'[q] # None
    BY <2>1, FreshPlayers, NoneAssumption DEF TypeOK
  <2> QED
    BY <1>1, <2>2, <2>3, <2>4
<1>5. CASE Admit(q)
  <2>1. /\ job' = job /\ UNCHANGED subject /\ pc'[q] = "lock"
        /\ job[q].op \in {"submit", "read"}
    BY <1>5 DEF Admit, tables, TypeOK
  <2>2. allocate'[q] => /\ job[q].op = "submit"
                        /\ job[q].player = None
                        /\ job[q].token # None
    BY <1>5 DEF Admit, TypeOK
  <2>3. job[q].token = None => cand'[q] = None
    BY <1>5 DEF Admit, TypeOK
  <2> QED
    BY <1>1, <2>1, <2>2, <2>3
<1>6. CASE CommitPlay(q) \/ CommitSignIn(q) \/ CommitClaim(q)
  <2>1. UNCHANGED <<job, cand, allocate>> /\ pc'[q] \in Ended
    BY <1>6 DEF CommitPlay, CommitSignIn, CommitClaim, TypeOK, Ended
  <2> QED
    BY <1>1, <2>1, SubjectKept, NoneAssumption DEF Ended
<1>7. CASE LockNext(q) \/ Redraw(q) \/ Decide(q) \/ Refuse(q) \/ DecideClaim(q) \/ Abort(q)
  <2>1. /\ UNCHANGED <<job, cand, allocate, subject>>
        /\ pc'[q] # "idle"
        /\ Active(q)
    BY <1>7 DEF LockNext, Redraw, Decide, ReadyToDecide, Refuse, DecideClaim, Abort,
                tables, TypeOK
  <2> QED
    BY <1>1, <2>1
<1>8. CASE DecideSignIn(q)
  <2>1. /\ UNCHANGED <<job, allocate, subject>>
        /\ pc'[q] # "idle"
        /\ Active(q)
        /\ job[q].op = "signin"
    BY <1>8 DEF DecideSignIn, tables, TypeOK
  <2>2. cand' = cand \/ \E p \in Fresh : cand' = [cand EXCEPT ![q] = p]
    BY <1>8 DEF DecideSignIn
  <2>3. cand'[q] # None
    BY <1>1, <2>1, <2>2, FreshPlayers DEF TypeOK
  <2> QED
    BY <1>1, <2>1, <2>3
<1> QED
  BY <1>2, <1>3, <1>4, <1>5, <1>6, <1>7, <1>8 DEF StepOf, Arrive, Progress

(* Every step keeps JobsSound.                                                 *)
LEMMA JobsSoundStep ==
  ASSUME TypeOK, NoneAssumption, DrawAssumption, TableAssumption, JobsSound,
         NEW q \in Requests, StepOf(q)
  PROVE  JobsSound'
<1> SUFFICES ASSUME NEW r \in Requests PROVE JobSound(r)'
  BY DEF JobsSound, JobSound
<1>1. CASE r = q
  BY <1>1, OwnJob
<1>2. CASE r # q
  <2>1. JobSound(r)
    BY DEF JobsSound, JobSound
  <2>2. job[r].player # None /\ (\E s \in Subjects : subject[s] = job[r].player) =>
          \E s \in Subjects : subject'[s] = job[r].player
    BY SubjectKept
  <2>3. /\ pc'[r] = pc[r] /\ job'[r] = job[r] /\ cand'[r] = cand[r]
        /\ allocate'[r] = allocate[r]
    BY <1>2, OthersKept
  <2> QED
    BY <2>1, <2>2, <2>3 DEF JobSound, Active
<1> QED
  BY <1>1, <1>2

-----------------------------------------------------------------------------
(* What the commit of a play request may change. *)

LEMMA PlayEffects ==
  ASSUME TypeOK, NoneAssumption, JobsSound, PlansSound,
         NEW q \in Requests, CommitPlay(q), ~IndexHit(q)
  PROVE  /\ subject' = subject
         /\ \A t \in Tokens : holder'[t] # holder[t] =>
              /\ allocate[q] /\ t = job[q].token
              /\ holder'[t] = cand[q] /\ cand[q] # None
              /\ holder[t] = None
              /\ cand[q] \notin Guests /\ ~Backed(cand[q])
         /\ \A t \in Tokens : adopter'[t] # adopter[t] =>
              /\ ~allocate[q] /\ t = job[q].token
              /\ adopter[t] = None
              /\ holder[t] = cand[q] /\ cand[q] # None
              /\ adopter'[t] # None => \E s \in Subjects : subject[s] = adopter'[t]
         /\ \A f \in Finishes : owner'[f] # owner[f] =>
              \/ owner'[f] \in {None, cand[q]}
              \/ \E s \in Subjects : subject[s] = owner'[f]
         /\ \A f \in Finishes : origin'[f] # origin[f] => origin'[f] = cand[q]
<1>1. pc[q] = "commit" /\ job[q].op \in {"submit", "read"} /\ Active(q)
  BY DEF CommitPlay, Active
<1>2. /\ plan[q].uid \in Need(q) \cup {None}
      /\ allocate[q] => /\ cand[q] # None
                        /\ plan[q].uid = cand[q]
                        /\ ~Backed(cand[q])
      /\ plan[q].adopt => /\ plan[q].uid = job[q].player
                          /\ holder[job[q].token] = cand[q]
                          /\ adopter[job[q].token] = None
                          /\ cand[q] # None
  BY <1>1 DEF PlansSound
<1>3. /\ job[q].token = None => cand[q] = None
      /\ job[q].player # None => \E s \in Subjects : subject[s] = job[q].player
      /\ allocate[q] => job[q].player = None /\ job[q].token # None
      /\ job[q].token \in MaybeToken
  BY <1>1 DEF JobsSound, TypeOK
<1>4. allocate[q] => cand[q] \notin Guests /\ holder[job[q].token] = None
  BY DEF IndexHit
<1>5. ~(allocate[q] /\ plan[q].adopt)
  BY <1>2, <1>3
<1>6. /\ holder' = IF allocate[q]
                   THEN [holder EXCEPT ![job[q].token] = cand[q]] ELSE holder
      /\ adopter' = IF plan[q].adopt
                    THEN [adopter EXCEPT ![job[q].token] = plan[q].uid] ELSE adopter
      /\ owner' = [f \in Finishes |->
           IF f \in plan[q].moves \/ (f = q /\ plan[q].puzzle # None)
           THEN plan[q].uid ELSE owner[f]]
      /\ origin' = [f \in Finishes |->
           IF f \in plan[q].moves THEN cand[q] ELSE origin[f]]
      /\ subject' = subject
  BY DEF CommitPlay
<1>7. ASSUME NEW t \in Tokens, holder'[t] # holder[t]
      PROVE  /\ allocate[q] /\ t = job[q].token
             /\ holder'[t] = cand[q] /\ cand[q] # None
             /\ holder[t] = None
             /\ cand[q] \notin Guests /\ ~Backed(cand[q])
  <2>1. allocate[q] /\ t = job[q].token /\ holder'[t] = cand[q]
    BY <1>6, <1>7 DEF TypeOK
  <2> QED
    BY <1>2, <1>4, <2>1
<1>8. ASSUME NEW t \in Tokens, adopter'[t] # adopter[t]
      PROVE  /\ ~allocate[q] /\ t = job[q].token
             /\ adopter[t] = None
             /\ holder[t] = cand[q] /\ cand[q] # None
             /\ adopter'[t] # None => \E s \in Subjects : subject[s] = adopter'[t]
  <2>1. plan[q].adopt /\ t = job[q].token /\ adopter'[t] = plan[q].uid
    BY <1>6, <1>8 DEF TypeOK
  <2> QED
    BY <1>2, <1>3, <1>5, <2>1
<1>9. ASSUME NEW f \in Finishes, owner'[f] # owner[f]
      PROVE  \/ owner'[f] \in {None, cand[q]}
             \/ \E s \in Subjects : subject[s] = owner'[f]
  <2>1. owner'[f] = plan[q].uid
    BY <1>6, <1>9
  <2> QED
    BY <1>2, <1>3, <2>1 DEF Need
<1>10. ASSUME NEW f \in Finishes, origin'[f] # origin[f]
       PROVE  origin'[f] = cand[q]
  BY <1>6, <1>10
<1> QED
  BY <1>6, <1>7, <1>8, <1>9, <1>10

(* What the commit of a legacy claim may change.                               *)
LEMMA ClaimEffects ==
  ASSUME TypeOK, JobsSound, NEW q \in Requests, CommitClaim(q)
  PROVE  /\ subject' = subject /\ adopter' = adopter
         /\ \A t \in Tokens : holder'[t] # holder[t] =>
              /\ t = job[q].token
              /\ holder'[t] = cand[q]
              /\ holder[t] = None
              /\ cand[q] \notin Guests
         /\ \A f \in Finishes : owner'[f] # owner[f] => owner'[f] = cand[q]
         /\ \A f \in Finishes : origin'[f] # origin[f] => origin'[f] = job[q].player
<1>1. subject' = subject /\ adopter' = adopter
  BY DEF CommitClaim
<1>2. CASE UNCHANGED <<holder, owner, origin>>
  BY <1>1, <1>2
<1>3. CASE /\ holder[job[q].token] = None
           /\ cand[q] \notin Guests
           /\ holder' = [holder EXCEPT ![job[q].token] = cand[q]]
           /\ owner' = [f \in Finishes |->
                IF f \in plan[q].moves THEN cand[q] ELSE owner[f]]
           /\ origin' = [f \in Finishes |->
                IF f \in plan[q].moves THEN job[q].player ELSE origin[f]]
  BY <1>1, <1>3 DEF TypeOK
<1> QED
  BY <1>2, <1>3 DEF CommitClaim

(* The player another request's claim has set aside stays unused. *)
LEMMA UnusedKept ==
  ASSUME TypeOK, NoneAssumption, DrawAssumption, JobsSound, PlansSound,
         NEW q \in Requests, StepOf(q),
         NEW c \in SpareIds, Unused(c), Active(q) => cand[q] # c
  PROVE  Unused(c)'
<1>1. c # None
  BY NoneAssumption, DrawAssumption
<1>2. \A s \in Subjects : subject[s] # c
  BY DEF Unused, Backed
<1>3. CASE UNCHANGED tables
  BY <1>3 DEF tables, Unused, Backed, Guests
<1>4. CASE CommitPlay(q) /\ ~IndexHit(q)
  <2>1. cand[q] # c
    BY <1>4 DEF CommitPlay, Active
  <2>2. subject' = subject
    BY <1>4, PlayEffects
  <2>3. \A t \in Tokens : adopter'[t] # c
    BY <1>1, <1>2, <1>4, PlayEffects DEF Unused, Backed
  <2>4. \A t \in Tokens : holder'[t] # c
    BY <1>1, <1>4, <2>1, PlayEffects DEF Unused, Guests
  <2>5. \A f \in Finishes : owner'[f] # c /\ origin'[f] # c
    BY <1>1, <1>2, <1>4, <2>1, PlayEffects DEF Unused
  <2> QED
    BY <1>2, <2>2, <2>3, <2>4, <2>5 DEF Unused, Backed, Guests
<1>5. CASE CommitClaim(q)
  <2>1. cand[q] # c /\ job[q].player # c
    BY <1>5 DEF CommitClaim, Active, JobsSound
  <2>2. subject' = subject /\ adopter' = adopter
    BY <1>5, ClaimEffects
  <2>3. \A t \in Tokens : holder'[t] # c
    BY <1>1, <1>5, <2>1, ClaimEffects DEF Unused, Guests
  <2>4. \A f \in Finishes : owner'[f] # c /\ origin'[f] # c
    BY <1>5, <2>1, ClaimEffects DEF Unused
  <2> QED
    BY <2>2, <2>3, <2>4 DEF Unused, Backed, Guests
<1>6. CASE CommitSignIn(q)
  <2>1. cand[q] # c
    BY <1>6 DEF CommitSignIn, Active
  <2>2. \A s \in Subjects : subject'[s] # c
    BY <1>2, <1>6, <2>1 DEF CommitSignIn, TypeOK
  <2> QED
    BY <1>6, <2>2 DEF CommitSignIn, Unused, Backed, Guests
<1> QED
  BY <1>3, <1>4, <1>5, <1>6, TableSteps

(* A first sign-in never finds the unused player of a claim.                   *)
LEMMA KnownNotSpare ==
  ASSUME TypeOK, TableAssumption, SpareAssumption, NEW s \in Subjects,
         NEW l \in {None, Formerly[s]}, NEW c \in SpareIds, Unused(c), c # None
  PROVE  Known(s, l) # c
<1>1. \A u \in Subjects : subject[u] # c /\ OldForm[u] # c
  BY SpareAssumption DEF Unused, Backed
<1>2. Formerly[s] \in Subjects \cup {None}
  BY TableAssumption
<1> QED
  BY <1>1, <1>2 DEF Known

(* No other request draws or finds the player a claim has set aside. *)
LEMMA OtherCand ==
  ASSUME TypeOK, NoneAssumption, DrawAssumption, TableAssumption, SpareAssumption,
         SpareKept, NEW q \in Requests, StepOf(q), Active(q)',
         NEW r \in Requests, r # q, Active(r), job[r].op = "claim"
  PROVE  cand'[q] # cand[r]
<1>1. /\ cand[r] \in SpareIds
      /\ Unused(cand[r])
      /\ Active(q) => cand[q] # cand[r]
      /\ cand[r] # None
      /\ cand[r] \notin Fresh
  BY NoneAssumption, DrawAssumption DEF SpareKept, Fresh, Reserved, Active
<1>2. CASE ArrivePlay(q)
  BY <1>2 DEF ArrivePlay, Active, TypeOK
<1>3. CASE ArriveClaim(q)
  <2>1. cand'[q] \in Fresh
    BY <1>3 DEF ArriveClaim, TypeOK
  <2> QED
    BY <1>1, <2>1
<1>4. CASE ArriveSignIn(q)
  <2>1. pc'[q] # "accepted"
    BY DEF Active
  <2>2. PICK s \in Subjects : \E l \in {None, Formerly[s]} :
                   \E p \in IF Known(s, l) # None THEN {Known(s, l)} ELSE Fresh :
                     cand' = [cand EXCEPT ![q] = p]
    BY <1>4, <2>1 DEF ArriveSignIn, TypeOK
  <2>3. PICK l \in {None, Formerly[s]} : cand'[q] = Known(s, l) \/ cand'[q] \in Fresh
    BY <2>2 DEF TypeOK
  <2> QED
    BY <1>1, <2>3, KnownNotSpare
<1>5. CASE Admit(q)
  <2>1. job[q].token \in MaybeToken
    BY DEF TypeOK
  <2>2. cand'[q] \in AllocIds \/ cand'[q] = None
        \/ (job[q].token \in Tokens /\ cand'[q] = holder[job[q].token])
    BY <1>5, <2>1 DEF Admit, TypeOK, MaybeToken
  <2>3. cand[r] \notin AllocIds
    BY <1>1, DrawAssumption
  <2>4. \A t \in Tokens : holder[t] # cand[r]
    BY <1>1 DEF Unused, Guests
  <2> QED
    BY <1>1, <2>2, <2>3, <2>4
<1>6. CASE LockNext(q) \/ Decide(q) \/ DecideClaim(q)
  BY <1>1, <1>6 DEF LockNext, Decide, ReadyToDecide, DecideClaim, Active
<1>7. CASE DecideSignIn(q)
  <2>1. Active(q)
    BY <1>7 DEF DecideSignIn, Active
  <2>2. cand' = cand \/ \E p \in Fresh : cand' = [cand EXCEPT ![q] = p]
    BY <1>7 DEF DecideSignIn
  <2> QED
    BY <1>1, <2>1, <2>2 DEF TypeOK
<1>8. CASE Redraw(q) \/ Refuse(q) \/ CommitPlay(q) \/ CommitClaim(q)
             \/ CommitSignIn(q) \/ Abort(q)
  <2>1. pc'[q] \in {"admit"} \cup Ended
    BY <1>8 DEF Redraw, Refuse, CommitPlay, CommitClaim, CommitSignIn, Abort, TypeOK, Ended
  <2> QED
    BY <2>1 DEF Active, Ended
<1> QED
  BY <1>2, <1>3, <1>4, <1>5, <1>6, <1>7, <1>8 DEF StepOf, Arrive, Progress

(* A claim that is in its transaction after its own step. *)
LEMMA OwnSpare ==
  ASSUME TypeOK, NoneAssumption, DrawAssumption, SpareKept,
         NEW q \in Requests, StepOf(q), Active(q)', job'[q].op = "claim"
  PROVE  /\ cand'[q] \in SpareIds
         /\ Unused(cand[q])'
         /\ \A r \in Requests \ {q} : Active(r)' => cand'[r] # cand'[q]
<1>1. \A r \in Requests \ {q} : Active(r)' = Active(r) /\ cand'[r] = cand[r]
  BY OthersKept DEF Active
<1>2. CASE ArriveClaim(q)
  <2>1. cand'[q] \in Fresh /\ UNCHANGED tables
    BY <1>2 DEF ArriveClaim, TypeOK
  <2>2. Unused(cand[q])'
    BY <2>1 DEF Fresh, Unused, Backed, Guests, tables
  <2> QED
    BY <1>1, <2>1, <2>2 DEF Fresh, Reserved, Active
<1>3. CASE LockNext(q) \/ DecideClaim(q)
  <2>1. UNCHANGED <<tables, job, cand>> /\ Active(q)
    BY <1>3 DEF LockNext, DecideClaim, Active
  <2>2. /\ cand[q] \in SpareIds
        /\ Unused(cand[q])
        /\ \A r \in Requests \ {q} : Active(r) => cand[r] # cand[q]
    BY <2>1 DEF SpareKept
  <2> QED
    BY <1>1, <2>1, <2>2 DEF Unused, Backed, Guests, tables
<1>4. CASE Redraw(q) \/ Refuse(q) \/ CommitPlay(q) \/ CommitClaim(q)
             \/ CommitSignIn(q) \/ Abort(q)
  <2>1. pc'[q] \in {"admit"} \cup Ended
    BY <1>4 DEF Redraw, Refuse, CommitPlay, CommitClaim, CommitSignIn, Abort, TypeOK, Ended
  <2> QED
    BY <2>1 DEF Active, Ended
<1>5. CASE ArrivePlay(q)
  BY <1>5 DEF ArrivePlay, TypeOK, Active
<1>6. CASE ArriveSignIn(q)
  <2>1. job'[q].op = "signin"
    BY <1>6 DEF ArriveSignIn, TypeOK
  <2> QED
    BY <2>1
<1>7. CASE Admit(q) \/ Decide(q) \/ DecideSignIn(q)
  BY <1>7 DEF Admit, Decide, ReadyToDecide, DecideSignIn
<1> QED
  BY <1>2, <1>3, <1>4, <1>5, <1>6, <1>7 DEF StepOf, Arrive, Progress

(* Every step keeps SpareKept: what a claim has set aside stays unused.        *)
LEMMA SpareKeptStep ==
  ASSUME TypeOK, NoneAssumption, DrawAssumption, TableAssumption, SpareAssumption,
         JobsSound, PlansSound, SpareKept, NEW q \in Requests, StepOf(q)
  PROVE  SpareKept'
<1> SUFFICES ASSUME NEW r \in Requests, Active(r)', job'[r].op = "claim"
             PROVE  /\ cand'[r] \in SpareIds
                    /\ Unused(cand[r])'
                    /\ \A p \in Requests \ {r} : Active(p)' => cand'[p] # cand'[r]
  BY DEF SpareKept
<1>1. CASE r = q
  BY <1>1, OwnSpare
<1>2. CASE r # q
  <2>1. Active(r) /\ job[r].op = "claim" /\ cand'[r] = cand[r]
    BY <1>2, OthersKept DEF Active
  <2>2. /\ cand[r] \in SpareIds
        /\ Unused(cand[r])
        /\ \A p \in Requests \ {r} : Active(p) => cand[p] # cand[r]
    BY <2>1 DEF SpareKept
  <2>3. PICK c \in SpareIds : c = cand[r]
    BY <2>2
  <2>4. Unused(c)'
    BY <1>2, <2>2, <2>3, UnusedKept
  <2>5. Active(q)' => cand'[q] # cand[r]
    BY <1>2, <2>1, OtherCand
  <2>6. \A p \in Requests \ {r, q} : Active(p)' => cand'[p] # cand[r]
    BY <2>2, OthersKept DEF Active
  <2> QED
    BY <2>1, <2>2, <2>3, <2>4, <2>5, <2>6
<1> QED
  BY <1>1, <1>2

PlanSound(r) ==
  /\ (pc[r] = "commit" /\ job[r].op \in {"submit", "read"}) =>
       /\ plan[r].uid \in Need(r) \cup {None}
       /\ allocate[r] => /\ cand[r] # None
                         /\ plan[r].uid = cand[r]
                         /\ ~Backed(cand[r])
       /\ plan[r].adopt => /\ plan[r].uid = job[r].player
                           /\ holder[job[r].token] = cand[r]
                           /\ adopter[job[r].token] = None
       /\ plan[r].adopt \/ plan[r].uid # job[r].player => cand[r] # None
       /\ (plan[r].uid \notin {None, job[r].player} /\ ~allocate[r]) =>
            /\ holder[job[r].token] = plan[r].uid
            /\ adopter[job[r].token] = None
  /\ (pc[r] = "commit" /\ job[r].op = "signin") => cand[r] \notin Guests

(* A request's decision is sound when it is taken. *)
LEMMA OwnPlan ==
  ASSUME TypeOK, NoneAssumption, JobsSound, PlansSound, GuestNotAccount,
         NEW q \in Requests, StepOf(q)
  PROVE  PlanSound(q)'
<1>1. CASE Decide(q)
  <2>1. /\ pc[q] = "lock"
        /\ job[q].op \in {"submit", "read"}
        /\ job[q].op = "submit" => Primary(q) # None
        /\ plan'[q].uid = Primary(q) /\ plan'[q].adopt = Adopts(q)
        /\ UNCHANGED <<tables, job, cand, allocate>>
    <3>1. /\ pc[q] = "lock" /\ job[q].op \in {"submit", "read"}
          /\ UNCHANGED <<tables, job, cand, allocate>>
      BY <1>1 DEF Decide, ReadyToDecide
    <3>2. CASE job[q].op = "submit"
      BY <1>1, <3>1, <3>2 DEF Decide, TypeOK
    <3>3. CASE job[q].op = "read"
      BY <1>1, <3>1, <3>3 DEF Decide, TypeOK
    <3> QED
      BY <3>1, <3>2, <3>3
  <2>2. allocate[q] => job[q].op = "submit" /\ job[q].player = None /\ job[q].token # None
    BY DEF JobsSound
  <2>3. GuestOf(q) # None =>
          /\ GuestOf(q) = cand[q] /\ cand[q] # None /\ cand[q] # job[q].player
          /\ ~Backed(cand[q])
          /\ ~allocate[q] => holder[job[q].token] = cand[q] /\ adopter[job[q].token] = None
    BY DEF GuestOf
  <2>4. Platform(q) \in {None, job[q].player}
    BY DEF Platform
  <2>5. CASE Platform(q) # None
    <3>1. ~allocate[q] /\ Primary(q) = job[q].player /\ job[q].player # None
      BY <2>2, <2>4, <2>5 DEF Primary
    <3>2. Adopts(q) => GuestOf(q) # None
      BY DEF Adopts
    <3>3. /\ plan'[q].uid = job[q].player
          /\ plan'[q].adopt => /\ cand[q] # None
                               /\ holder[job[q].token] = cand[q]
                               /\ adopter[job[q].token] = None
      BY <2>1, <2>3, <3>1, <3>2
    <3> QED
      BY <2>1, <3>1, <3>3 DEF PlanSound, Need, tables
  <2>6. CASE Platform(q) = None
    <3>1. Primary(q) = GuestOf(q) /\ ~Adopts(q)
      BY <2>6 DEF Primary, Adopts
    <3>2. plan'[q].uid = GuestOf(q) /\ ~plan'[q].adopt
      BY <2>1, <3>1
    <3>3. CASE GuestOf(q) = None
      <4>1. job[q].op = "read" /\ ~allocate[q]
        BY <2>1, <2>2, <3>1, <3>3
      <4>2. plan'[q].uid = None
        BY <3>2, <3>3
      <4>3. job[q].player = None
        BY <2>1, <2>6 DEF Platform, Guests, JobsSound, GuestNotAccount, Backed
      <4> QED
        BY <2>1, <3>2, <4>1, <4>2, <4>3 DEF PlanSound, Need, tables
    <3>4. CASE GuestOf(q) # None
      BY <2>1, <2>3, <3>2, <3>4 DEF PlanSound, Need, Backed, tables
    <3> QED
      BY <3>3, <3>4
  <2> QED
    BY <2>5, <2>6
<1>2. CASE DecideClaim(q)
  BY <1>2 DEF DecideClaim, PlanSound
<1>3. CASE DecideSignIn(q)
  <2>1. job' = job /\ job[q].op = "signin" /\ pc[q] = "lock" /\ UNCHANGED tables
    BY <1>3 DEF DecideSignIn
  <2>2. pc'[q] = "commit" => cand' = cand /\ cand[q] \notin Guests
    BY <1>3, <2>1 DEF DecideSignIn, TypeOK
  <2> QED
    BY <2>1, <2>2 DEF PlanSound, Guests, tables
<1>4. CASE Arrive(q) \/ Admit(q) \/ LockNext(q) \/ Redraw(q) \/ Refuse(q)
            \/ CommitPlay(q) \/ CommitClaim(q) \/ CommitSignIn(q) \/ Abort(q)
  <2>1. pc'[q] # "commit"
    BY <1>4 DEF Arrive, ArrivePlay, ArriveClaim, ArriveSignIn, Admit, LockNext, Redraw,
                Refuse, CommitPlay, CommitClaim, CommitSignIn, Abort, TypeOK
  <2> QED
    BY <2>1 DEF PlanSound
<1> QED
  BY <1>1, <1>2, <1>3, <1>4 DEF StepOf, Progress

(* Two requests about to commit share no player and no token. *)
LEMMA Mutex ==
  ASSUME TypeOK, NoneAssumption, LocksHeld,
         NEW q \in Requests, NEW r \in Requests, r # q,
         pc[q] = "commit", pc[r] = "commit"
  PROVE  /\ Need(q) \cap Need(r) = {}
         /\ job[q].token # None => job[q].token # job[r].token
<1>1. HasLocks(q) /\ HasLocks(r)
  BY DEF LocksHeld
<1>2. /\ job[q].token # None => tokenLock[job[q].token] = q
      /\ job[r].token # None => tokenLock[job[r].token] = r
  BY DEF LocksHeld, Active
<1> QED
  BY <1>1, <1>2 DEF HasLocks, HeldBy

(* ... and stays sound whatever the others commit. *)
LEMMA OtherPlan ==
  ASSUME TypeOK, NoneAssumption, LocksHeld, JobsSound, PlansSound,
         NEW q \in Requests, StepOf(q), NEW r \in Requests, r # q
  PROVE  PlanSound(r)'
<1>1. PlanSound(r)
  BY DEF PlansSound, PlanSound
<1>2. /\ pc'[r] = pc[r] /\ job'[r] = job[r] /\ cand'[r] = cand[r]
      /\ allocate'[r] = allocate[r] /\ plan'[r] = plan[r] /\ Need(r)' = Need(r)
  BY OthersKept, HeldKept
<1>3. CASE UNCHANGED tables \/ pc[r] # "commit"
  BY <1>1, <1>2, <1>3 DEF PlanSound, Guests, Backed, tables
<1>4. CASE pc[r] = "commit" /\ CommitPlay(q) /\ ~IndexHit(q)
  <2>1. pc[q] = "commit"
    BY <1>4 DEF CommitPlay
  <2>2. Need(q) \cap Need(r) = {} /\ (job[q].token # None => job[q].token # job[r].token)
    BY <1>4, <2>1, Mutex
  <2>3. cand[q] # None => cand[q] # cand[r]
    BY <2>2 DEF Need
  <2>4. \A t \in Tokens : holder'[t] # holder[t] => t # job[r].token /\ holder'[t] # cand[r]
    BY <1>4, <2>2, <2>3, PlayEffects DEF JobsSound
  <2>5. \A t \in Tokens : adopter'[t] # adopter[t] => t # job[r].token
    BY <1>4, <2>2, PlayEffects, NoneAssumption
  <2>6. cand[r] # None /\ ~Backed(cand[r]) => ~Backed(cand[r])'
    <3>1. SUFFICES ASSUME cand[r] # None, ~Backed(cand[r]) PROVE ~Backed(cand[r])'
      OBVIOUS
    <3>2. \A t \in Tokens : adopter'[t] # cand[r]
      BY <1>4, <3>1, PlayEffects DEF Backed
    <3>3. \A s \in Subjects : subject'[s] # cand[r]
      BY <1>4, <3>1, PlayEffects DEF Backed
    <3> QED
      BY <1>2, <3>2, <3>3 DEF Backed
  <2>7. cand[r] \notin Guests => cand[r] \notin Guests'
    BY <2>4 DEF Guests
  <2>8. job[r].token \in MaybeToken /\ (job[r].op \in {"submit", "read"}
           /\ job[r].token = None => cand[r] = None)
    BY <1>4 DEF TypeOK, JobsSound, Active
  <2>9. job[r].token \in Tokens => /\ holder'[job[r].token] = holder[job[r].token]
                                   /\ adopter'[job[r].token] = adopter[job[r].token]
    BY <2>4, <2>5
  <2> QED
    BY <1>1, <1>2, <2>6, <2>7, <2>8, <2>9 DEF PlanSound, MaybeToken
<1>5. CASE pc[r] = "commit" /\ CommitClaim(q)
  <2>1. pc[q] = "commit" /\ job[q].token # None
    BY <1>5 DEF CommitClaim, JobsSound
  <2>2. Need(q) \cap Need(r) = {} /\ job[q].token # job[r].token
    BY <1>5, <2>1, Mutex
  <2>3. subject' = subject /\ adopter' = adopter
    BY <1>5, ClaimEffects
  <2>4. \A t \in Tokens : holder'[t] # holder[t] => t # job[r].token /\ holder'[t] = cand[q]
    BY <1>5, <2>2, ClaimEffects
  <2>5. (cand[r] \notin Guests /\ cand[r] # None) => cand[r] \notin Guests'
    BY <2>2, <2>4 DEF Guests, Need
  <2>6. job[r].token \in MaybeToken /\ (job[r].op \in {"submit", "read"}
           /\ job[r].token = None => cand[r] = None)
    BY <1>5 DEF TypeOK, JobsSound, Active
  <2>7. job[r].op = "signin" => cand[r] # None
    BY <1>5 DEF JobsSound, Active
  <2>8. Backed(cand[r])' <=> Backed(cand[r])
    BY <1>2, <2>3 DEF Backed
  <2>9. job[r].token \in Tokens => /\ holder'[job[r].token] = holder[job[r].token]
                                   /\ adopter'[job[r].token] = adopter[job[r].token]
    BY <2>3, <2>4
  <2> QED
    BY <1>1, <1>2, <2>5, <2>6, <2>7, <2>8, <2>9 DEF PlanSound, MaybeToken
<1>6. CASE pc[r] = "commit" /\ CommitSignIn(q)
  <2>1. pc[q] = "commit" /\ UNCHANGED <<holder, adopter>>
    BY <1>6 DEF CommitSignIn
  <2>2. cand[q] # None => cand[q] # cand[r]
    BY <1>6, <2>1, Mutex DEF Need
  <2>3. cand[q] # None
    BY <1>6, <2>1 DEF CommitSignIn, JobsSound, Active
  <2>4. cand[r] # None /\ ~Backed(cand[r]) => ~Backed(cand[r])'
    BY <1>2, <1>6, <2>1, <2>2, <2>3 DEF CommitSignIn, Backed, TypeOK
  <2> QED
    BY <1>1, <1>2, <2>1, <2>4 DEF PlanSound, Guests
<1> QED
  BY <1>3, <1>4, <1>5, <1>6, TableSteps

(* Every step keeps PlansSound: what was checked stays true until the commit.  *)
LEMMA PlansSoundStep ==
  ASSUME TypeOK, NoneAssumption, LocksHeld, JobsSound, PlansSound, GuestNotAccount,
         NEW q \in Requests, StepOf(q)
  PROVE  PlansSound'
<1>1. \A r \in Requests : PlanSound(r)'
  BY OwnPlan, OtherPlan
<1> QED
  BY <1>1 DEF PlansSound, PlanSound

(* Which tables a commit may change, and to what, in one place. *)
LEMMA HolderEffects ==
  ASSUME TypeOK, NoneAssumption, DrawAssumption, JobsSound, PlansSound, SpareKept,
         NEW q \in Requests, StepOf(q),
         NEW t \in Tokens, holder'[t] # holder[t]
  PROVE  /\ holder[t] = None
         /\ holder'[t] = cand[q] /\ cand[q] # None
         /\ cand[q] \notin Guests /\ ~Backed(cand[q])
         /\ t = job[q].token
         /\ UNCHANGED <<subject, adopter>>
<1>1. CASE CommitPlay(q) /\ ~IndexHit(q)
  <2>1. /\ allocate[q] /\ t = job[q].token
        /\ holder'[t] = cand[q] /\ cand[q] # None
        /\ holder[t] = None
        /\ cand[q] \notin Guests /\ ~Backed(cand[q])
        /\ subject' = subject
    BY <1>1, PlayEffects
  <2>2. \A u \in Tokens : adopter'[u] = adopter[u]
    BY <1>1, <2>1, PlayEffects
  <2>3. adopter' = adopter
    <3>1. adopter' = [adopter EXCEPT ![job[q].token] = plan[q].uid] \/ adopter' = adopter
      BY <1>1 DEF CommitPlay
    <3> QED
      BY <2>2, <3>1 DEF TypeOK
  <2> QED
    BY <2>1, <2>3
<1>2. CASE CommitClaim(q)
  <2>1. cand[q] \in SpareIds /\ Unused(cand[q])
    BY <1>2 DEF CommitClaim, SpareKept, Active
  <2> QED
    BY <1>2, <2>1, ClaimEffects, NoneAssumption, DrawAssumption DEF Unused
<1>3. CASE CommitSignIn(q) \/ UNCHANGED tables
  BY <1>3 DEF CommitSignIn, tables
<1> QED
  BY <1>1, <1>2, <1>3, TableSteps

(* No step gives one guest to two tokens.                                      *)
LEMMA HolderInjectiveStep ==
  ASSUME TypeOK, NoneAssumption, DrawAssumption, JobsSound, PlansSound, SpareKept,
         HolderInjective, NEW q \in Requests, StepOf(q)
  PROVE  HolderInjective'
<1> SUFFICES ASSUME NEW t \in Tokens, NEW u \in Tokens,
                    holder'[t] # None, holder'[t] = holder'[u]
             PROVE  t = u
  BY DEF HolderInjective
<1>1. CASE holder'[t] = holder[t] /\ holder'[u] = holder[u]
  BY <1>1 DEF HolderInjective
<1>2. CASE holder'[t] # holder[t] /\ holder'[u] = holder[u]
  BY <1>2, HolderEffects DEF Guests
<1>3. CASE holder'[t] = holder[t] /\ holder'[u] # holder[u]
  <2>1. holder'[u] = cand[q] /\ cand[q] \notin Guests
    BY <1>3, HolderEffects
  <2>2. holder[t] \in Guests
    BY <1>3 DEF Guests
  <2> QED
    BY <1>3, <2>1, <2>2
<1>4. CASE holder'[t] # holder[t] /\ holder'[u] # holder[u]
  BY <1>4, HolderEffects
<1> QED
  BY <1>1, <1>2, <1>3, <1>4

(* When a guest becomes adopted it is live, and the adopter is an account.     *)
LEMMA AdopterEffects ==
  ASSUME TypeOK, NoneAssumption, JobsSound, PlansSound,
         NEW q \in Requests, StepOf(q),
         NEW t \in Tokens, adopter'[t] # adopter[t]
  PROVE  /\ adopter[t] = None
         /\ holder[t] # None /\ holder'[t] = holder[t]
         /\ adopter'[t] # None => \E s \in Subjects : subject[s] = adopter'[t]
<1>1. CASE CommitPlay(q) /\ ~IndexHit(q)
  BY <1>1, PlayEffects
<1>2. CASE CommitClaim(q)
  BY <1>2 DEF CommitClaim
<1>3. CASE CommitSignIn(q) \/ UNCHANGED tables
  BY <1>3 DEF CommitSignIn, tables
<1> QED
  BY <1>1, <1>2, <1>3, TableSteps

(* No step leaves an adoption on a token without a guest.                      *)
LEMMA AdoptedHasHolderStep ==
  ASSUME TypeOK, NoneAssumption, DrawAssumption, JobsSound, PlansSound, SpareKept,
         AdoptedHasHolder, NEW q \in Requests, StepOf(q)
  PROVE  AdoptedHasHolder'
<1> SUFFICES ASSUME NEW t \in Tokens, adopter'[t] # None
             PROVE  holder'[t] # None
  BY DEF AdoptedHasHolder
<1>1. CASE adopter'[t] # adopter[t]
  BY <1>1, AdopterEffects
<1>2. CASE adopter'[t] = adopter[t] /\ holder'[t] = holder[t]
  BY <1>2 DEF AdoptedHasHolder
<1>3. CASE holder'[t] # holder[t]
  BY <1>3, HolderEffects
<1> QED
  BY <1>1, <1>2, <1>3

(* The step of the argument that matters: what allocation, claim and sign-in    *)
(* checked before they decided is still true when they commit.                  *)
LEMMA GuestNotAccountStep ==
  ASSUME TypeOK, NoneAssumption, DrawAssumption, JobsSound, PlansSound, SpareKept,
         GuestNotAccount, NEW q \in Requests, StepOf(q)
  PROVE  GuestNotAccount'
<1> SUFFICES ASSUME NEW t \in Tokens, holder'[t] # None
             PROVE  /\ \A s \in Subjects : subject'[s] # holder'[t]
                    /\ \A u \in Tokens : adopter'[u] # holder'[t]
  BY DEF GuestNotAccount, Backed
<1>1. CASE holder'[t] # holder[t]
  BY <1>1, HolderEffects DEF Backed
<1>2. CASE holder'[t] = holder[t]
  <2>1. /\ \A s \in Subjects : subject[s] # holder'[t]
        /\ \A u \in Tokens : adopter[u] # holder'[t]
    BY <1>2 DEF GuestNotAccount, Backed
  <2>2. \A u \in Tokens : adopter'[u] # holder'[t]
    BY <2>1, AdopterEffects
  <2>3. \A s \in Subjects : subject'[s] # holder'[t]
    <3>1. CASE CommitSignIn(q)
      <4>1. cand[q] \notin Guests
        BY <3>1 DEF CommitSignIn, PlansSound
      <4> QED
        BY <1>2, <2>1, <3>1, <4>1 DEF CommitSignIn, Guests, TypeOK
    <3>2. CASE CommitPlay(q) /\ ~IndexHit(q)
      BY <2>1, <3>2, PlayEffects
    <3>3. CASE CommitClaim(q) \/ UNCHANGED tables
      BY <2>1, <3>3 DEF CommitClaim, tables
    <3> QED
      BY <3>1, <3>2, <3>3, TableSteps
  <2> QED
    BY <2>2, <2>3
<1> QED
  BY <1>1, <1>2

(* IdentityInv holds before the first request.                                 *)
THEOREM IdentityInit == Init => IdentityInv
<1> SUFFICES ASSUME Init PROVE IdentityInv
  OBVIOUS
<1>1. \A r \in Requests : pc[r] = "idle" /\ job[r] = NoJob /\ ~allocate[r]
  BY DEF Init
<1>2. \A t \in Tokens : holder[t] = None /\ adopter[t] = None /\ tokenLock[t] = None
  BY DEF Init
<1>3. \A p \in Players : playerLock[p] = None
  BY DEF Init
<1>4. LocksHeld
  BY <1>1, <1>2, <1>3, NoneAssumption DEF LocksHeld, Active
<1>5. JobsSound /\ SpareKept /\ PlansSound
  BY <1>1 DEF JobsSound, SpareKept, PlansSound, Active, NoJob
<1>6. HolderInjective /\ AdoptedHasHolder /\ GuestNotAccount
  BY <1>2 DEF HolderInjective, AdoptedHasHolder, GuestNotAccount
<1> QED
  BY <1>4, <1>5, <1>6 DEF IdentityInv

(* IdentityInv is inductive: admission, allocation, adoption, claims and sign-ins*)
(* keep it under every interleaving of their transactions.                     *)
THEOREM IdentityStep == TypeOK /\ IdentityInv /\ [Next]_vars => IdentityInv'
<1> SUFFICES ASSUME TypeOK, IdentityInv, [Next]_vars PROVE IdentityInv'
  OBVIOUS
<1>1. CASE UNCHANGED <<tables, locks, pc, job, cand, allocate, plan>>
  <2> USE <1>1 DEF tables, locks
  <2>1. LocksHeld'
    BY DEF IdentityInv, LocksHeld, Active, Need, HeldBy, HasLocks
  <2>2. JobsSound'
    BY DEF IdentityInv, JobsSound, Active
  <2>3. SpareKept'
    BY DEF IdentityInv, SpareKept, Active, Unused, Backed, Guests
  <2>4. PlansSound'
    BY DEF IdentityInv, PlansSound, Need, Backed, Guests
  <2>5. HolderInjective'
    BY DEF IdentityInv, HolderInjective
  <2>6. AdoptedHasHolder'
    BY DEF IdentityInv, AdoptedHasHolder
  <2>7. GuestNotAccount'
    BY DEF IdentityInv, GuestNotAccount, Backed
  <2> QED
    BY <2>1, <2>2, <2>3, <2>4, <2>5, <2>6, <2>7 DEF IdentityInv
<1>2. ASSUME NEW q \in Requests, StepOf(q) PROVE IdentityInv'
  <2> USE NoneAssumption, DrawAssumption, TableAssumption, SpareAssumption, <1>2
  <2>1. LocksHeld'
    BY LocksHeldStep DEF IdentityInv
  <2>2. JobsSound'
    BY JobsSoundStep DEF IdentityInv
  <2>3. SpareKept'
    BY SpareKeptStep DEF IdentityInv
  <2>4. PlansSound'
    BY PlansSoundStep DEF IdentityInv
  <2>5. HolderInjective'
    BY HolderInjectiveStep DEF IdentityInv
  <2>6. AdoptedHasHolder'
    BY AdoptedHasHolderStep DEF IdentityInv
  <2>7. GuestNotAccount'
    BY GuestNotAccountStep DEF IdentityInv
  <2> QED
    BY <2>1, <2>2, <2>3, <2>4, <2>5, <2>6, <2>7 DEF IdentityInv
<1> QED
  BY <1>1, <1>2 DEF Next, StepOf, NextDay, vars

(* What a request has checked stays true until it commits. *)
THEOREM IdentityCorrect == Spec => []IdentityInv
<1>1. Init => TypeOK /\ IdentityInv
  BY TypeInit, IdentityInit
<1>2. (TypeOK /\ IdentityInv) /\ [Next]_vars => (TypeOK /\ IdentityInv)'
  BY TypeStep, IdentityStep
<1> QED
  BY <1>1, <1>2, PTL DEF Spec

(* No player is ever both a registered guest and an account, for any number of  *)
(* requests, browsers, subjects and players.                                    *)
THEOREM GuestNotAccountCorrect == Spec => []GuestNotAccount
<1>1. IdentityInv => GuestNotAccount
  BY DEF IdentityInv
<1> QED
  BY <1>1, IdentityCorrect, PTL

(* A token keeps its player, and a guest is adopted at most once.               *)
THEOREM TokenKeepsPlayerCorrect == Spec => TokenKeepsPlayer
<1> DEFINE Kept == \A t \in Tokens :
                     /\ holder[t] # None => holder'[t] = holder[t]
                     /\ adopter[t] # None => adopter'[t] = adopter[t]
<1>1. TypeOK /\ IdentityInv /\ [Next]_vars => [Kept]_vars
  <2> SUFFICES ASSUME TypeOK, IdentityInv, [Next]_vars PROVE Kept
    OBVIOUS
  <2>1. CASE UNCHANGED tables
    BY <2>1 DEF tables
  <2>2. ASSUME NEW q \in Requests, StepOf(q) PROVE Kept
    BY <2>2, HolderEffects, AdopterEffects, NoneAssumption, DrawAssumption DEF IdentityInv
  <2> QED
    BY <2>1, <2>2 DEF Next, StepOf, NextDay, vars
<1>2. Spec => []TypeOK
  BY TypeCorrect
<1>3. Spec => []IdentityInv
  BY IdentityCorrect
<1> QED
  BY <1>1, <1>2, <1>3, PTL DEF Spec, TokenKeepsPlayer

(* Nothing is written under an adopted guest. *)
LEMMA SealedStep ==
  ASSUME TypeOK, NoneAssumption, DrawAssumption, IdentityInv,
         NEW q \in Requests, StepOf(q),
         NEW t \in Tokens, NEW f \in Finishes,
         adopter[t] # None, owner'[f] = holder[t]
  PROVE  owner[f] = holder[t]
<1> SUFFICES ASSUME owner'[f] # owner[f] PROVE FALSE
  OBVIOUS
<1>1. /\ holder[t] # None /\ holder[t] \in Guests
      /\ \A s \in Subjects : subject[s] # holder[t]
      /\ \A u \in Tokens : holder[u] = holder[t] => u = t
  BY DEF IdentityInv, AdoptedHasHolder, Guests, GuestNotAccount, Backed, HolderInjective
<1>2. CASE CommitPlay(q) /\ ~IndexHit(q)
  <2>1. owner'[f] = plan[q].uid
    BY <1>2 DEF CommitPlay
  <2>2. pc[q] = "commit" /\ job[q].op \in {"submit", "read"} /\ Active(q)
    BY <1>2 DEF CommitPlay, Active
  <2>3. plan[q].uid # job[q].player
    BY <1>1, <2>1, <2>2 DEF IdentityInv, JobsSound
  <2>4. CASE allocate[q]
    <3>1. plan[q].uid = cand[q] /\ cand[q] \notin Guests
      BY <1>2, <2>2, <2>4 DEF IdentityInv, PlansSound, IndexHit
    <3> QED
      BY <1>1, <2>1, <3>1
  <2>5. CASE ~allocate[q]
    <3>1. holder[job[q].token] = plan[q].uid /\ adopter[job[q].token] = None
          /\ cand[q] # None
      BY <1>1, <2>1, <2>2, <2>3, <2>5 DEF IdentityInv, PlansSound
    <3>2. job[q].token \in Tokens
      BY <2>2, <3>1 DEF IdentityInv, JobsSound, TypeOK, MaybeToken
    <3> QED
      BY <1>1, <2>1, <3>1, <3>2
  <2> QED
    BY <2>4, <2>5
<1>3. CASE CommitClaim(q)
  <2>1. owner'[f] = cand[q]
    BY <1>3, ClaimEffects DEF IdentityInv
  <2>2. cand[q] \notin Guests
    BY <1>3 DEF IdentityInv, SpareKept, CommitClaim, Active, Unused
  <2> QED
    BY <1>1, <2>1, <2>2
<1>4. CASE CommitSignIn(q) \/ UNCHANGED tables
  BY <1>4 DEF CommitSignIn, tables
<1> QED
  BY <1>2, <1>3, <1>4, TableSteps

(* A request that saw the guest live never commits a row to it after another    *)
(* request adopted the guest.                                                   *)
THEOREM AdoptedGuestSealedCorrect == Spec => AdoptedGuestSealed
<1> DEFINE Sealed == \A t \in Tokens, f \in Finishes :
                       (adopter[t] # None /\ owner'[f] = holder[t]) => owner[f] = holder[t]
<1>1. TypeOK /\ IdentityInv /\ [Next]_vars => [Sealed]_vars
  <2> SUFFICES ASSUME TypeOK, IdentityInv, [Next]_vars PROVE Sealed
    OBVIOUS
  <2>1. CASE UNCHANGED tables
    BY <2>1 DEF tables
  <2>2. ASSUME NEW q \in Requests, StepOf(q) PROVE Sealed
    BY <2>2, SealedStep, NoneAssumption, DrawAssumption
  <2> QED
    BY <2>1, <2>2 DEF Next, StepOf, NextDay, vars
<1>2. Spec => []TypeOK
  BY TypeCorrect
<1>3. Spec => []IdentityInv
  BY IdentityCorrect
<1> QED
  BY <1>1, <1>2, <1>3, PTL DEF Spec, AdoptedGuestSealed
-----------------------------------------------------------------------------
(* The ledger: whose a finish is.                                              *)

(* The commit of a play request never meets a unique index, and does what its  *)
(* decision planned.                                                           *)
LEMMA PlayCommit ==
  ASSUME TypeOK, NoneAssumption, IdentityInv, RowsAreAccepted, PlansFresh,
         NEW q \in Requests, CommitPlay(q)
  PROVE  /\ ~IndexHit(q)
         /\ pc' = [pc EXCEPT ![q] = "accepted"]
         /\ owner' = [f \in Finishes |->
              IF f \in plan[q].moves \/ (f = q /\ plan[q].puzzle # None)
              THEN plan[q].uid ELSE owner[f]]
         /\ origin' = [f \in Finishes |->
              IF f \in plan[q].moves THEN cand[q] ELSE origin[f]]
         /\ puzzle' = [puzzle EXCEPT ![q] = plan[q].puzzle]
         /\ ritual' = [ritual EXCEPT ![q] = plan[q].ritual]
         /\ UNCHANGED <<job, plan, cand>>
         /\ owner[q] = None
         /\ plan[q].uid \in Need(q) \cup {None}
         /\ plan[q].adopt =>
              /\ job[q].token \in Tokens /\ cand[q] # None
              /\ holder[job[q].token] = cand[q] /\ adopter[job[q].token] = None
              /\ adopter'[job[q].token] = job[q].player
              /\ plan[q].uid = job[q].player /\ job[q].player # None
              /\ plan[q].moves = Movable(cand[q], job[q].player)
         /\ ~plan[q].adopt => plan[q].moves = {}
         /\ \A f \in plan[q].moves : f # q /\ owner[f] = cand[q] /\ owner[f] # None
<1>1. pc[q] = "commit" /\ job[q].op \in {"submit", "read"} /\ Active(q)
  BY DEF CommitPlay, Active
<1>2. ~IndexHit(q)
  BY <1>1 DEF PlansFresh
<1>3. /\ pc' = [pc EXCEPT ![q] = "accepted"]
      /\ adopter' = IF plan[q].adopt
                    THEN [adopter EXCEPT ![job[q].token] = plan[q].uid] ELSE adopter
      /\ owner' = [f \in Finishes |->
           IF f \in plan[q].moves \/ (f = q /\ plan[q].puzzle # None)
           THEN plan[q].uid ELSE owner[f]]
      /\ origin' = [f \in Finishes |->
           IF f \in plan[q].moves THEN cand[q] ELSE origin[f]]
      /\ puzzle' = [puzzle EXCEPT ![q] = plan[q].puzzle]
      /\ ritual' = [ritual EXCEPT ![q] = plan[q].ritual]
      /\ UNCHANGED <<job, plan, cand>>
  BY <1>2 DEF CommitPlay
<1>4. owner[q] = None
  BY <1>1 DEF RowsAreAccepted
<1>5. plan[q].uid \in Need(q) \cup {None}
  BY <1>1 DEF IdentityInv, PlansSound
<1>6. ASSUME plan[q].adopt
      PROVE  /\ job[q].token \in Tokens /\ cand[q] # None
             /\ holder[job[q].token] = cand[q] /\ adopter[job[q].token] = None
             /\ adopter'[job[q].token] = job[q].player
             /\ plan[q].uid = job[q].player /\ job[q].player # None
             /\ plan[q].moves = Movable(cand[q], job[q].player)
  <2>1. /\ plan[q].uid = job[q].player /\ cand[q] # None
        /\ holder[job[q].token] = cand[q] /\ adopter[job[q].token] = None
    BY <1>1, <1>6 DEF IdentityInv, PlansSound
  <2>2. job[q].token \in Tokens
    BY <1>1, <2>1 DEF IdentityInv, JobsSound, TypeOK, MaybeToken
  <2>3. adopter'[job[q].token] = job[q].player
    BY <1>3, <1>6, <2>1, <2>2 DEF TypeOK
  <2>4. plan[q].moves = Movable(cand[q], job[q].player)
    BY <1>1, <1>6 DEF PlansFresh
  <2>5. job[q].player # None
    BY <1>1, <1>6 DEF PlansFresh
  <2> QED
    BY <2>1, <2>2, <2>3, <2>4, <2>5
<1>7. ~plan[q].adopt => plan[q].moves = {}
  BY <1>1 DEF PlansFresh
<1>8. ASSUME NEW f \in plan[q].moves
      PROVE  f # q /\ owner[f] = cand[q] /\ owner[f] # None
  <2>1. f \in RowsOf(cand[q]) /\ cand[q] # None
    BY <1>6, <1>7 DEF Movable
  <2> QED
    BY <1>4, <2>1 DEF RowsOf
<1> QED
  BY <1>2, <1>3, <1>4, <1>5, <1>6, <1>7, <1>8

(* The commit of a claim is never stopped, and takes over every row of a        *)
(* player that is nobody's.                                                    *)
LEMMA ClaimCommit ==
  ASSUME TypeOK, NoneAssumption, DrawAssumption, IdentityInv, PlansFresh,
         NEW q \in Requests, CommitClaim(q)
  PROVE  /\ Claimable(q)
         /\ pc' = [pc EXCEPT ![q] = "accepted"]
         /\ job[q].token \in Tokens /\ job[q].player \in Players
         /\ job[q].player # None /\ cand[q] # None
         /\ holder[job[q].token] = None /\ holder'[job[q].token] = cand[q]
         /\ RowsOf(cand[q]) = {}
         /\ plan[q].moves = RowsOf(job[q].player)
         /\ owner' = [f \in Finishes |->
              IF f \in plan[q].moves THEN cand[q] ELSE owner[f]]
         /\ UNCHANGED <<adopter, subject, puzzle, ritual, job, plan>>
<1>1. pc[q] = "commit" /\ job[q].op = "claim" /\ Active(q)
  BY DEF CommitClaim, Active
<1>2. Claimable(q) /\ plan[q].moves = RowsOf(job[q].player)
  BY <1>1 DEF PlansFresh
<1>3. job[q].token \in Tokens /\ job[q].player \in Players
  BY <1>1 DEF IdentityInv, JobsSound, TypeOK, MaybeToken
<1>4. cand[q] \in SpareIds /\ Unused(cand[q])
  BY <1>1 DEF IdentityInv, SpareKept
<1>5. cand[q] # None /\ job[q].player # None
  BY <1>3, <1>4, NoneAssumption, DrawAssumption
<1>6. RowsOf(cand[q]) = {} /\ cand[q] \notin Guests
  BY <1>4 DEF Unused, RowsOf
<1>7. holder[job[q].token] = None
  BY <1>2 DEF Claimable
<1>8. /\ pc' = [pc EXCEPT ![q] = "accepted"]
      /\ holder' = [holder EXCEPT ![job[q].token] = cand[q]]
      /\ owner' = [f \in Finishes |->
           IF f \in plan[q].moves THEN cand[q] ELSE owner[f]]
      /\ UNCHANGED <<adopter, subject, puzzle, ritual, job, plan>>
  BY <1>2, <1>6, <1>7 DEF CommitClaim
<1>9. holder'[job[q].token] = cand[q]
  BY <1>3, <1>8 DEF TypeOK
<1> QED
  BY <1>2, <1>3, <1>5, <1>6, <1>7, <1>8, <1>9

(* The three ways a row changes hands: it is inserted, adopted or claimed.     *)
LEMMA RowMoves ==
  ASSUME TypeOK, NoneAssumption, DrawAssumption, IdentityInv, RowsAreAccepted, PlansFresh,
         NEW q \in Requests, StepOf(q), NEW f \in Finishes, owner'[f] # owner[f]
  PROVE  \/ /\ CommitPlay(q) /\ f = q /\ owner[f] = None
            /\ owner'[f] = plan[q].uid /\ plan[q].puzzle # None
         \/ /\ CommitPlay(q) /\ f # q /\ f \in plan[q].moves
            /\ job[q].token \in Tokens
            /\ owner[f] # None /\ owner[f] = cand[q]
            /\ holder[job[q].token] = owner[f] /\ adopter[job[q].token] = None
            /\ adopter'[job[q].token] = owner'[f] /\ owner'[f] # None
            /\ origin'[f] = owner[f]
         \/ /\ CommitClaim(q) /\ Claimable(q) /\ f \in plan[q].moves
            /\ job[q].token \in Tokens
            /\ owner[f] # None /\ owner[f] = job[q].player
            /\ holder[job[q].token] = None /\ holder'[job[q].token] = owner'[f]
<1>1. CASE CommitPlay(q)
  <2>1. CASE f \in plan[q].moves
    <3>1. plan[q].adopt
      BY <1>1, <2>1, PlayCommit
    <3> QED
      BY <1>1, <2>1, <3>1, PlayCommit
  <2>2. CASE f \notin plan[q].moves
    <3>1. f = q /\ plan[q].puzzle # None
      BY <1>1, <2>2, PlayCommit
    <3> QED
      BY <1>1, <2>2, <3>1, PlayCommit
  <2> QED
    BY <2>1, <2>2
<1>2. CASE CommitClaim(q)
  <2>1. f \in plan[q].moves /\ owner'[f] = cand[q]
    BY <1>2, ClaimCommit
  <2>2. owner[f] = job[q].player
    BY <1>2, <2>1, ClaimCommit DEF RowsOf
  <2> QED
    BY <1>2, <2>1, <2>2, ClaimCommit
<1>3. CASE CommitSignIn(q) \/ UNCHANGED tables
  BY <1>3 DEF CommitSignIn, tables
<1> QED
  BY <1>1, <1>2, <1>3, TableSteps

(* A row keeps its puzzle and its kind.                                        *)
LEMMA RowsKeepPuzzle ==
  ASSUME TypeOK, NoneAssumption, DrawAssumption, IdentityInv, RowsAreAccepted, PlansFresh,
         NEW q \in Requests, StepOf(q), NEW f \in Finishes, owner[f] # None
  PROVE  puzzle'[f] = puzzle[f] /\ ritual'[f] = ritual[f] /\ owner'[f] # None
<1>1. CASE CommitPlay(q)
  <2>1. f # q
    BY <1>1, PlayCommit
  <2>2. owner'[f] # None
    <3>1. CASE f \in plan[q].moves
      BY <1>1, <3>1, PlayCommit
    <3>2. CASE f \notin plan[q].moves
      BY <1>1, <2>1, <3>2, PlayCommit
    <3> QED
      BY <3>1, <3>2
  <2> QED
    BY <1>1, <2>1, <2>2, PlayCommit DEF TypeOK
<1>2. CASE CommitClaim(q) \/ CommitSignIn(q) \/ UNCHANGED tables
  <2>1. UNCHANGED <<puzzle, ritual>>
    BY <1>2 DEF CommitClaim, CommitSignIn, tables
  <2>2. CASE CommitClaim(q)
    BY <2>1, <2>2, ClaimCommit
  <2>3. CASE CommitSignIn(q) \/ UNCHANGED tables
    BY <2>1, <2>3 DEF CommitSignIn, tables
  <2> QED
    BY <1>2, <2>2, <2>3
<1> QED
  BY <1>1, <1>2, TableSteps

(* Who commits touches no row of a player whose lock another request holds.    *)
LEMMA LockedRowsKept ==
  ASSUME TypeOK, NoneAssumption, DrawAssumption, IdentityInv, RowsAreAccepted, PlansFresh,
         NEW q \in Requests, StepOf(q), NEW r \in Requests, r # q, pc[r] = "commit",
         NEW p \in Need(r)
  PROVE  /\ RowsOf(p)' = RowsOf(p)
         /\ \A f \in RowsOf(p) : puzzle'[f] = puzzle[f] /\ ritual'[f] = ritual[f]
<1>1. p # None
  BY DEF Need
<1>2. \A f \in RowsOf(p) : puzzle'[f] = puzzle[f] /\ ritual'[f] = ritual[f]
  BY <1>1, RowsKeepPuzzle DEF RowsOf
<1>3. ASSUME NEW f \in Finishes, owner'[f] # owner[f]
      PROVE  owner[f] # p /\ owner'[f] # p
  <2>1. pc[q] = "commit"
    BY <1>3, RowMoves DEF CommitPlay, CommitClaim
  <2>2. p \notin Need(q)
    BY <2>1, Mutex DEF IdentityInv
  <2>3. \/ owner[f] = None \/ owner[f] \in Need(q)
    BY <1>3, RowMoves DEF Need
  <2>4. owner'[f] \in Need(q) \cup {None}
    <3>1. CASE CommitPlay(q)
      BY <1>3, <3>1, PlayCommit
    <3>2. CASE CommitClaim(q)
      BY <1>3, <3>2, ClaimCommit DEF Need
    <3> QED
      BY <1>3, <3>1, <3>2, RowMoves
  <2> QED
    BY <1>1, <2>2, <2>3, <2>4
<1>4. RowsOf(p)' = RowsOf(p)
  BY <1>3 DEF RowsOf
<1> QED
  BY <1>2, <1>4

(* Nobody registers, or signs in as, a player whose lock another request holds, *)
(* nor gives a row to its token.                                               *)
LEMMA LockedPlayersKept ==
  ASSUME TypeOK, NoneAssumption, DrawAssumption, IdentityInv, RowsAreAccepted, PlansFresh,
         NEW q \in Requests, StepOf(q), NEW r \in Requests, r # q, pc[r] = "commit"
  PROVE  /\ \A p \in Need(r) : /\ p \notin Guests => p \notin Guests'
                               /\ ~Backed(p) => ~Backed(p)'
         /\ job[r].token \in Tokens => holder'[job[r].token] = holder[job[r].token]
<1>1. CASE pc[q] # "commit"
  <2>1. UNCHANGED tables
    BY <1>1, TableSteps DEF CommitPlay, CommitClaim, CommitSignIn
  <2> QED
    BY <2>1 DEF tables, Guests, Backed
<1>2. CASE pc[q] = "commit"
  <2>1. /\ Need(q) \cap Need(r) = {}
        /\ job[q].token # None => job[q].token # job[r].token
    BY <1>2, Mutex DEF IdentityInv
  <2>2. \A t \in Tokens : holder'[t] # holder[t] =>
          holder'[t] \in Need(q) /\ t = job[q].token
    BY HolderEffects DEF IdentityInv, Need
  <2>3. \A t \in Tokens : adopter'[t] # adopter[t] => adopter'[t] \in Need(q)
    <3>1. CASE CommitPlay(q)
      <4> SUFFICES ASSUME NEW t \in Tokens, adopter'[t] # adopter[t]
                   PROVE  adopter'[t] \in Need(q)
        OBVIOUS
      <4>1. plan[q].adopt
        BY <3>1 DEF CommitPlay, tables
      <4>2. t = job[q].token
        BY <3>1, <4>1 DEF CommitPlay, tables, TypeOK
      <4> QED
        BY <3>1, <4>1, <4>2, PlayCommit DEF Need
    <3>2. CASE CommitClaim(q) \/ CommitSignIn(q) \/ UNCHANGED tables
      BY <3>2 DEF CommitClaim, CommitSignIn, tables
    <3> QED
      BY <3>1, <3>2, TableSteps
  <2>4. \A s \in Subjects : subject'[s] # subject[s] => subject'[s] \in Need(q)
    <3>1. CASE CommitSignIn(q)
      <4>1. cand[q] # None
        BY <3>1 DEF CommitSignIn, IdentityInv, JobsSound, Active
      <4> QED
        BY <3>1, <4>1 DEF CommitSignIn, TypeOK, Need
    <3>2. CASE CommitPlay(q) \/ CommitClaim(q) \/ UNCHANGED tables
      BY <3>2 DEF CommitPlay, CommitClaim, tables
    <3> QED
      BY <3>1, <3>2, TableSteps
  <2>5. ASSUME NEW p \in Need(r)
        PROVE  /\ p \notin Guests => p \notin Guests'
               /\ ~Backed(p) => ~Backed(p)'
    <3>1. p # None /\ p \notin Need(q)
      BY <2>1 DEF Need
    <3>2. p \notin Guests => p \notin Guests'
      BY <2>2, <3>1 DEF Guests
    <3>3. ~Backed(p) => ~Backed(p)'
      BY <2>3, <2>4, <3>1 DEF Backed
    <3> QED
      BY <3>2, <3>3
  <2>6. job[r].token \in Tokens => holder'[job[r].token] = holder[job[r].token]
    BY <2>1, <2>2, NoneAssumption
  <2> QED
    BY <2>5, <2>6
<1> QED
  BY <1>1, <1>2

FreshPlan(r) ==
  /\ (pc[r] = "commit" /\ job[r].op \in {"submit", "read"}) =>
       /\ ~IndexHit(r)
       /\ plan[r].moves = IF plan[r].adopt THEN Movable(cand[r], job[r].player) ELSE {}
       /\ plan[r].adopt => job[r].player # None
       /\ job[r].op = "submit" <=> plan[r].puzzle # None
       /\ plan[r].puzzle # None => plan[r].uid # None
  /\ (pc[r] = "commit" /\ job[r].op = "claim") =>
       Claimable(r) /\ plan[r].moves = RowsOf(job[r].player)

(* A play request decides on rows that no unique index would refuse.           *)
LEMMA DecideFresh ==
  ASSUME TypeOK, NoneAssumption, IdentityInv, NEW q \in Requests, Decide(q)
  PROVE  FreshPlan(q)'
<1>1. /\ job[q].op \in {"submit", "read"}
      /\ allocate[q] => Unused(cand[q]) /\ holder[job[q].token] = None
      /\ UNCHANGED <<tables, job, cand, allocate>>
  BY DEF Decide, ReadyToDecide
<1>2. PICK z \in Puzzles \cup {None}, b \in BOOLEAN :
        /\ plan' = [plan EXCEPT ![q] =
             [uid |-> Primary(q), adopt |-> Adopts(q), moves |-> Moved(q),
              puzzle |-> z, ritual |-> b]]
        /\ job[q].op = "submit" => /\ Primary(q) # None /\ z # None
                                   /\ ~AlreadyPlayed(RowsOf(Primary(q)) \cup Moved(q), z, job[q].day)
                                   /\ b = (DayOf[SlotOf[z]] = job[q].day)
        /\ job[q].op = "read" => z = None
  <2>1. CASE job[q].op = "submit"
    BY <2>1, NoneAssumption DEF Decide
  <2>2. CASE job[q].op = "read"
    BY <2>2 DEF Decide
  <2> QED
    BY <1>1, <2>1, <2>2
<1>3. /\ plan'[q].uid = Primary(q) /\ plan'[q].adopt = Adopts(q)
      /\ plan'[q].moves = Moved(q) /\ plan'[q].puzzle = z /\ plan'[q].ritual = b
  BY <1>2 DEF TypeOK
<1>4. Adopts(q) => /\ Platform(q) = job[q].player /\ job[q].player # None
                   /\ GuestOf(q) = cand[q] /\ Primary(q) = job[q].player
  BY DEF Adopts, Platform, GuestOf, Primary
<1>5. Moved(q) = IF Adopts(q) THEN Movable(cand[q], job[q].player) ELSE {}
  BY <1>4 DEF Moved
<1>6. \A f \in Moved(q), h \in RowsOf(Primary(q)) : ~SameKey(puzzle[f], ritual[f], h)
  BY <1>4, <1>5 DEF Movable
<1>7. z # None => \A h \in RowsOf(Primary(q)) \cup Moved(q) : ~SameKey(z, b, h)
  BY <1>1, <1>2 DEF AlreadyPlayed, SameKey
<1>8. allocate[q] => cand[q] \notin Guests /\ holder[job[q].token] = None
  BY <1>1 DEF Unused
<1>9. ~IndexHit(q)'
  BY <1>1, <1>3, <1>6, <1>7, <1>8 DEF IndexHit, RowsOf, SameKey, Guests, tables
<1>10. plan'[q].moves = IF plan'[q].adopt THEN Movable(cand[q], job[q].player) ELSE {}
  BY <1>3, <1>5
<1>11. Movable(cand[q], job[q].player)' = Movable(cand[q], job[q].player)
  BY <1>1 DEF Movable, RowsOf, SameKey, tables
<1> QED
  BY <1>1, <1>2, <1>3, <1>4, <1>9, <1>10, <1>11 DEF FreshPlan

(* ... a claim on a player that is nobody's, with all of its rows ...           *)
LEMMA ClaimFresh ==
  ASSUME TypeOK, NoneAssumption, IdentityInv, NEW q \in Requests, DecideClaim(q)
  PROVE  FreshPlan(q)'
<1>1. /\ pc[q] = "lock" /\ job[q].op = "claim" /\ Active(q)
      /\ UNCHANGED <<tables, job, cand>>
  BY DEF DecideClaim, Active
<1>2. RowsOf(cand[q]) = {}
  BY <1>1 DEF IdentityInv, SpareKept, Unused, RowsOf
<1>3. Movable(job[q].player, cand[q]) = RowsOf(job[q].player)
  BY <1>2 DEF Movable
<1>4. CASE Claimable(q)
  <2>1. plan'[q].moves = RowsOf(job[q].player)
    <3>1. plan' = [plan EXCEPT ![q] =
            [NoPlan EXCEPT !.uid = cand[q], !.moves = RowsOf(job[q].player)]]
      BY <1>3, <1>4 DEF DecideClaim
    <3> QED
      BY <3>1 DEF TypeOK, NoPlan
  <2>2. Claimable(q)' /\ RowsOf(job[q].player)' = RowsOf(job[q].player)
    BY <1>1, <1>4 DEF Claimable, Guests, Backed, HasRows, RowsOf, tables
  <2> QED
    BY <1>1, <2>1, <2>2 DEF FreshPlan
<1>5. CASE ~Claimable(q)
  BY <1>1, <1>5 DEF DecideClaim, FreshPlan, TypeOK
<1> QED
  BY <1>4, <1>5

(* ... and both stay so while the request holds its locks.                     *)
LEMMA OtherFresh ==
  ASSUME TypeOK, NoneAssumption, DrawAssumption, IdentityInv, RowsAreAccepted, PlansFresh,
         NEW q \in Requests, StepOf(q), NEW r \in Requests, r # q
  PROVE  FreshPlan(r)'
<1>1. FreshPlan(r)
  BY DEF PlansFresh, FreshPlan
<1>2. /\ pc'[r] = pc[r] /\ job'[r] = job[r] /\ cand'[r] = cand[r]
      /\ allocate'[r] = allocate[r] /\ plan'[r] = plan[r]
  BY OthersKept
<1>3. CASE pc[r] # "commit"
  BY <1>2, <1>3 DEF FreshPlan
<1>4. CASE pc[r] = "commit" /\ job[r].op \in {"submit", "read"}
  <2>1. \A p \in Need(r) : RowsOf(p)' = RowsOf(p)
    BY <1>4, LockedRowsKept
  <2>2. \A p \in Need(r) : \A f \in RowsOf(p) : puzzle'[f] = puzzle[f] /\ ritual'[f] = ritual[f]
    BY <1>4, LockedRowsKept
  <2>3. plan[r].uid \in Need(r) \cup {None}
    BY <1>4 DEF IdentityInv, PlansSound
  <2>4. plan[r].adopt => /\ cand[r] \in Need(r) /\ job[r].player \in Need(r)
                         /\ plan[r].moves = Movable(cand[r], job[r].player)
                         /\ plan[r].uid = job[r].player
    <3>1. plan[r].adopt => /\ plan[r].uid = job[r].player /\ cand[r] # None
      BY <1>4 DEF IdentityInv, PlansSound
    <3> QED
      BY <1>1, <1>4, <3>1 DEF FreshPlan, Need
  <2>5. ~plan[r].adopt => plan[r].moves = {}
    BY <1>1, <1>4 DEF FreshPlan
  <2>6. plan[r].adopt =>
          Movable(cand[r], job[r].player)' = Movable(cand[r], job[r].player)
    <3> SUFFICES ASSUME plan[r].adopt
                 PROVE  Movable(cand[r], job[r].player)' = Movable(cand[r], job[r].player)
      OBVIOUS
    <3> DEFINE g == cand[r]
               a == job[r].player
    <3>1. RowsOf(g)' = RowsOf(g) /\ RowsOf(a)' = RowsOf(a)
      BY <1>2, <2>1, <2>4 DEF RowsOf
    <3>2. \A f \in RowsOf(g), h \in RowsOf(a) :
            SameKey(puzzle[f], ritual[f], h)' <=> SameKey(puzzle[f], ritual[f], h)
      BY <2>2, <2>4 DEF SameKey
    <3> QED
      BY <3>1, <3>2 DEF Movable
  <2>7. \A f \in plan[r].moves : f \in RowsOf(cand[r]) /\ puzzle'[f] = puzzle[f] /\ ritual'[f] = ritual[f]
    BY <2>2, <2>4, <2>5 DEF Movable
  <2>8. ~IndexHit(r)'
    <3>0. ~IndexHit(r)
      BY <1>1, <1>4 DEF FreshPlan
    <3>1. ~(allocate[r] /\ cand[r] \in Guests')
      <4>1. allocate[r] => cand[r] # None
        BY <1>4 DEF IdentityInv, PlansSound
      <4> QED
        BY <1>4, <3>0, <4>1, LockedPlayersKept DEF IndexHit, Need
    <3>2. ~(allocate[r] /\ holder'[job[r].token] # None)
      <4>1. allocate[r] => job[r].token \in Tokens
        BY DEF IdentityInv, JobsSound, TypeOK, MaybeToken
      <4> QED
        BY <1>4, <3>0, <4>1, LockedPlayersKept DEF IndexHit
    <3>3. \A f \in plan[r].moves, h \in RowsOf(plan[r].uid)' :
            ~SameKey(puzzle[f], ritual[f], h)'
      <4> SUFFICES ASSUME NEW f \in plan[r].moves, NEW h \in RowsOf(plan[r].uid)'
                   PROVE  ~SameKey(puzzle[f], ritual[f], h)'
        OBVIOUS
      <4>1. plan[r].adopt /\ plan[r].uid \in Need(r)
        BY <2>4, <2>5
      <4>2. h \in RowsOf(plan[r].uid)
        BY <1>2, <2>1, <4>1 DEF RowsOf
      <4>3. ~SameKey(puzzle[f], ritual[f], h)
        BY <3>0, <4>2 DEF IndexHit
      <4> QED
        BY <2>2, <2>7, <4>1, <4>2, <4>3 DEF SameKey
    <3>4. plan[r].puzzle # None =>
            \A h \in RowsOf(plan[r].uid)' \cup plan[r].moves :
              ~SameKey(plan[r].puzzle, plan[r].ritual, h)'
      <4> SUFFICES ASSUME plan[r].puzzle # None,
                          NEW h \in RowsOf(plan[r].uid)' \cup plan[r].moves
                   PROVE  ~SameKey(plan[r].puzzle, plan[r].ritual, h)'
        OBVIOUS
      <4>1. plan[r].uid \in Need(r)
        BY <1>1, <1>4, <2>3 DEF FreshPlan
      <4>2. h \in RowsOf(plan[r].uid) \cup plan[r].moves
        BY <1>2, <2>1, <4>1 DEF RowsOf
      <4>3. puzzle'[h] = puzzle[h] /\ ritual'[h] = ritual[h]
        BY <2>2, <2>7, <4>1, <4>2
      <4>4. ~SameKey(plan[r].puzzle, plan[r].ritual, h)
        BY <3>0, <4>2 DEF IndexHit
      <4> QED
        BY <1>2, <4>3, <4>4 DEF SameKey
    <3> QED
      BY <1>2, <3>1, <3>2, <3>3, <3>4 DEF IndexHit, RowsOf, SameKey
  <2>9. plan[r].moves = IF plan[r].adopt THEN Movable(cand[r], job[r].player)' ELSE {}
    BY <2>4, <2>5, <2>6
  <2> QED
    BY <1>1, <1>2, <1>4, <2>8, <2>9 DEF FreshPlan, Movable, RowsOf, SameKey
<1>5. CASE pc[r] = "commit" /\ job[r].op = "claim"
  <2>1. /\ job[r].player \in Need(r) /\ job[r].token \in Tokens
        /\ Claimable(r) /\ plan[r].moves = RowsOf(job[r].player)
    BY <1>1, <1>5, NoneAssumption
       DEF FreshPlan, IdentityInv, JobsSound, TypeOK, MaybeToken, Need
  <2>2. RowsOf(job[r].player)' = RowsOf(job[r].player)
    BY <1>2, <1>5, <2>1, LockedRowsKept DEF RowsOf
  <2>3. HasRows(job[r].player)'
    BY <1>2, <2>1, <2>2 DEF Claimable, HasRows, RowsOf
  <2>4. /\ job[r].player \notin Guests' /\ ~Backed(job[r].player)'
        /\ holder'[job[r].token] = None
    BY <1>2, <1>5, <2>1, LockedPlayersKept DEF Claimable, Backed
  <2> QED
    BY <1>2, <1>5, <2>1, <2>2, <2>3, <2>4 DEF FreshPlan, Claimable, Backed
<1>6. CASE job[r].op \notin {"submit", "read", "claim"}
  BY <1>2, <1>6 DEF FreshPlan
<1> QED
  BY <1>3, <1>4, <1>5, <1>6

(* Every step keeps PlansFresh.                                                *)
LEMMA PlansFreshStep ==
  ASSUME TypeOK, NoneAssumption, DrawAssumption, IdentityInv, RowsAreAccepted, PlansFresh,
         NEW q \in Requests, StepOf(q)
  PROVE  PlansFresh'
<1>1. FreshPlan(q)'
  <2>1. CASE Decide(q) \/ DecideClaim(q)
    BY <2>1, DecideFresh, ClaimFresh
  <2>2. CASE DecideSignIn(q)
    BY <2>2 DEF DecideSignIn, FreshPlan
  <2>3. CASE Arrive(q) \/ Admit(q) \/ LockNext(q) \/ Redraw(q) \/ Refuse(q)
             \/ CommitPlay(q) \/ CommitClaim(q) \/ CommitSignIn(q) \/ Abort(q)
    <3>1. pc'[q] # "commit"
      BY <2>3 DEF Arrive, ArrivePlay, ArriveClaim, ArriveSignIn, Admit, LockNext, Redraw,
                  Refuse, CommitPlay, CommitClaim, CommitSignIn, Abort, TypeOK
    <3> QED
      BY <3>1 DEF FreshPlan
  <2> QED
    BY <2>1, <2>2, <2>3 DEF StepOf, Progress
<1>2. \A r \in Requests : FreshPlan(r)'
  BY <1>1, OtherFresh
<1> QED
  BY <1>2 DEF PlansFresh, FreshPlan

(* Every step keeps RowsAreAccepted.                                           *)
LEMMA RowsAreAcceptedStep ==
  ASSUME TypeOK, NoneAssumption, DrawAssumption, IdentityInv, RowsAreAccepted, PlansFresh,
         NEW q \in Requests, StepOf(q)
  PROVE  RowsAreAccepted'
<1> SUFFICES ASSUME NEW r \in Requests, owner'[r] # None PROVE pc'[r] = "accepted"
  BY DEF RowsAreAccepted
<1>1. r \in Finishes
  BY DEF Finishes
<1>2. CASE owner'[r] # owner[r] /\ r = q
  <2>1. CommitPlay(q) \/ CommitClaim(q)
    BY <1>1, <1>2, RowMoves
  <2> QED
    BY <1>2, <2>1, PlayCommit, ClaimCommit DEF TypeOK
<1>3. CASE owner'[r] # owner[r] /\ r # q
  <2>1. owner[r] # None
    BY <1>1, <1>3, RowMoves
  <2> QED
    BY <1>3, <2>1, OthersKept DEF RowsAreAccepted
<1>4. CASE owner'[r] = owner[r]
  <2>1. pc[r] = "accepted"
    BY <1>4 DEF RowsAreAccepted
  <2>2. r # q
    BY <2>1 DEF StepOf, Arrive, Progress, ArrivePlay, ArriveClaim, ArriveSignIn, Admit,
                LockNext, Redraw, Decide, ReadyToDecide, Refuse, CommitPlay, DecideClaim,
                CommitClaim, DecideSignIn, CommitSignIn, Abort
  <2> QED
    BY <2>1, <2>2, OthersKept
<1> QED
  BY <1>2, <1>3, <1>4

(* A registered player stays registered.                                       *)
LEMMA RegisteredKept ==
  ASSUME TypeOK, NoneAssumption, DrawAssumption, IdentityInv,
         NEW q \in Requests, StepOf(q), NEW p, p # None
  PROVE  /\ p \in Guests => p \in Guests'
         /\ Backed(p) => Backed(p)'
<1>1. \A t \in Tokens : holder[t] # None => holder'[t] = holder[t]
  BY HolderEffects DEF IdentityInv
<1>2. \A t \in Tokens : adopter[t] # None => adopter'[t] = adopter[t]
  BY AdopterEffects DEF IdentityInv
<1>3. \A s \in Subjects : subject[s] # None => subject'[s] = subject[s]
  <2>1. CASE CommitSignIn(q)
    BY <2>1 DEF CommitSignIn, TypeOK
  <2>2. CASE CommitPlay(q) \/ CommitClaim(q) \/ UNCHANGED tables
    BY <2>2 DEF CommitPlay, CommitClaim, tables
  <2> QED
    BY <2>1, <2>2, TableSteps
<1>4. p \in Guests => p \in Guests'
  BY <1>1 DEF Guests
<1>5. Backed(p) => Backed(p)'
  BY <1>2, <1>3 DEF Backed
<1> QED
  BY <1>4, <1>5

(* Every step keeps OwnersRegistered: a request is accepted for its account,   *)
(* for the guest of its token, or for the guest it registers.                  *)
LEMMA OwnersRegisteredStep ==
  ASSUME TypeOK, NoneAssumption, DrawAssumption, IdentityInv, RowsAreAccepted, PlansFresh,
         OwnersRegistered, NEW q \in Requests, StepOf(q)
  PROVE  OwnersRegistered'
<1> SUFFICES ASSUME NEW r \in Requests, pc'[r] = "accepted", job'[r].op = "submit",
                    NEW u, u = plan'[r].uid
             PROVE  u # None /\ (u \in Guests' \/ Backed(u)')
  BY DEF OwnersRegistered, Backed
<1>1. CASE r # q \/ pc[q] = "accepted"
  <2>1. r # q
    BY <1>1 DEF StepOf, Arrive, Progress, ArrivePlay, ArriveClaim, ArriveSignIn, Admit,
                LockNext, Redraw, Decide, ReadyToDecide, Refuse, CommitPlay, DecideClaim,
                CommitClaim, DecideSignIn, CommitSignIn, Abort
  <2>2. pc[r] = "accepted" /\ job[r].op = "submit" /\ plan'[r] = plan[r]
    BY <1>1, <2>1, OthersKept
  <2>3. u # None /\ (u \in Guests \/ Backed(u))
    BY <2>2 DEF OwnersRegistered, Backed
  <2> QED
    BY <2>3, RegisteredKept
<1>2. CASE r = q /\ pc[q] # "accepted"
  <2>1. CommitPlay(q)
    BY <1>2 DEF StepOf, Arrive, Progress, ArrivePlay, ArriveClaim, ArriveSignIn, Admit,
                LockNext, Redraw, Decide, ReadyToDecide, Refuse, CommitPlay, DecideClaim,
                CommitClaim, DecideSignIn, CommitSignIn, Abort, TypeOK
  <2>2. /\ pc[q] = "commit" /\ job[q].op = "submit" /\ plan' = plan
        /\ ~IndexHit(q)
    BY <1>2, <2>1, PlayCommit DEF CommitPlay
  <2>3. u = plan[q].uid /\ u # None
    BY <1>2, <2>2 DEF PlansFresh
  <2>4. CASE allocate[q]
    <3>1. u = cand[q] /\ job[q].token \in Tokens
      BY <2>2, <2>3, <2>4 DEF IdentityInv, PlansSound, JobsSound, TypeOK, MaybeToken
    <3>2. holder'[job[q].token] = u
      BY <2>1, <2>2, <2>4, <3>1 DEF CommitPlay, TypeOK
    <3> QED
      BY <2>3, <3>1, <3>2 DEF Guests
  <2>5. CASE ~allocate[q] /\ u = job[q].player
    <3>1. Backed(u)
      BY <2>2, <2>3, <2>5 DEF IdentityInv, JobsSound, Backed
    <3> QED
      BY <2>3, <3>1, RegisteredKept
  <2>6. CASE ~allocate[q] /\ u # job[q].player
    <3>1. holder[job[q].token] = u /\ cand[q] # None
      BY <2>2, <2>3, <2>6 DEF IdentityInv, PlansSound
    <3>2. job[q].token \in Tokens
      BY <2>2, <3>1 DEF IdentityInv, JobsSound, Active, TypeOK, MaybeToken
    <3>3. u \in Guests
      BY <2>3, <3>1, <3>2 DEF Guests
    <3> QED
      BY <2>3, <3>3, RegisteredKept
  <2> QED
    BY <2>4, <2>5, <2>6
<1> QED
  BY <1>1, <1>2

SameRow(f, h) ==
  puzzle[f] = puzzle[h] \/ (ritual[f] /\ ritual[h] /\ SlotOf[puzzle[f]] = SlotOf[puzzle[h]])

(* Every step keeps OneFinish: adoption leaves twins behind, a claim starts    *)
(* from nothing, and a submit looked at every row of its player.               *)
LEMMA OneFinishStep ==
  ASSUME TypeOK, NoneAssumption, DrawAssumption, IdentityInv, RowsAreAccepted, PlansFresh,
         OneFinish, NEW q \in Requests, StepOf(q)
  PROVE  OneFinish'
<1>0. \A p \in Players : \A f, h \in RowsOf(p) : f # h => ~SameRow(f, h)
  BY DEF OneFinish, SameRow
<1> SUFFICES ASSUME NEW p \in Players, NEW f \in Finishes, NEW h \in Finishes,
                    owner'[f] = p, owner'[h] = p, f # h
             PROVE  ~SameRow(f, h)'
  BY DEF OneFinish, RowsOf, SameRow
<1>1. p # None
  BY NoneAssumption
<1>2. CASE UNCHANGED tables \/ CommitSignIn(q)
  <2>1. UNCHANGED <<owner, puzzle, ritual>>
    BY <1>2 DEF tables, CommitSignIn
  <2> QED
    BY <1>0, <2>1 DEF RowsOf, SameRow
<1>3. CASE CommitClaim(q)
  <2>1. /\ UNCHANGED <<puzzle, ritual>>
        /\ RowsOf(cand[q]) = {} /\ plan[q].moves = RowsOf(job[q].player)
        /\ job[q].player \in Players
        /\ \A g \in Finishes : owner'[g] = IF g \in plan[q].moves THEN cand[q] ELSE owner[g]
    BY <1>3, ClaimCommit
  <2>2. \/ owner[f] = p /\ owner[h] = p
        \/ owner[f] = job[q].player /\ owner[h] = job[q].player
    BY <2>1 DEF RowsOf
  <2>3. ~SameRow(f, h)
    BY <1>0, <2>1, <2>2 DEF RowsOf
  <2> QED
    BY <2>1, <2>3 DEF SameRow
<1>4. CASE CommitPlay(q)
  <2>1. /\ ~IndexHit(q) /\ owner[q] = None
        /\ \A g \in Finishes :
             owner'[g] = IF g \in plan[q].moves \/ (g = q /\ plan[q].puzzle # None)
                         THEN plan[q].uid ELSE owner[g]
        /\ \A g \in plan[q].moves : g # q /\ owner[g] = cand[q] /\ owner[g] # None
    BY <1>4, PlayCommit
  <2>2. /\ \A g \in Finishes : g # q => puzzle'[g] = puzzle[g] /\ ritual'[g] = ritual[g]
        /\ q \in Finishes => puzzle'[q] = plan[q].puzzle /\ ritual'[q] = plan[q].ritual
    BY <1>4, PlayCommit DEF TypeOK
  <2>3. \A g \in plan[q].moves, k \in RowsOf(plan[q].uid) :
          g \in Finishes => ~SameRow(g, k) /\ ~SameRow(k, g)
    BY <2>1 DEF IndexHit, SameKey, SameRow
  <2>4. plan[q].puzzle # None => \A k \in RowsOf(plan[q].uid) \cup plan[q].moves :
          ~SameKey(plan[q].puzzle, plan[q].ritual, k)
    BY <2>1 DEF IndexHit
  <2>5. CASE f # q /\ h # q
    <3>1. ~SameRow(f, h)
      <4>1. CASE owner[f] = p /\ owner[h] = p
        BY <1>0, <4>1 DEF RowsOf
      <4>2. CASE f \in plan[q].moves /\ h \in plan[q].moves
        <5>1. cand[q] \in Players
          BY <2>1, <4>2 DEF TypeOK, MaybePlayer
        <5> QED
          BY <1>0, <2>1, <4>2, <5>1 DEF RowsOf
      <4>3. CASE f \in plan[q].moves /\ h \notin plan[q].moves
        <5>1. h \in RowsOf(plan[q].uid)
          BY <2>1, <2>5, <4>3 DEF RowsOf
        <5> QED
          BY <2>3, <4>3, <5>1
      <4>4. CASE f \notin plan[q].moves /\ h \in plan[q].moves
        <5>1. f \in RowsOf(plan[q].uid)
          BY <2>1, <2>5, <4>4 DEF RowsOf
        <5> QED
          BY <2>3, <4>4, <5>1
      <4> QED
        BY <2>1, <2>5, <4>1, <4>2, <4>3, <4>4
    <3> QED
      BY <2>2, <2>5, <3>1 DEF SameRow
  <2>6. CASE f = q
    <3>1. plan[q].puzzle # None /\ plan[q].uid = p
      BY <1>1, <2>1, <2>6
    <3>2. h \in RowsOf(plan[q].uid) \cup plan[q].moves
      BY <2>1, <2>6, <3>1 DEF RowsOf
    <3>3. ~SameKey(plan[q].puzzle, plan[q].ritual, h)
      BY <2>4, <3>1, <3>2
    <3> QED
      BY <2>2, <2>6, <3>3 DEF SameKey, SameRow
  <2>7. CASE h = q
    <3>1. plan[q].puzzle # None /\ plan[q].uid = p
      BY <1>1, <2>1, <2>7
    <3>2. f \in RowsOf(plan[q].uid) \cup plan[q].moves
      BY <2>1, <2>7, <3>1 DEF RowsOf
    <3>3. ~SameKey(plan[q].puzzle, plan[q].ritual, f)
      BY <2>4, <3>1, <3>2
    <3> QED
      BY <2>2, <2>7, <3>3 DEF SameKey, SameRow
  <2> QED
    BY <2>5, <2>6, <2>7
<1> QED
  BY <1>2, <1>3, <1>4, TableSteps

(* No step ends in a conflict.                                                 *)
LEMMA NoLateConflictStep ==
  ASSUME TypeOK, NoneAssumption, DrawAssumption, IdentityInv, RowsAreAccepted, PlansFresh,
         NoLateConflict, NEW q \in Requests, StepOf(q)
  PROVE  NoLateConflict'
<1> SUFFICES ASSUME NEW r \in Requests PROVE pc'[r] # "conflict"
  BY DEF NoLateConflict
<1>1. CASE CommitPlay(q) \/ CommitClaim(q)
  BY <1>1, PlayCommit, ClaimCommit DEF TypeOK, NoLateConflict
<1>2. CASE Arrive(q) \/ Admit(q) \/ LockNext(q) \/ Redraw(q) \/ Decide(q) \/ Refuse(q)
            \/ DecideClaim(q) \/ DecideSignIn(q) \/ CommitSignIn(q) \/ Abort(q)
  BY <1>2 DEF Arrive, ArrivePlay, ArriveClaim, ArriveSignIn, Admit, LockNext, Redraw, Decide,
              Refuse, DecideClaim, DecideSignIn, CommitSignIn, Abort, TypeOK, NoLateConflict
<1> QED
  BY <1>1, <1>2 DEF StepOf, Progress

(* A row of an account stays where it is: adoptions and claims take rows of     *)
(* nobody who is backed by an account.                                         *)
LEMMA AccountRowsStay ==
  ASSUME TypeOK, NoneAssumption, DrawAssumption, IdentityInv, RowsAreAccepted, PlansFresh,
         NEW q \in Requests, StepOf(q), NEW f \in Finishes, owner[f] # None, Backed(owner[f])
  PROVE  owner'[f] = owner[f]
<1> SUFFICES ASSUME owner'[f] # owner[f] PROVE FALSE
  OBVIOUS
<1>1. CASE \E t \in Tokens : holder[t] = owner[f]
  BY <1>1 DEF IdentityInv, GuestNotAccount
<1>2. CASE CommitClaim(q) /\ Claimable(q) /\ owner[f] = job[q].player
  BY <1>2 DEF Claimable
<1> QED
  BY <1>1, <1>2, RowMoves

(* Every step keeps AdoptionComplete: the adoption moves every row without a    *)
(* twin, nothing is added to an adopted guest, and no twin leaves its account. *)
LEMMA AdoptionCompleteStep ==
  ASSUME TypeOK, NoneAssumption, DrawAssumption, IdentityInv, RowsAreAccepted, PlansFresh,
         AdoptionComplete, NEW q \in Requests, StepOf(q)
  PROVE  AdoptionComplete'
<1> SUFFICES ASSUME NEW t \in Tokens, adopter'[t] # None,
                    NEW f \in Finishes, owner'[f] = holder'[t]
             PROVE  \E h \in Finishes : /\ owner'[h] = adopter'[t]
                                        /\ SameRow(h, f)'
  BY DEF AdoptionComplete, RowsOf, SameRow
<1>1. CASE adopter'[t] = adopter[t]
  <2>1. holder[t] # None /\ holder'[t] = holder[t]
    BY <1>1, HolderEffects DEF IdentityInv, AdoptedHasHolder
  <2>2. owner[f] = holder[t]
    BY <1>1, <2>1, SealedStep
  <2>3. PICK h \in RowsOf(adopter[t]) : SameRow(h, f)
    BY <1>1, <2>2 DEF AdoptionComplete, RowsOf, SameRow
  <2>4. h \in Finishes /\ owner[h] = adopter[t] /\ owner[h] # None
    BY <1>1, <2>3 DEF RowsOf
  <2>5. Backed(owner[h])
    BY <2>4 DEF Backed
  <2>6. owner'[h] = adopter'[t]
    BY <1>1, <2>4, <2>5, AccountRowsStay
  <2>7. puzzle'[h] = puzzle[h] /\ ritual'[h] = ritual[h]
    BY <2>4, RowsKeepPuzzle
  <2>8. puzzle'[f] = puzzle[f] /\ ritual'[f] = ritual[f]
    BY <2>1, <2>2, RowsKeepPuzzle
  <2> QED
    BY <2>3, <2>4, <2>6, <2>7, <2>8 DEF SameRow
<1>2. CASE adopter'[t] # adopter[t]
  <2>1. CommitPlay(q)
    <3>1. ~(CommitClaim(q) \/ CommitSignIn(q) \/ UNCHANGED tables)
      BY <1>2 DEF CommitClaim, CommitSignIn, tables
    <3> QED
      BY <3>1, TableSteps
  <2>2. plan[q].adopt /\ t = job[q].token
    BY <1>2, <2>1, PlayCommit DEF CommitPlay, TypeOK
  <2>3. /\ cand[q] # None /\ holder[t] = cand[q] /\ plan[q].uid = job[q].player
        /\ adopter'[t] = job[q].player /\ job[q].player # None
        /\ plan[q].moves = Movable(cand[q], job[q].player)
        /\ \A g \in Finishes :
             owner'[g] = IF g \in plan[q].moves \/ (g = q /\ plan[q].puzzle # None)
                         THEN plan[q].uid ELSE owner[g]
    BY <2>1, <2>2, PlayCommit
  <2>4. holder'[t] = holder[t]
    BY <1>2, AdopterEffects DEF IdentityInv
  <2>5. cand[q] # job[q].player
    <3>1. job[q].op \in {"submit", "read"}
      BY <2>1 DEF CommitPlay
    <3>2. Backed(job[q].player)
      BY <2>3, <3>1 DEF IdentityInv, JobsSound, Backed
    <3>3. ~Backed(cand[q])
      BY <2>3 DEF IdentityInv, GuestNotAccount
    <3> QED
      BY <3>2, <3>3
  <2>6. owner[f] = cand[q] /\ f \notin plan[q].moves
    BY <2>3, <2>4, <2>5
  <2>7. PICK h \in RowsOf(job[q].player) : SameKey(puzzle[f], ritual[f], h)
    BY <2>3, <2>6 DEF Movable, RowsOf
  <2>8. h \in Finishes /\ owner[h] = job[q].player
    BY <2>7 DEF RowsOf
  <2>9. owner'[h] = job[q].player
    BY <2>3, <2>8
  <2>10. puzzle'[h] = puzzle[h] /\ ritual'[h] = ritual[h]
    BY <2>3, <2>8, RowsKeepPuzzle
  <2>11. puzzle'[f] = puzzle[f] /\ ritual'[f] = ritual[f]
    BY <2>3, <2>6, RowsKeepPuzzle
  <2> QED
    BY <2>3, <2>7, <2>8, <2>9, <2>10, <2>11 DEF SameKey, SameRow
<1> QED
  BY <1>1, <1>2

(* Every step keeps AcceptedFinishKept: the row is where it was put, or with    *)
(* the account that adopted its guest, where it stays.                         *)
LEMMA AcceptedFinishKeptStep ==
  ASSUME TypeOK, NoneAssumption, DrawAssumption, IdentityInv, RowsAreAccepted, PlansFresh,
         OwnersRegistered, AcceptedFinishKept, NEW q \in Requests, StepOf(q)
  PROVE  AcceptedFinishKept'
<1> DEFINE At(r) == owner[r] = plan[r].uid
           Adopted(r) == \E t \in Tokens : /\ holder[t] = plan[r].uid
                                           /\ adopter[t] # None
                                           /\ adopter[t] = owner[r]
                                           /\ origin[r] = holder[t]
<1> SUFFICES ASSUME NEW r \in Requests, pc'[r] = "accepted", job'[r].op = "submit"
             PROVE  At(r)' \/ Adopted(r)'
  BY DEF AcceptedFinishKept
<1>0. r \in Finishes
  BY DEF Finishes
<1>1. CASE r = q
  <2>1. CommitPlay(q)
    BY <1>1 DEF StepOf, Arrive, Progress, ArrivePlay, ArriveClaim, ArriveSignIn, Admit,
                LockNext, Redraw, Decide, ReadyToDecide, Refuse, CommitPlay, DecideClaim,
                CommitClaim, DecideSignIn, CommitSignIn, Abort, TypeOK
  <2>2. /\ pc[q] = "commit" /\ job[q].op = "submit" /\ plan' = plan
    BY <1>1, <2>1, PlayCommit DEF CommitPlay
  <2>3. plan[q].puzzle # None
    BY <2>2 DEF PlansFresh
  <2>4. owner'[q] = plan[q].uid
    BY <1>0, <1>1, <2>1, <2>3, PlayCommit
  <2> QED
    BY <1>1, <2>2, <2>4
<1>2. CASE r # q
  <2>1. pc[r] = "accepted" /\ job[r].op = "submit" /\ plan'[r] = plan[r]
    BY <1>2, OthersKept
  <2>2. At(r) \/ Adopted(r)
    BY <2>1 DEF AcceptedFinishKept
  <2>3. plan[r].uid # None /\ (plan[r].uid \in Guests \/ Backed(plan[r].uid))
    BY <2>1 DEF OwnersRegistered
  <2>4. CASE At(r) /\ owner'[r] = owner[r]
    BY <2>1, <2>4
  <2>5. CASE At(r) /\ owner'[r] # owner[r]
    <3>1. owner[r] # None /\ (owner[r] \in Guests \/ Backed(owner[r]))
      BY <2>3, <2>5
    <3>2. ~(CommitClaim(q) /\ Claimable(q) /\ owner[r] = job[q].player)
      BY <3>1 DEF Claimable
    <3>3. /\ job[q].token \in Tokens
          /\ holder[job[q].token] = owner[r]
          /\ adopter'[job[q].token] = owner'[r] /\ owner'[r] # None
          /\ origin'[r] = owner[r]
      BY <1>0, <2>5, <3>1, <3>2, RowMoves
    <3>4. holder'[job[q].token] = holder[job[q].token]
      BY <3>1, <3>3, HolderEffects DEF IdentityInv
    <3> QED
      BY <2>1, <2>5, <3>3, <3>4
  <2>6. CASE Adopted(r)
    <3>1. PICK t \in Tokens : /\ holder[t] = plan[r].uid
                              /\ adopter[t] # None
                              /\ adopter[t] = owner[r]
                              /\ origin[r] = holder[t]
      BY <2>6
    <3>2. Backed(owner[r]) /\ owner[r] # None
      BY <3>1 DEF Backed
    <3>3. owner'[r] = owner[r]
      BY <1>0, <3>2, AccountRowsStay
    <3>4. holder'[t] = holder[t] /\ adopter'[t] = adopter[t]
      BY <2>3, <3>1, HolderEffects, AdopterEffects DEF IdentityInv
    <3>5. origin'[r] = origin[r]
      <4>1. CASE CommitPlay(q)
        <5>1. r \notin plan[q].moves
          <6>1. ASSUME r \in plan[q].moves PROVE FALSE
            <7>1. plan[q].adopt
              BY <4>1, <6>1, PlayCommit
            <7>2. /\ holder[job[q].token] = owner[r] /\ job[q].token \in Tokens
              BY <4>1, <6>1, <7>1, PlayCommit
            <7> QED
              BY <3>2, <7>2 DEF IdentityInv, GuestNotAccount
          <6> QED
            BY <6>1
        <5> QED
          BY <1>0, <4>1, <5>1, PlayCommit
      <4>2. CASE CommitClaim(q)
        <5>1. r \notin plan[q].moves
          BY <3>2, <4>2, ClaimCommit DEF Claimable, RowsOf
        <5> QED
          BY <1>0, <4>2, <5>1 DEF CommitClaim
      <4>3. CASE CommitSignIn(q) \/ UNCHANGED tables
        BY <4>3 DEF CommitSignIn, tables
      <4> QED
        BY <4>1, <4>2, <4>3, TableSteps
    <3> QED
      BY <2>1, <3>1, <3>3, <3>4, <3>5
  <2> QED
    BY <2>2, <2>4, <2>5, <2>6
<1> QED
  BY <1>1, <1>2

(* LedgerInv holds before the first request.                                   *)
THEOREM LedgerInit == Init => LedgerInv
<1> SUFFICES ASSUME Init PROVE LedgerInv
  OBVIOUS
<1>1. \A r \in Requests : pc[r] = "idle" /\ owner[r] = None
  BY FinishAssumption DEF Init, Finishes
<1>2. RowsAreAccepted /\ PlansFresh /\ OwnersRegistered /\ NoLateConflict /\ AcceptedFinishKept
  BY <1>1 DEF RowsAreAccepted, PlansFresh, OwnersRegistered, NoLateConflict, AcceptedFinishKept
<1>3. AdoptionComplete
  BY DEF Init, AdoptionComplete
<1>4. OneFinish
  <2> SUFFICES ASSUME NEW p \in Players, NEW f \in Finishes, NEW h \in Finishes,
                      owner[f] = p, owner[h] = p, f # h
               PROVE  puzzle[f] # puzzle[h] /\ SlotOf[puzzle[f]] # SlotOf[puzzle[h]]
    BY DEF OneFinish, RowsOf
  <2>1. f \in OldFinishes /\ h \in OldFinishes
    BY NoneAssumption DEF Init, Finishes
  <2>2. OldOwner[f] = OldOwner[h] /\ puzzle[f] = OldPuzzle[f] /\ puzzle[h] = OldPuzzle[h]
    BY <2>1 DEF Init, Finishes
  <2> QED
    BY <2>1, <2>2, OldRowsAssumption
<1> QED
  BY <1>2, <1>3, <1>4 DEF LedgerInv

(* LedgerInv is inductive, given IdentityInv.                                  *)
THEOREM LedgerStep == TypeOK /\ IdentityInv /\ LedgerInv /\ [Next]_vars => LedgerInv'
<1> SUFFICES ASSUME TypeOK, IdentityInv, LedgerInv, [Next]_vars PROVE LedgerInv'
  OBVIOUS
<1>1. CASE UNCHANGED <<tables, locks, pc, job, cand, allocate, plan>>
  <2> USE <1>1 DEF tables, RowsOf
  <2>1. RowsAreAccepted' /\ NoLateConflict'
    BY DEF LedgerInv, RowsAreAccepted, NoLateConflict
  <2>2. PlansFresh'
    <3>1. Guests' = Guests
      BY DEF Guests
    <3>2. \A r \in Requests : IndexHit(r)' = IndexHit(r)
      BY <3>1 DEF IndexHit, SameKey
    <3>3. \A r \in Requests :
            Movable(cand[r], job[r].player)' = Movable(cand[r], job[r].player)
      BY DEF Movable, SameKey
    <3>4. \A r \in Requests : Claimable(r)' = Claimable(r)
      BY <3>1 DEF Claimable, Backed, HasRows
    <3> QED
      BY <3>2, <3>3, <3>4 DEF LedgerInv, PlansFresh
  <2>3. OwnersRegistered'
    BY DEF LedgerInv, OwnersRegistered, Guests, Backed
  <2>4. OneFinish' /\ AdoptionComplete'
    BY DEF LedgerInv, OneFinish, AdoptionComplete
  <2>5. AcceptedFinishKept'
    BY DEF LedgerInv, AcceptedFinishKept
  <2> QED
    BY <2>1, <2>2, <2>3, <2>4, <2>5 DEF LedgerInv
<1>2. ASSUME NEW q \in Requests, StepOf(q) PROVE LedgerInv'
  <2> USE NoneAssumption, DrawAssumption, <1>2
  <2>1. RowsAreAccepted' /\ PlansFresh' /\ NoLateConflict'
    BY RowsAreAcceptedStep, PlansFreshStep, NoLateConflictStep DEF LedgerInv
  <2>2. OwnersRegistered' /\ AcceptedFinishKept'
    BY OwnersRegisteredStep, AcceptedFinishKeptStep DEF LedgerInv
  <2>3. OneFinish' /\ AdoptionComplete'
    BY OneFinishStep, AdoptionCompleteStep DEF LedgerInv
  <2> QED
    BY <2>1, <2>2, <2>3 DEF LedgerInv
<1> QED
  BY <1>1, <1>2 DEF Next, StepOf, NextDay, vars

(* What the tables say of finishes, in every run of the api's handlers.        *)
THEOREM LedgerCorrect == Spec => []LedgerInv
<1>1. Init => LedgerInv
  BY LedgerInit
<1>2. TypeOK /\ IdentityInv /\ LedgerInv /\ [Next]_vars => LedgerInv'
  BY LedgerStep
<1>3. Spec => []TypeOK
  BY TypeCorrect
<1>4. Spec => []IdentityInv
  BY IdentityCorrect
<1> QED
  BY <1>1, <1>2, <1>3, <1>4, PTL DEF Spec

(* A player has one finish of a puzzle and of a day's ritual, through submits,  *)
(* adoptions and claims of any number of browsers and accounts.                *)
THEOREM OneFinishCorrect == Spec => []OneFinish
<1>1. LedgerInv => OneFinish
  BY DEF LedgerInv
<1> QED
  BY <1>1, LedgerCorrect, PTL

(* No request is ever stopped by a unique index: what it looked at under its    *)
(* locks is what is there when it commits.                                     *)
THEOREM NoLateConflictCorrect == Spec => []NoLateConflict
<1>1. LedgerInv => NoLateConflict
  BY DEF LedgerInv
<1> QED
  BY <1>1, LedgerCorrect, PTL

(* What an adoption leaves under the guest, the account has already.           *)
THEOREM AdoptionCompleteCorrect == Spec => []AdoptionComplete
<1>1. LedgerInv => AdoptionComplete
  BY DEF LedgerInv
<1> QED
  BY <1>1, LedgerCorrect, PTL

(* A finish the api accepted is never lost nor given to somebody else.         *)
THEOREM AcceptedFinishKeptCorrect == Spec => []AcceptedFinishKept
<1>1. LedgerInv => AcceptedFinishKept
  BY DEF LedgerInv
<1> QED
  BY <1>1, LedgerCorrect, PTL

(* A row changes hands only by an adoption of a live guest or by the claim of a *)
(* player that is nobody's, in the step that registers it.                     *)
THEOREM RowsMoveOnceCorrect == Spec => RowsMoveOnce
<1> DEFINE Moves ==
      \A f \in Finishes :
        (owner[f] # None /\ owner'[f] # owner[f]) =>
          \E t \in Tokens :
            \/ /\ holder[t] = owner[f]
               /\ adopter[t] = None
               /\ adopter'[t] = owner'[f]
            \/ /\ holder[t] = None
               /\ holder'[t] = owner'[f]
               /\ owner[f] \notin Guests
               /\ ~Backed(owner[f])
<1>1. TypeOK /\ IdentityInv /\ LedgerInv /\ [Next]_vars => [Moves]_vars
  <2> SUFFICES ASSUME TypeOK, IdentityInv, LedgerInv, [Next]_vars PROVE Moves
    OBVIOUS
  <2>1. CASE UNCHANGED tables
    BY <2>1 DEF tables
  <2>2. ASSUME NEW q \in Requests, StepOf(q) PROVE Moves
    <3> SUFFICES ASSUME NEW f \in Finishes, owner[f] # None, owner'[f] # owner[f]
                 PROVE  \E t \in Tokens :
                          \/ /\ holder[t] = owner[f]
                             /\ adopter[t] = None
                             /\ adopter'[t] = owner'[f]
                          \/ /\ holder[t] = None
                             /\ holder'[t] = owner'[f]
                             /\ owner[f] \notin Guests
                             /\ ~Backed(owner[f])
      OBVIOUS
    <3>1. RowsAreAccepted /\ PlansFresh
      BY DEF LedgerInv
    <3>2. \/ /\ job[q].token \in Tokens
             /\ holder[job[q].token] = owner[f] /\ adopter[job[q].token] = None
             /\ adopter'[job[q].token] = owner'[f]
          \/ /\ Claimable(q) /\ job[q].token \in Tokens /\ owner[f] = job[q].player
             /\ holder[job[q].token] = None /\ holder'[job[q].token] = owner'[f]
      BY <2>2, <3>1, RowMoves, NoneAssumption, DrawAssumption
    <3> QED
      BY <3>2 DEF Claimable
  <2> QED
    BY <2>1, <2>2 DEF Next, StepOf, NextDay, vars
<1>2. Spec => []TypeOK
  BY TypeCorrect
<1>3. Spec => []IdentityInv
  BY IdentityCorrect
<1>4. Spec => []LedgerInv
  BY LedgerCorrect
<1> QED
  BY <1>1, <1>2, <1>3, <1>4, PTL DEF Spec, RowsMoveOnce
-----------------------------------------------------------------------------
(* One person, one player.                                                     *)

(* A step changes the player of a subject only when a sign-in of it commits.   *)
LEMMA SubjectEffects ==
  ASSUME TypeOK, NEW q \in Requests, StepOf(q),
         NEW s \in Subjects, subject'[s] # subject[s]
  PROVE  /\ pc[q] = "commit" /\ job[q].op = "signin" /\ job[q].subject = s
         /\ subject[s] = None /\ subject'[s] = cand[q]
<1>1. CASE CommitSignIn(q)
  BY <1>1 DEF CommitSignIn, TypeOK
<1>2. CASE CommitPlay(q) \/ CommitClaim(q) \/ UNCHANGED tables
  BY <1>2 DEF CommitPlay, CommitClaim, tables
<1> QED
  BY <1>1, <1>2, TableSteps

(* Both forms keep leading to the same player: only the old form's own sign-in  *)
(* links it, and that goes home.                                               *)
LEMMA HomeKept ==
  ASSUME TypeOK, NoneAssumption, TableAssumption, DrawAssumption, MigrationAssumption,
         IdentityInv, PersonInv,
         NEW q \in Requests, StepOf(q), NEW s \in Subjects, Formerly[s] # None,
         OldForm[Formerly[s]] \notin Guests'
  PROVE  Home(s)' = Home(s) /\ OldForm[Formerly[s]] \notin Guests
<1> DEFINE F == Formerly[s]
<1>1. F \in Subjects /\ Formerly[F] = None /\ OldForm[F] # None
  BY TableAssumption, MigrationAssumption
<1>2. OldForm[F] \notin Guests
  BY <1>1, RegisteredKept
<1>3. CASE subject'[F] = subject[F]
  BY <1>2, <1>3 DEF Home
<1>4. CASE subject'[F] # subject[F]
  <2>1. /\ pc[q] = "commit" /\ job[q].op = "signin" /\ job[q].subject = F
        /\ subject[F] = None /\ subject'[F] = cand[q]
    BY <1>1, <1>4, SubjectEffects
  <2>2. cand[q] = OldForm[F]
    BY <1>1, <1>2, <2>1 DEF PersonInv, SignInsGoHome, Active
  <2> QED
    BY <1>1, <1>2, <2>1, <2>2 DEF Home
<1> QED
  BY <1>3, <1>4

(* A split that a sign-in without its legacy subject made stays on record.      *)
LEMMA FirstSeenKept ==
  ASSUME TypeOK, NoneAssumption, IdentityInv, NEW q \in Requests, StepOf(q),
         NEW s \in Subjects, subject[s] # None, FirstSeenAlone(s)
  PROVE  FirstSeenAlone(s)'
<1>1. PICK r \in Requests : /\ pc[r] = "accepted"
                            /\ job[r].op = "signin"
                            /\ job[r].subject = s
                            /\ job[r].legacy = None
                            /\ cand[r] = subject[s]
  BY DEF FirstSeenAlone
<1>2. subject'[s] = subject[s]
  BY SubjectEffects
<1>3. pc'[r] = pc[r] /\ job'[r] = job[r] /\ cand'[r] = cand[r]
  <2>1. r # q
    BY <1>1 DEF StepOf, Arrive, Progress, ArrivePlay, ArriveClaim, ArriveSignIn, Admit,
                LockNext, Redraw, Decide, ReadyToDecide, Refuse, CommitPlay, DecideClaim,
                CommitClaim, DecideSignIn, CommitSignIn, Abort
  <2> QED
    BY <2>1, OthersKept
<1> QED
  BY <1>1, <1>2, <1>3 DEF FirstSeenAlone

(* Every step keeps SubjectsAgree.                                             *)
LEMMA SubjectsAgreeStep ==
  ASSUME TypeOK, NoneAssumption, TableAssumption, DrawAssumption, MigrationAssumption,
         IdentityInv, PersonInv, NEW q \in Requests, StepOf(q)
  PROVE  SubjectsAgree'
<1> SUFFICES ASSUME NEW s \in Subjects, Formerly[s] # None, OldForm[Formerly[s]] \notin Guests',
                    ~FirstSeenAlone(s)'
             PROVE  subject'[s] \in {None, Home(s)'}
  BY DEF SubjectsAgree
<1>1. Home(s)' = Home(s) /\ OldForm[Formerly[s]] \notin Guests
  BY HomeKept
<1>2. CASE subject'[s] = subject[s]
  <2>1. CASE subject[s] = None
    BY <1>2, <2>1
  <2>2. CASE subject[s] # None
    BY <1>1, <1>2, <2>2, FirstSeenKept DEF PersonInv, SubjectsAgree
  <2> QED
    BY <2>1, <2>2
<1>3. CASE subject'[s] # subject[s]
  <2>1. /\ pc[q] = "commit" /\ job[q].op = "signin" /\ job[q].subject = s
        /\ subject[s] = None /\ subject'[s] = cand[q]
    BY <1>3, SubjectEffects
  <2>2. CASE job[q].legacy # None
    BY <1>1, <2>1, <2>2 DEF PersonInv, SignInsGoHome, Active
  <2>3. CASE job[q].legacy = None
    <3>1. pc'[q] = "accepted" /\ job' = job /\ cand' = cand
      <4>1. CommitSignIn(q)
        BY <2>1, NoneAssumption, <1>3, TableSteps DEF CommitPlay, CommitClaim, tables
      <4> QED
        BY <4>1 DEF CommitSignIn, TypeOK
    <3> QED
      BY <2>1, <2>3, <3>1 DEF FirstSeenAlone
  <2> QED
    BY <2>2, <2>3
<1> QED
  BY <1>2, <1>3

(* A sign-in that found its player a guest was going to the uuid of an old form *)
(* that a guest drew.                                                          *)
LEMMA SignInsGoHomeStep ==
  ASSUME TypeOK, NoneAssumption, TableAssumption, DrawAssumption, MigrationAssumption,
         IdentityInv, PersonInv, NEW q \in Requests, StepOf(q)
  PROVE  SignInsGoHome'
<1> DEFINE ToHome(s, l, c) == l # None => c = Home(s) \/ OldForm[Formerly[s]] \in Guests
           ToOld(s, c) == (Formerly[s] = None /\ OldForm[s] # None) =>
                             c = OldForm[s] \/ OldForm[s] \in Guests \/ subject[s] # None
<1> SUFFICES ASSUME NEW r \in Requests, Active(r)', job'[r].op = "signin",
                    NEW s \in Subjects, s = job'[r].subject, NEW l, l = job'[r].legacy,
                    NEW c, c = cand'[r]
             PROVE  l \in {None, Formerly[s]} /\ ToHome(s, l, c)' /\ ToOld(s, c)'
  <2>1. \A r \in Requests : (Active(r)' /\ job'[r].op = "signin") => job'[r].subject \in Subjects
    <3>1. JobsSound' /\ TypeOK'
      BY JobsSoundStep, TypeStep, TableAssumption DEF IdentityInv, Next, StepOf
    <3> QED
      BY <3>1 DEF JobsSound, TypeOK
  <2> QED
    BY <2>1 DEF SignInsGoHome, Home
<1>1. CASE (Active(r) /\ job[r].op = "signin" /\ job'[r] = job[r] /\ cand'[r] = cand[r])
  <2>1. l \in {None, Formerly[s]} /\ ToHome(s, l, c)'
    <3>1. l \in {None, Formerly[s]}
      BY <1>1 DEF PersonInv, SignInsGoHome
    <3> SUFFICES ASSUME l # None, OldForm[Formerly[s]] \notin Guests'
                 PROVE  c = Home(s)'
      BY <3>1
    <3>2. Home(s)' = Home(s) /\ OldForm[Formerly[s]] \notin Guests
      BY <3>1, HomeKept
    <3> QED
      BY <1>1, <3>2 DEF PersonInv, SignInsGoHome
  <2>2. ToOld(s, c)'
    <3> SUFFICES ASSUME Formerly[s] = None, OldForm[s] # None, OldForm[s] \notin Guests',
                        subject'[s] = None
                 PROVE  c = OldForm[s]
      OBVIOUS
    <3>1. OldForm[s] \notin Guests
      BY RegisteredKept
    <3>2. subject[s] = None
      BY NoneAssumption, SubjectEffects DEF IdentityInv, JobsSound
    <3> QED
      BY <1>1, <3>1, <3>2 DEF PersonInv, SignInsGoHome
  <2> QED
    BY <2>1, <2>2
<1>2. CASE ArriveSignIn(q) /\ r = q
  <2>1. /\ subject[s] = None /\ UNCHANGED tables /\ l \in {None, Formerly[s]}
        /\ \E p \in IF Known(s, l) # None THEN {Known(s, l)} ELSE Fresh : c = p
    BY <1>2 DEF ArriveSignIn, Active, TypeOK
  <2>2. CASE l # None
    <3>1. Formerly[s] \in Subjects /\ OldForm[Formerly[s]] # None /\ l = Formerly[s]
      BY <2>1, <2>2, TableAssumption, MigrationAssumption
    <3>2. Known(s, l) = Home(s) /\ Known(s, l) # None
      BY <2>2, <3>1 DEF Known, Home
    <3> QED
      BY <2>1, <2>2, <3>1, <3>2 DEF Home, tables
  <2>3. CASE l = None
    BY <2>1, <2>3 DEF Known
  <2> QED
    BY <2>2, <2>3
<1>3. CASE DecideSignIn(q) /\ r = q /\ cand'[q] # cand[q]
  <2>1. /\ Active(q) /\ job[q].op = "signin" /\ job[q].subject = s /\ UNCHANGED tables
        /\ job[q].legacy = l /\ subject[s] = None /\ cand[q] \in Guests
    BY <1>3 DEF DecideSignIn, Active
  <2>2. l \in {None, Formerly[s]} /\ ToHome(s, l, cand[q]) /\ ToOld(s, cand[q])
    BY <1>3, <2>1 DEF PersonInv, SignInsGoHome
  <2>3. l # None => OldForm[Formerly[s]] \in Guests
    <3> SUFFICES ASSUME l # None, cand[q] = Home(s)
                 PROVE  OldForm[Formerly[s]] \in Guests
      BY <2>2
    <3>1. Formerly[s] \in Subjects
      BY <2>2, TableAssumption
    <3>2. subject[Formerly[s]] = None \/ subject[Formerly[s]] # cand[q]
      BY <2>1, <3>1 DEF IdentityInv, GuestNotAccount, Guests, Backed
    <3> QED
      BY <2>1, <3>2 DEF Home
  <2>4. Formerly[s] = None /\ OldForm[s] # None => OldForm[s] \in Guests
    BY <2>1, <2>2
  <2> QED
    BY <2>1, <2>2, <2>3, <2>4 DEF Guests, tables
<1>4. \/ Active(r) /\ job[r].op = "signin" /\ job'[r] = job[r] /\ cand'[r] = cand[r]
      \/ ArriveSignIn(q) /\ r = q
      \/ DecideSignIn(q) /\ r = q /\ cand'[q] # cand[q]
  <2>1. CASE r # q
    BY <2>1, OthersKept DEF Active
  <2>2. CASE r = q
    <3>1. CASE ArrivePlay(q) \/ ArriveClaim(q) \/ Admit(q) \/ Redraw(q) \/ Decide(q)
               \/ Refuse(q) \/ CommitPlay(q) \/ DecideClaim(q) \/ CommitClaim(q)
               \/ CommitSignIn(q) \/ Abort(q)
      BY <2>2, <3>1 DEF ArrivePlay, ArriveClaim, Admit, Redraw, Decide, ReadyToDecide, Refuse,
                        CommitPlay, DecideClaim, CommitClaim, CommitSignIn, Abort, TypeOK, Active
    <3>2. CASE LockNext(q) \/ DecideSignIn(q)
      BY <2>2, <3>2 DEF LockNext, DecideSignIn, Active
    <3> QED
      BY <2>2, <3>1, <3>2 DEF StepOf, Arrive, Progress
  <2> QED
    BY <2>1, <2>2
<1> QED
  BY <1>1, <1>2, <1>3, <1>4

(* PersonInv is inductive, given IdentityInv.                                  *)
THEOREM PersonCorrect == Spec => []PersonInv
<1>1. Init => PersonInv
  <2> SUFFICES ASSUME Init PROVE PersonInv
    OBVIOUS
  <2>1. SignInsGoHome
    BY DEF Init, SignInsGoHome, Active
  <2>2. SubjectsAgree
    BY MigrationAssumption DEF Init, SubjectsAgree, Home
  <2> QED
    BY <2>1, <2>2 DEF PersonInv
<1>2. TypeOK /\ IdentityInv /\ PersonInv /\ [Next]_vars => PersonInv'
  <2> SUFFICES ASSUME TypeOK, IdentityInv, PersonInv, [Next]_vars PROVE PersonInv'
    OBVIOUS
  <2>1. CASE UNCHANGED <<tables, locks, pc, job, cand, allocate, plan>>
    <3>1. SignInsGoHome'
      BY <2>1 DEF PersonInv, SignInsGoHome, Home, Active, Guests, tables
    <3>2. SubjectsAgree'
      BY <2>1 DEF PersonInv, SubjectsAgree, FirstSeenAlone, Home, Guests, tables
    <3> QED
      BY <3>1, <3>2 DEF PersonInv
  <2>2. ASSUME NEW q \in Requests, StepOf(q) PROVE PersonInv'
    BY <2>2, SignInsGoHomeStep, SubjectsAgreeStep, NoneAssumption, TableAssumption,
       DrawAssumption, MigrationAssumption DEF PersonInv
  <2> QED
    BY <2>1, <2>2 DEF Next, StepOf, NextDay, vars
<1>3. Spec => []TypeOK
  BY TypeCorrect
<1>4. Spec => []IdentityInv
  BY IdentityCorrect
<1> QED
  BY <1>1, <1>2, <1>3, <1>4, PTL DEF Spec

(* Both forms of a person's subject sign in as one player, whatever races with  *)
(* their first sign-ins, unless the sign-in that linked the new form came       *)
(* without the old one, or a guest drew the uuid of the old form.               *)
THEOREM OnePlayerPerPersonCorrect == Spec => []OnePlayerPerPerson
<1>1. TypeOK /\ PersonInv => OnePlayerPerPerson
  BY DEF PersonInv, SubjectsAgree, OnePlayerPerPerson, Home
<1> QED
  BY <1>1, PersonCorrect, TypeCorrect, PTL
=============================================================================
