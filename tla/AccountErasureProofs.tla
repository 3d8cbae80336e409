------------------------- MODULE AccountErasureProofs -------------------------
(***************************************************************************)
(* What TLAPS proves of AccountErasure for any number of erasures, guests, *)
(* subjects and repetitions: the types, and that what the person and the   *)
(* operator are told of a failed erasure is true.                          *)
(***************************************************************************)
EXTENDS AccountErasure, TLAPS

(* Only the operator's erasures look their subject up.                     *)
LooksUpNamed(e) == pc[e] \in {"lookup", "only"} => NamedBy[e] # None

(* What was deleted at Auth, or settled there, was named to Auth before.   *)
DeletedNamed(e) ==
    /\ \A s \in Subjects : <<e, s>> \in deletedBy => s \in asked[e]
    /\ settled[e] \subseteq asked[e]

(* An erasure that deleted a sign-in knows it, or knows that it may have.  *)
DeletedKnown(e) == \A s \in Subjects :
    <<e, s>> \in deletedBy => settled[e] # {} \/ everUnsure[e] \/ pc[e] \in {"signInOnly", "unconfirmed"}

(* A commit comes after at least one subject is settled.                   *)
CommitsSettled(e) ==
    /\ e \in landed => settled[e] # {}
    /\ pc[e] = "ask" => todo[e] # {} \/ settled[e] # {}

(* An erasure that has not begun has named nobody.                         *)
NobodyNamed(e) == pc[e] \in {"idle", "lookup", "only"} => asked[e] = {}

(* ToldWholeIsWhole of one erasure.                                        *)
ToldRight(e) == pc[e] \in {"refused", "retry"} => e \notin landed /\ \A s \in Subjects : <<e, s>> \notin deletedBy

Sane(e) ==
    /\ LooksUpNamed(e) /\ DeletedNamed(e) /\ DeletedKnown(e)
    /\ CommitsSettled(e) /\ NobodyNamed(e) /\ ToldRight(e)

ErasureInv == \A e \in Erasers : Sane(e)

------------------------------------------------------------------------------
LEMMA NamedType == \A e \in Erasers : NamedBy[e] \in Subjects \cup {None}
  BY ErasureAssumption DEF ErasureAssumption

LEMMA FirstAttempt == 1 \in 1 .. Attempts
  BY ErasureAssumption DEF ErasureAssumption

LEMMA TypeInit == Init => TypeOK
  BY FirstAttempt DEF Init, TypeOK, Rows

(* The next attempt is one of them.                                        *)
LEMMA RepeatType ==
    ASSUME TypeOK, NEW e \in Erasers, NEW again \in BOOLEAN, NEW unclear \in BOOLEAN, Repeat(e, again, unclear)
    PROVE  /\ unsure' \in [Erasers -> BOOLEAN] /\ locks' \in [People -> Erasers \cup {None}]
           /\ linked' \in [Erasers -> SUBSET Guests] /\ gone' \in [Erasers -> SUBSET Rows]
           /\ todo' \in [Erasers -> SUBSET Subjects]
           /\ attempt' \in [Erasers -> 1 .. Attempts]
           /\ pc' \in [Erasers -> {"idle"} \cup Working \cup Answers]
<1>1. unsure' \in [Erasers -> BOOLEAN] /\ locks' \in [People -> Erasers \cup {None}]
  BY DEF Repeat, TypeOK, Unlock
<1>2. /\ linked' \in [Erasers -> SUBSET Guests] /\ gone' \in [Erasers -> SUBSET Rows]
      /\ todo' \in [Erasers -> SUBSET Subjects]
  BY DEF Repeat, NoPlan, TypeOK
<1>3. attempt' \in [Erasers -> 1 .. Attempts]
  <2>1. attempt \in [Erasers -> 1 .. Attempts] /\ attempt[e] \in 1 .. Attempts /\ Attempts \in Nat
    BY ErasureAssumption DEF TypeOK, ErasureAssumption
  <2>2. CASE Again(e, again)
    <3>1. attempt[e] + 1 \in 1 .. Attempts
      BY <2>1, <2>2 DEF Again
    <3> QED
      BY <2>1, <2>2, <3>1 DEF Repeat
  <2>3. CASE ~Again(e, again)
    BY <2>1, <2>3 DEF Repeat
  <2> QED
    BY <2>2, <2>3
<1>4. pc' \in [Erasers -> {"idle"} \cup Working \cup Answers]
  BY DEF Repeat, GiveUp, TypeOK, Working, Answers
<1> QED
  BY <1>1, <1>2, <1>3, <1>4

LEMMA DeletedType ==
    ASSUME TypeOK, NEW e \in Erasers, NEW s \in Subjects, Deleted(e, s)
    PROVE  signIn' \in [Subjects -> {"live", "deleted", "absent"}] /\ deletedBy' \subseteq Erasers \X Subjects
  BY DEF TypeOK, Deleted

LEMMA ToAskType == ASSUME TypeOK, NEW e \in Erasers PROVE ToAsk(e) \subseteq Subjects
<1>1. OldForm \in Subjects /\ NamedBy[e] \in Subjects \cup {None} /\ map \subseteq Subjects
  BY NamedType, ErasureAssumption DEF ErasureAssumption, TypeOK
<1> QED
  BY <1>1 DEF ToAsk

LEMMA TypeStep == TypeOK /\ ErasureInv /\ [Next]_vars => TypeOK'
<1> SUFFICES ASSUME TypeOK, ErasureInv, [Next]_vars PROVE TypeOK'
  OBVIOUS
<1> USE DEF eraserVars, world, plan, told, doubt
<1>1. ASSUME NEW s \in Subjects, Verify(s) \/ Link(s) PROVE TypeOK'
  BY <1>1 DEF Verify, Link, TypeOK
<1>2. ASSUME NEW g \in Guests, Adopt(g) PROVE TypeOK'
  <2>1. rows' \subseteq Rows /\ adopted' \subseteq Guests
    BY <1>2 DEF Adopt, TypeOK, Rows, People
  <2> QED
    BY <1>2, <2>1 DEF Adopt, TypeOK
<1>3. CASE Expire \/ Play \/ SavePreferences
  BY <1>3 DEF Expire, Play, SavePreferences, TypeOK, Rows, People
<1>4. ASSUME NEW e \in Erasers, Start(e) \/ Lookup(e) \/ Read(e) PROVE TypeOK'
  BY <1>4 DEF Start, Lookup, Read, TypeOK, Working
<1>5. ASSUME NEW e \in Erasers, Lock(e) PROVE TypeOK'
  <2>1. locks' \in [People -> Erasers \cup {None}]
    BY <1>5 DEF Lock, TypeOK
  <2>2. gone' \in [Erasers -> SUBSET Rows]
    BY <1>5 DEF Lock, TypeOK, Rows, People
  <2>3. todo' \in [Erasers -> SUBSET Subjects]
    BY <1>5, ToAskType DEF Lock, TypeOK
  <2> QED
    BY <1>5, <2>1, <2>2, <2>3 DEF Lock, TypeOK, Working
<1>6. ASSUME NEW e \in Erasers, IdentitySetChanged(e) \/ DatabaseFails(e) PROVE TypeOK'
  <2>1. \E again, unclear \in BOOLEAN : Repeat(e, again, unclear)
    BY <1>6 DEF IdentitySetChanged, DatabaseFails, TypeOK
  <2> QED
    BY <1>6, <2>1, RepeatType DEF IdentitySetChanged, DatabaseFails, TypeOK
<1>7. ASSUME NEW e \in Erasers, Settle(e) PROVE TypeOK'
  <2>1. PICK s \in todo[e] : /\ Deleted(e, s)
                             /\ settled' = [settled EXCEPT ![e] = @ \cup {s}]
                             /\ asked' = [asked EXCEPT ![e] = Named(e, s, TRUE)]
                             /\ todo' = [todo EXCEPT ![e] = @ \ {s}]
    BY <1>7 DEF Settle
  <2>2. s \in Subjects
    BY <2>1 DEF TypeOK
  <2>3. signIn' \in [Subjects -> {"live", "deleted", "absent"}] /\ deletedBy' \subseteq Erasers \X Subjects
    BY <2>1, <2>2, DeletedType
  <2>4. /\ settled' \in [Erasers -> SUBSET Subjects] /\ asked' \in [Erasers -> SUBSET Subjects]
        /\ todo' \in [Erasers -> SUBSET Subjects]
    BY <2>1, <2>2 DEF TypeOK, Named
  <2> QED
    BY <1>7, <2>3, <2>4 DEF Settle, TypeOK
<1>8. ASSUME NEW e \in Erasers, Refused(e) PROVE TypeOK'
  <2>1. asked' \in [Erasers -> SUBSET Subjects]
    BY <1>8 DEF Refused, TypeOK, Named
  <2>2. pc' \in [Erasers -> {"idle"} \cup Working \cup Answers] /\ locks' \in [People -> Erasers \cup {None}]
    BY <1>8 DEF Refused, TypeOK, Answers, Unlock
  <2> QED
    BY <1>8, <2>1, <2>2 DEF Refused, TypeOK, NoPlan
<1>9. ASSUME NEW e \in Erasers, Ambiguous(e) PROVE TypeOK'
  <2>1. PICK s \in todo[e] : /\ Deleted(e, s) \/ UNCHANGED <<signIn, deletedBy>>
                             /\ asked' = [asked EXCEPT ![e] = Named(e, s, FALSE)]
    BY <1>9 DEF Ambiguous
  <2>2. s \in Subjects
    BY <2>1 DEF TypeOK
  <2>3. signIn' \in [Subjects -> {"live", "deleted", "absent"}] /\ deletedBy' \subseteq Erasers \X Subjects
    BY <2>1, <2>2, DeletedType DEF TypeOK
  <2>4. asked' \in [Erasers -> SUBSET Subjects] /\ everUnsure' \in [Erasers -> BOOLEAN]
    BY <1>9, <2>1, <2>2 DEF TypeOK, Named, Ambiguous
  <2>5. Repeat(e, TRUE, TRUE)
    BY <1>9 DEF Ambiguous
  <2> QED
    BY <1>9, <2>3, <2>4, <2>5, RepeatType DEF Ambiguous, TypeOK
<1>10. ASSUME NEW e \in Erasers, Commit(e) PROVE TypeOK'
  BY <1>10 DEF Commit, Erase, NoPlan, Unlock, TypeOK, Answers
<1>11. ASSUME NEW e \in Erasers, CommitFails(e) PROVE TypeOK'
  <2>1. \E transient \in BOOLEAN : Repeat(e, transient, FALSE)
    BY <1>11 DEF CommitFails
  <2>2. rows' \subseteq Rows /\ map' \subseteq Subjects /\ adopted' \subseteq Guests /\ landed' \subseteq Erasers
    BY <1>11 DEF CommitFails, Erase, TypeOK
  <2> QED
    BY <1>11, <2>1, <2>2, RepeatType DEF CommitFails, TypeOK
<1>12. ASSUME NEW e \in Erasers, SignInOnly(e) PROVE TypeOK'
  <2>0. NamedBy[e] \in Subjects
    BY <1>12, NamedType DEF SignInOnly, ErasureInv, Sane, LooksUpNamed
  <2>1. signIn' \in [Subjects -> {"live", "deleted", "absent"}] /\ deletedBy' \subseteq Erasers \X Subjects
    BY <1>12, <2>0, DeletedType DEF SignInOnly, TypeOK
  <2> QED
    BY <1>12, <2>0, <2>1 DEF SignInOnly, TypeOK, Answers
<1>13. ASSUME NEW e \in Erasers, Crash(e) PROVE TypeOK'
  BY <1>13 DEF Crash, NoPlan, Unlock, TypeOK, Answers
<1>14. CASE UNCHANGED vars
  BY <1>14 DEF vars, TypeOK
<1> QED
  BY <1>1, <1>2, <1>3, <1>4, <1>5, <1>6, <1>7, <1>8, <1>9, <1>10, <1>11, <1>12, <1>13, <1>14 DEF Next, Step

LEMMA InvInit == Init => ErasureInv
  BY DEF Init, ErasureInv, Sane, LooksUpNamed, DeletedNamed, DeletedKnown, CommitsSettled, NobodyNamed, ToldRight

(* A step of one erasure, or of none, leaves the others' memory alone.     *)
Kept(f) ==
    /\ pc'[f] = pc[f] /\ settled'[f] = settled[f] /\ asked'[f] = asked[f]
    /\ todo'[f] = todo[f] /\ everUnsure'[f] = everUnsure[f]
    /\ \A s \in Subjects : <<f, s>> \in deletedBy' <=> <<f, s>> \in deletedBy
    /\ f \in landed' <=> f \in landed

LEMMA KeptSane == ASSUME NEW f \in Erasers, Sane(f), Kept(f) PROVE Sane(f)'
  BY DEF Kept, Sane, LooksUpNamed, DeletedNamed, DeletedKnown, CommitsSettled, NobodyNamed, ToldRight

LEMMA RepeatKeeps ==
    ASSUME TypeOK, NEW e \in Erasers, NEW f \in Erasers \ {e}, NEW again, NEW unclear, Repeat(e, again, unclear)
    PROVE  pc'[f] = pc[f] /\ todo'[f] = todo[f]
  BY DEF Repeat, NoPlan, TypeOK

LEMMA DeletedKeeps ==
    ASSUME NEW e \in Erasers, NEW f \in Erasers \ {e}, NEW s \in Subjects, Deleted(e, s) \/ UNCHANGED deletedBy
    PROVE  \A t \in Subjects : <<f, t>> \in deletedBy' <=> <<f, t>> \in deletedBy
  BY DEF Deleted

LEMMA OthersKept ==
    ASSUME TypeOK, ErasureInv, NEW e \in Erasers, Start(e) \/ Step(e), NEW f \in Erasers \ {e}
    PROVE  Kept(f)
<1> USE DEF world, plan, told, doubt
<1>1. CASE Start(e) \/ Lookup(e) \/ Read(e) \/ Lock(e)
  BY <1>1 DEF Start, Lookup, Read, Lock, Kept, TypeOK
<1>2. CASE IdentitySetChanged(e) \/ DatabaseFails(e)
  <2>1. \E again, unclear \in BOOLEAN : Repeat(e, again, unclear)
    BY <1>2 DEF IdentitySetChanged, DatabaseFails, TypeOK
  <2> QED
    BY <1>2, <2>1, RepeatKeeps DEF IdentitySetChanged, DatabaseFails, Kept
<1>3. CASE Settle(e)
  <2>1. PICK s \in todo[e] : /\ Deleted(e, s)
                             /\ settled' = [settled EXCEPT ![e] = @ \cup {s}]
                             /\ asked' = [asked EXCEPT ![e] = Named(e, s, TRUE)]
                             /\ todo' = [todo EXCEPT ![e] = @ \ {s}]
    BY <1>3 DEF Settle
  <2> QED
    BY <1>3, <2>1, DeletedKeeps DEF Settle, Kept, TypeOK
<1>4. CASE Refused(e)
  BY <1>4 DEF Refused, NoPlan, Kept, TypeOK
<1>5. CASE Ambiguous(e)
  <2>1. PICK s \in todo[e] : /\ Deleted(e, s) \/ UNCHANGED <<signIn, deletedBy>>
                             /\ asked' = [asked EXCEPT ![e] = Named(e, s, FALSE)]
    BY <1>5 DEF Ambiguous
  <2>2. Repeat(e, TRUE, TRUE) /\ s \in Subjects
    BY <1>5 DEF Ambiguous, TypeOK
  <2>3. pc'[f] = pc[f] /\ todo'[f] = todo[f]
    BY <2>2, RepeatKeeps
  <2>4. \A t \in Subjects : <<f, t>> \in deletedBy' <=> <<f, t>> \in deletedBy
    BY <2>1, <2>2, DeletedKeeps
  <2> QED
    BY <1>5, <2>1, <2>3, <2>4 DEF Ambiguous, Kept, TypeOK
<1>6. CASE Commit(e)
  BY <1>6 DEF Commit, Erase, NoPlan, Kept, TypeOK
<1>7. CASE CommitFails(e)
  <2>1. \E transient \in BOOLEAN : Repeat(e, transient, FALSE)
    BY <1>7 DEF CommitFails
  <2>2. f \in landed' <=> f \in landed
    BY <1>7 DEF CommitFails, Erase
  <2> QED
    BY <1>7, <2>1, <2>2, RepeatKeeps DEF CommitFails, Kept
<1>8. CASE SignInOnly(e)
  <2>1. NamedBy[e] \in Subjects
    BY <1>8, NamedType DEF SignInOnly, ErasureInv, Sane, LooksUpNamed
  <2> QED
    BY <1>8, <2>1, DeletedKeeps DEF SignInOnly, Kept, TypeOK
<1>9. CASE Crash(e)
  BY <1>9 DEF Crash, NoPlan, Kept, TypeOK
<1> QED
  BY <1>1, <1>2, <1>3, <1>4, <1>5, <1>6, <1>7, <1>8, <1>9 DEF Step

(* How a transaction ends without success.                                 *)
LEMMA RepeatEffect ==
    ASSUME TypeOK, NEW e \in Erasers, NEW again, NEW unclear \in BOOLEAN, Repeat(e, again, unclear)
    PROVE  \/ pc'[e] = "begin"
           \/ pc'[e] = "unconfirmed" /\ unclear
           \/ pc'[e] = "database" /\ ~unclear /\ asked[e] # {}
           \/ pc'[e] = "retry" /\ ~unclear /\ asked[e] = {}
  BY DEF Repeat, GiveUp, TypeOK

LEMMA SomebodyToAsk == ASSUME TypeOK, NEW e \in Erasers, settled[e] = {} PROVE ToAsk(e) # {}
  BY DEF ToAsk

(* The acting erasure.                                                     *)
LEMMA ActorSane ==
    ASSUME TypeOK, ErasureInv, NEW e \in Erasers, Start(e) \/ Step(e)
    PROVE  Sane(e)'
<1> USE DEF world, plan, told, doubt
<1>0. Sane(e)
  BY DEF ErasureInv
<1>1. CASE Start(e) \/ Lookup(e) \/ Read(e)
  BY <1>0, <1>1 DEF Start, Lookup, Read, TypeOK,
      Sane, LooksUpNamed, DeletedNamed, DeletedKnown, CommitsSettled, NobodyNamed, ToldRight
<1>2. CASE Lock(e)
  <2>1. pc'[e] = "ask" /\ todo'[e] = ToAsk(e)
    BY <1>2 DEF Lock, TypeOK
  <2> QED
    BY <1>0, <1>2, <2>1, SomebodyToAsk DEF Lock,
        Sane, LooksUpNamed, DeletedNamed, DeletedKnown, CommitsSettled, NobodyNamed, ToldRight
<1>3. CASE IdentitySetChanged(e) \/ DatabaseFails(e)
  <2>1. PICK again \in BOOLEAN, unclear \in BOOLEAN : Repeat(e, again, unclear)
    BY <1>3 DEF IdentitySetChanged, DatabaseFails, TypeOK
  <2> QED
    BY <1>0, <1>3, <2>1, RepeatEffect DEF IdentitySetChanged, DatabaseFails,
        Sane, LooksUpNamed, DeletedNamed, DeletedKnown, CommitsSettled, NobodyNamed, ToldRight
<1>4. CASE Settle(e)
  <2>1. PICK s \in todo[e] : /\ Deleted(e, s)
                             /\ settled' = [settled EXCEPT ![e] = @ \cup {s}]
                             /\ asked' = [asked EXCEPT ![e] = Named(e, s, TRUE)]
                             /\ todo' = [todo EXCEPT ![e] = @ \ {s}]
    BY <1>4 DEF Settle
  <2>2. settled'[e] = settled[e] \cup {s} /\ asked'[e] = asked[e] \cup {s}
    BY <2>1 DEF TypeOK, Named
  <2>3. deletedBy' \subseteq deletedBy \cup {<<e, s>>}
    BY <2>1 DEF Deleted
  <2>4. pc[e] = "ask" /\ pc' = pc
    BY <1>4 DEF Settle
  <2>5. DeletedNamed(e)'
    BY <1>0, <2>2, <2>3 DEF Sane, DeletedNamed
  <2> QED
    BY <1>0, <2>2, <2>4, <2>5 DEF
        Sane, LooksUpNamed, DeletedKnown, CommitsSettled, NobodyNamed, ToldRight
<1>5. CASE Refused(e)
  <2>1. asked[e] \subseteq asked'[e]
    BY <1>5 DEF Refused, Named, TypeOK
  <2>2. pc'[e] = IF Whole(e) THEN "refused" ELSE "unconfirmed"
    BY <1>5 DEF Refused, TypeOK
  <2>3. pc[e] = "ask" /\ UNCHANGED <<settled, deletedBy, everUnsure, landed>>
    BY <1>5 DEF Refused
  <2> QED
    BY <1>0, <2>1, <2>2, <2>3 DEF Whole,
        Sane, LooksUpNamed, DeletedNamed, DeletedKnown, CommitsSettled, NobodyNamed, ToldRight
<1>6. CASE Ambiguous(e)
  <2>1. PICK s \in todo[e] : /\ Deleted(e, s) \/ UNCHANGED <<signIn, deletedBy>>
                             /\ asked' = [asked EXCEPT ![e] = Named(e, s, FALSE)]
    BY <1>6 DEF Ambiguous
  <2>2. asked'[e] = asked[e] \cup {s} /\ everUnsure'[e]
    BY <1>6, <2>1 DEF TypeOK, Named, Ambiguous
  <2>3. pc'[e] \in {"begin", "unconfirmed"}
    BY <1>6, RepeatEffect DEF Ambiguous
  <2>4. deletedBy' \subseteq deletedBy \cup {<<e, s>>}
    BY <2>1 DEF Deleted
  <2>5. DeletedNamed(e)'
    BY <1>0, <1>6, <2>2, <2>4 DEF Ambiguous, Sane, DeletedNamed
  <2> QED
    BY <1>0, <1>6, <2>2, <2>3, <2>5 DEF Ambiguous,
        Sane, LooksUpNamed, DeletedKnown, CommitsSettled, NobodyNamed, ToldRight
<1>7. CASE Commit(e)
  BY <1>0, <1>7 DEF Commit, Erase, AllAsked, NoPlan, TypeOK,
      Sane, LooksUpNamed, DeletedNamed, DeletedKnown, CommitsSettled, NobodyNamed, ToldRight
<1>8. CASE CommitFails(e)
  <2>1. PICK transient \in BOOLEAN : Repeat(e, transient, FALSE)
    BY <1>8 DEF CommitFails
  <2>2. settled[e] # {} /\ asked[e] # {}
    BY <1>0, <1>8 DEF CommitFails, AllAsked, Sane, CommitsSettled, DeletedNamed
  <2>3. pc'[e] \in {"begin", "database"}
    BY <2>1, <2>2, RepeatEffect
  <2>4. UNCHANGED <<settled, asked, deletedBy, everUnsure>>
    BY <1>8 DEF CommitFails
  <2> QED
    BY <1>0, <2>2, <2>3, <2>4 DEF
        Sane, LooksUpNamed, DeletedNamed, DeletedKnown, CommitsSettled, NobodyNamed, ToldRight
<1>9. CASE SignInOnly(e)
  <2>1. NamedBy[e] \in Subjects
    BY <1>9, NamedType DEF SignInOnly, ErasureInv, Sane, LooksUpNamed
  <2>2. asked'[e] = {NamedBy[e]} /\ asked[e] = {} /\ settled[e] = {} /\ pc'[e] \in {"signInOnly", "refused", "unconfirmed"}
    BY <1>0, <1>9 DEF SignInOnly, TypeOK, Sane, DeletedNamed, NobodyNamed
  <2>3. \A s \in Subjects : <<e, s>> \notin deletedBy
    BY <1>0, <2>2 DEF Sane, DeletedNamed
  <2>4. \A s \in Subjects : <<e, s>> \in deletedBy' => s = NamedBy[e] /\ pc'[e] \in {"signInOnly", "unconfirmed"}
    BY <1>9, <2>1, <2>3 DEF SignInOnly, Deleted, TypeOK
  <2> QED
    BY <1>0, <1>9, <2>2, <2>4 DEF SignInOnly,
        Sane, LooksUpNamed, DeletedNamed, DeletedKnown, CommitsSettled, NobodyNamed, ToldRight
<1>10. CASE Crash(e)
  BY <1>0, <1>10 DEF Crash, NoPlan, TypeOK, Working,
      Sane, LooksUpNamed, DeletedNamed, DeletedKnown, CommitsSettled, NobodyNamed, ToldRight
<1> QED
  BY <1>1, <1>2, <1>3, <1>4, <1>5, <1>6, <1>7, <1>8, <1>9, <1>10 DEF Step

LEMMA InvStep == TypeOK /\ ErasureInv /\ [Next]_vars => ErasureInv'
<1> SUFFICES ASSUME TypeOK, ErasureInv, [Next]_vars, NEW f \in Erasers PROVE Sane(f)'
  BY DEF ErasureInv
<1>1. CASE \E e \in Erasers : Start(e) \/ Step(e)
  BY <1>1, OthersKept, ActorSane, KeptSane DEF ErasureInv
<1>2. CASE UNCHANGED <<pc, settled, asked, todo, everUnsure, deletedBy, landed>>
  BY <1>2, KeptSane DEF Kept, ErasureInv
<1>3. ASSUME NEW s \in Subjects, Verify(s) \/ Link(s)
      PROVE  UNCHANGED <<pc, settled, asked, todo, everUnsure, deletedBy, landed>>
  BY <1>3 DEF Verify, Link, eraserVars, plan, told, doubt
<1>4. ASSUME NEW g \in Guests, Adopt(g)
      PROVE  UNCHANGED <<pc, settled, asked, todo, everUnsure, deletedBy, landed>>
  BY <1>4 DEF Adopt, eraserVars, plan, told, doubt
<1>5. ASSUME Expire \/ Play \/ SavePreferences \/ UNCHANGED vars
      PROVE  UNCHANGED <<pc, settled, asked, todo, everUnsure, deletedBy, landed>>
  BY <1>5 DEF Expire, Play, SavePreferences, eraserVars, vars, plan, told, doubt
<1> QED
  BY <1>1, <1>2, <1>3, <1>4, <1>5 DEF Next

LEMMA ErasureInvCorrect == Spec => [](TypeOK /\ ErasureInv)
<1>1. Init => TypeOK /\ ErasureInv
  BY TypeInit, InvInit
<1>2. TypeOK /\ ErasureInv /\ [Next]_vars => (TypeOK /\ ErasureInv)'
  BY TypeStep, InvStep
<1> QED
  BY <1>1, <1>2, PTL DEF Spec

------------------------------------------------------------------------------
(* What a transaction saw under its locks is still so when it commits.     *)
HoldsLocks(e) == pc[e] = "ask" => \A p \in {Player} \cup linked[e] : locks[p] = e

SeesAll(e) == pc[e] = "ask" =>
    /\ linked[e] = adopted
    /\ rows \cap ({Player} \cup adopted) \subseteq gone[e]
    /\ map \subseteq todo[e] \cup settled[e]

(* What Auth settled is dead, and nothing brings it back.                  *)
SettledDead(e) == \A s \in settled[e] : signIn[s] # "live"

(* Before the first commit, a player without a map is asked for under the  *)
(* old form and nothing else.                                              *)
OldFormFirst(e) ==
    /\ landed = {} /\ map = {} => todo[e] \cup settled[e] \subseteq {OldForm}
    /\ landed = {} /\ pc[e] \in {"begin", "lock", "ask"} => NamedBy[e] \in map \cup {OldForm, None}

Firm(e) == HoldsLocks(e) /\ SeesAll(e) /\ SettledDead(e) /\ OldFormFirst(e)
LockInv == \A e \in Erasers : Firm(e)

LEMMA LockInit == Init => LockInv
  BY DEF Init, LockInv, Firm, HoldsLocks, SeesAll, SettledDead, OldFormFirst

LEMMA OneAsks == ASSUME LockInv, NEW e \in Erasers, NEW f \in Erasers, pc[e] = "ask", pc[f] = "ask" PROVE e = f
  BY DEF LockInv, Firm, HoldsLocks

(* Under a free player nobody is asking Auth.                              *)
LEMMA FreeNobodyAsks == ASSUME LockInv, Free({Player}), NEW e \in Erasers PROVE pc[e] # "ask"
<1>1. None \notin Erasers
  BY ErasureAssumption DEF ErasureAssumption
<1> QED
  BY <1>1 DEF LockInv, Firm, HoldsLocks, Free, People

(* What one erasure's step may change under another's locks.               *)
Undisturbed(f) ==
    /\ pc'[f] = pc[f] /\ linked'[f] = linked[f] /\ gone'[f] = gone[f]
    /\ todo'[f] = todo[f] /\ settled'[f] = settled[f]
    /\ \A s \in Subjects : signIn'[s] = "live" => signIn[s] = "live"
    /\ pc[f] = "ask" =>
         /\ map' = map /\ adopted' = adopted
         /\ rows' \cap ({Player} \cup adopted) \subseteq rows
         /\ \A p \in {Player} \cup linked[f] : locks[p] = f => locks'[p] = f
    /\ landed' = {} => landed = {} /\ map \subseteq map'

LEMMA UndisturbedFirm == ASSUME TypeOK, NEW f \in Erasers, Firm(f), Undisturbed(f) PROVE Firm(f)'
<1>1. HoldsLocks(f)'
  BY DEF Undisturbed, Firm, HoldsLocks
<1>2. SeesAll(f)'
  BY DEF Undisturbed, Firm, SeesAll
<1>3. SettledDead(f)'
  BY DEF Undisturbed, Firm, SettledDead, TypeOK
<1>4. OldFormFirst(f)'
  BY DEF Undisturbed, Firm, OldFormFirst
<1> QED
  BY <1>1, <1>2, <1>3, <1>4 DEF Firm

LEMMA WorldUndisturbed ==
    ASSUME TypeOK, LockInv, NEW f \in Erasers,
           \/ \E s \in Subjects : Verify(s) \/ Link(s)
           \/ \E g \in Guests : Adopt(g)
           \/ Expire \/ Play \/ SavePreferences \/ UNCHANGED vars
    PROVE  Undisturbed(f)
<1> USE DEF eraserVars, plan, told, doubt
<1>1. ASSUME NEW s \in Subjects, Verify(s) PROVE Undisturbed(f)
  BY <1>1 DEF Verify, Undisturbed
<1>2. ASSUME NEW s \in Subjects, Link(s) PROVE Undisturbed(f)
  BY <1>2, FreeNobodyAsks DEF Link, Undisturbed
<1>3. ASSUME NEW g \in Guests, Adopt(g) PROVE Undisturbed(f)
  <2>1. Free({Player})
    BY <1>3 DEF Adopt, Free
  <2> QED
    BY <1>3, <2>1, FreeNobodyAsks DEF Adopt, Undisturbed
<1>4. CASE Expire \/ UNCHANGED vars
  BY <1>4 DEF Expire, vars, world, Undisturbed
<1>5. CASE Play
  BY <1>5, FreeNobodyAsks DEF Play, Undisturbed
<1>6. CASE SavePreferences
  <2>1. Settings \notin {Player} \cup adopted
    BY ErasureAssumption DEF TypeOK, ErasureAssumption
  <2> QED
    BY <1>6, <2>1 DEF SavePreferences, Undisturbed
<1> QED
  BY <1>1, <1>2, <1>3, <1>4, <1>5, <1>6

LEMMA UnlockKeeps == ASSUME NEW e \in Erasers, NEW f \in Erasers \ {e}, TypeOK, locks' = Unlock(e)
                     PROVE  \A p \in People : locks[p] = f => locks'[p] = f
  BY DEF Unlock, TypeOK

LEMMA RepeatUndisturbed ==
    ASSUME TypeOK, NEW e \in Erasers, NEW f \in Erasers \ {e}, NEW again, NEW unclear, Repeat(e, again, unclear)
    PROVE  /\ pc'[f] = pc[f] /\ linked'[f] = linked[f] /\ gone'[f] = gone[f] /\ todo'[f] = todo[f]
           /\ locks' = Unlock(e)
  BY DEF Repeat, NoPlan, TypeOK

LEMMA DeletedDead ==
    ASSUME TypeOK, NEW e \in Erasers, NEW s \in Subjects, Deleted(e, s)
    PROVE  /\ \A t \in Subjects : signIn'[t] = "live" => signIn[t] = "live"
           /\ signIn'[s] # "live"
  BY DEF Deleted, TypeOK

LEMMA EraseUndisturbed ==
    ASSUME TypeOK, LockInv, NEW e \in Erasers, NEW f \in Erasers \ {e}, pc[e] = "ask",
           Erase(e) \/ UNCHANGED <<rows, map, adopted, landed>>
    PROVE  pc[f] # "ask" /\ (landed' = {} => landed = {} /\ map \subseteq map')
  BY OneAsks DEF Erase

LEMMA OthersUndisturbed ==
    ASSUME TypeOK, ErasureInv, LockInv, NEW e \in Erasers, Start(e) \/ Step(e), NEW f \in Erasers \ {e}
    PROVE  Undisturbed(f)
<1> USE DEF world, plan, told, doubt
<1>0. linked[f] \subseteq Guests /\ {Player} \cup linked[f] \subseteq People
  BY DEF TypeOK, People
<1>1. CASE Start(e) \/ Lookup(e) \/ Read(e)
  BY <1>1 DEF Start, Lookup, Read, Undisturbed, TypeOK
<1>2. CASE Lock(e)
  <2>1. pc[f] # "ask"
    BY <1>2, FreeNobodyAsks DEF Lock, Free
  <2> QED
    BY <1>2, <2>1 DEF Lock, Undisturbed, TypeOK
<1>3. CASE IdentitySetChanged(e) \/ DatabaseFails(e)
  <2>1. \E again, unclear \in BOOLEAN : Repeat(e, again, unclear)
    BY <1>3 DEF IdentitySetChanged, DatabaseFails, TypeOK
  <2>2. UNCHANGED <<rows, map, adopted, signIn, settled, landed>>
    BY <1>3 DEF IdentitySetChanged, DatabaseFails
  <2> QED
    BY <1>0, <2>1, <2>2, RepeatUndisturbed, UnlockKeeps DEF Undisturbed
<1>4. CASE Settle(e)
  <2>1. PICK s \in todo[e] : /\ Deleted(e, s)
                             /\ settled' = [settled EXCEPT ![e] = @ \cup {s}]
                             /\ todo' = [todo EXCEPT ![e] = @ \ {s}]
    BY <1>4 DEF Settle
  <2>2. \A t \in Subjects : signIn'[t] = "live" => signIn[t] = "live"
    BY <2>1, DeletedDead DEF TypeOK
  <2> QED
    BY <1>4, <2>1, <2>2 DEF Settle, Undisturbed, TypeOK
<1>5. CASE Refused(e)
  BY <1>0, <1>5, UnlockKeeps DEF Refused, NoPlan, Undisturbed, TypeOK
<1>6. CASE Ambiguous(e)
  <2>1. \A t \in Subjects : signIn'[t] = "live" => signIn[t] = "live"
    BY <1>6, DeletedDead DEF Ambiguous, TypeOK
  <2>2. Repeat(e, TRUE, TRUE)
    BY <1>6 DEF Ambiguous
  <2>3. UNCHANGED <<rows, map, adopted, settled, landed>>
    BY <1>6 DEF Ambiguous
  <2> QED
    BY <1>0, <2>1, <2>2, <2>3, RepeatUndisturbed, UnlockKeeps DEF Undisturbed
<1>7. CASE Commit(e)
  <2>1. pc[f] # "ask" /\ (landed' = {} => landed = {} /\ map \subseteq map')
    BY <1>7, EraseUndisturbed DEF Commit
  <2> QED
    BY <1>7, <2>1 DEF Commit, NoPlan, Undisturbed, TypeOK
<1>8. CASE CommitFails(e)
  <2>1. pc[f] # "ask" /\ (landed' = {} => landed = {} /\ map \subseteq map')
    BY <1>8, EraseUndisturbed DEF CommitFails
  <2>2. \E transient \in BOOLEAN : Repeat(e, transient, FALSE)
    BY <1>8 DEF CommitFails
  <2>3. UNCHANGED <<signIn, settled>>
    BY <1>8 DEF CommitFails
  <2> QED
    BY <2>1, <2>2, <2>3, RepeatUndisturbed DEF Undisturbed
<1>9. CASE SignInOnly(e)
  <2>1. NamedBy[e] \in Subjects
    BY <1>9, NamedType DEF SignInOnly, ErasureInv, Sane, LooksUpNamed
  <2>2. \A t \in Subjects : signIn'[t] = "live" => signIn[t] = "live"
    BY <1>9, <2>1, DeletedDead DEF SignInOnly
  <2> QED
    BY <1>9, <2>2 DEF SignInOnly, Undisturbed, TypeOK
<1>10. CASE Crash(e)
  BY <1>0, <1>10, UnlockKeeps DEF Crash, NoPlan, Undisturbed, TypeOK
<1> QED
  BY <1>1, <1>2, <1>3, <1>4, <1>5, <1>6, <1>7, <1>8, <1>9, <1>10 DEF Step

(* An erasure whose transaction is over, or goes on under the same locks.  *)
LEMMA OverFirm ==
    ASSUME TypeOK, NEW e \in Erasers, Firm(e), pc'[e] # "ask", todo'[e] = {}, settled'[e] = settled[e],
           \A t \in Subjects : signIn'[t] = "live" => signIn[t] = "live",
           landed' = {} => landed = {} /\ map \subseteq map',
           pc'[e] \in {"begin", "lock"} => pc[e] \in {"begin", "lock", "ask"}
    PROVE  Firm(e)'
<1>1. HoldsLocks(e)' /\ SeesAll(e)'
  BY DEF HoldsLocks, SeesAll
<1>2. SettledDead(e)'
  BY DEF Firm, SettledDead, TypeOK
<1>3. OldFormFirst(e)'
  BY DEF Firm, OldFormFirst
<1> QED
  BY <1>1, <1>2, <1>3 DEF Firm

LEMMA RepeatOver ==
    ASSUME TypeOK, NEW e \in Erasers, NEW again, NEW unclear \in BOOLEAN, Repeat(e, again, unclear)
    PROVE  pc'[e] # "ask" /\ pc'[e] # "lock" /\ todo'[e] = {}
  BY DEF Repeat, GiveUp, NoPlan, TypeOK

LEMMA ActorFirm ==
    ASSUME TypeOK, ErasureInv, LockInv, NEW e \in Erasers, Start(e) \/ Step(e)
    PROVE  Firm(e)'
<1> USE DEF world, plan, told, doubt
<1>0. Firm(e)
  BY DEF LockInv
<1>1. CASE Start(e) \/ Lookup(e) \/ Read(e)
  <2>1. pc'[e] # "ask" /\ UNCHANGED <<todo, settled, signIn, landed, map>>
    BY <1>1 DEF Start, Lookup, Read, TypeOK
  <2>2. HoldsLocks(e)' /\ SeesAll(e)' /\ SettledDead(e)'
    BY <1>0, <2>1 DEF Firm, HoldsLocks, SeesAll, SettledDead
  <2>3. OldFormFirst(e)'
    BY <1>0, <1>1, <2>1 DEF Start, Lookup, Read, TypeOK, Firm, OldFormFirst
  <2> QED
    BY <2>2, <2>3 DEF Firm
<1>2. CASE Lock(e)
  <2>1. /\ pc'[e] = "ask" /\ todo'[e] = ToAsk(e) /\ linked'[e] = adopted
        /\ gone'[e] = rows \cap ({Player, Settings} \cup adopted)
        /\ \A p \in {Player} \cup adopted : locks'[p] = e
        /\ UNCHANGED <<settled, signIn, landed, map, adopted, rows>>
    BY <1>2 DEF Lock, SameSet, TypeOK, People
  <2>2. HoldsLocks(e)' /\ SettledDead(e)'
    BY <1>0, <2>1 DEF Firm, HoldsLocks, SettledDead
  <2>3. SeesAll(e)'
    BY <2>1 DEF SeesAll, ToAsk
  <2>4. OldFormFirst(e)'
    BY <1>0, <1>2, <2>1 DEF Lock, Firm, OldFormFirst, ToAsk
  <2> QED
    BY <2>2, <2>3, <2>4 DEF Firm
<1>3. CASE IdentitySetChanged(e) \/ DatabaseFails(e)
  <2>1. PICK again \in BOOLEAN, unclear \in BOOLEAN : Repeat(e, again, unclear)
    BY <1>3 DEF IdentitySetChanged, DatabaseFails, TypeOK
  <2>2. pc[e] \in {"begin", "lock", "ask"} /\ UNCHANGED <<settled, signIn, landed, map>>
    BY <1>3 DEF IdentitySetChanged, DatabaseFails
  <2> QED
    BY <1>0, <2>1, <2>2, RepeatOver, OverFirm
<1>4. CASE Settle(e)
  <2>1. PICK s \in todo[e] : /\ Deleted(e, s)
                             /\ settled' = [settled EXCEPT ![e] = @ \cup {s}]
                             /\ todo' = [todo EXCEPT ![e] = @ \ {s}]
    BY <1>4 DEF Settle
  <2>2. s \in Subjects /\ settled'[e] = settled[e] \cup {s} /\ todo'[e] = todo[e] \ {s}
    BY <2>1 DEF TypeOK
  <2>3. signIn'[s] # "live" /\ \A t \in Subjects : signIn'[t] = "live" => signIn[t] = "live"
    BY <2>1, <2>2, DeletedDead
  <2>4. UNCHANGED <<pc, locks, linked, gone, rows, map, adopted, landed>>
    BY <1>4 DEF Settle
  <2>5. HoldsLocks(e)' /\ SeesAll(e)'
    BY <1>0, <2>2, <2>4 DEF Firm, HoldsLocks, SeesAll
  <2>6. SettledDead(e)'
    BY <1>0, <2>2, <2>3 DEF Firm, SettledDead, TypeOK
  <2>7. OldFormFirst(e)'
    BY <1>0, <2>1, <2>2, <2>4 DEF Firm, OldFormFirst
  <2> QED
    BY <2>5, <2>6, <2>7 DEF Firm
<1>5. CASE Refused(e)
  <2>1. /\ pc'[e] \in {"refused", "unconfirmed"} /\ todo'[e] = {}
        /\ UNCHANGED <<settled, signIn, landed, map>>
    BY <1>5 DEF Refused, NoPlan, TypeOK
  <2> QED
    BY <1>0, <2>1, OverFirm
<1>6. CASE Ambiguous(e)
  <2>1. \A t \in Subjects : signIn'[t] = "live" => signIn[t] = "live"
    BY <1>6, DeletedDead DEF Ambiguous, TypeOK
  <2>2. Repeat(e, TRUE, TRUE) /\ pc[e] = "ask" /\ UNCHANGED <<settled, landed, map>>
    BY <1>6 DEF Ambiguous
  <2> QED
    BY <1>0, <2>1, <2>2, RepeatOver, OverFirm
<1>7. CASE Commit(e)
  <2>1. pc'[e] = "erased" /\ todo'[e] = {} /\ landed' # {} /\ UNCHANGED <<settled, signIn>>
    BY <1>7 DEF Commit, Erase, NoPlan, TypeOK
  <2> QED
    BY <1>0, <2>1, OverFirm
<1>8. CASE CommitFails(e)
  <2>1. PICK transient \in BOOLEAN : Repeat(e, transient, FALSE)
    BY <1>8 DEF CommitFails
  <2>2. pc[e] = "ask" /\ UNCHANGED <<settled, signIn>> /\ (landed' = {} => landed = {} /\ map \subseteq map')
    BY <1>8 DEF CommitFails, Erase
  <2> QED
    BY <1>0, <2>1, <2>2, RepeatOver, OverFirm
<1>9. CASE SignInOnly(e)
  <2>1. NamedBy[e] \in Subjects
    BY <1>9, NamedType DEF SignInOnly, ErasureInv, Sane, LooksUpNamed
  <2>2. \A t \in Subjects : signIn'[t] = "live" => signIn[t] = "live"
    BY <1>9, <2>1, DeletedDead DEF SignInOnly
  <2>3. pc'[e] \in {"signInOnly", "refused", "unconfirmed"} /\ UNCHANGED <<todo, settled, landed, map>>
    BY <1>9 DEF SignInOnly, TypeOK
  <2>4. HoldsLocks(e)' /\ SeesAll(e)'
    BY <2>3 DEF HoldsLocks, SeesAll
  <2>5. SettledDead(e)' /\ OldFormFirst(e)'
    BY <1>0, <2>2, <2>3 DEF Firm, SettledDead, OldFormFirst, TypeOK
  <2> QED
    BY <2>4, <2>5 DEF Firm
<1>10. CASE Crash(e)
  <2>1. pc'[e] = "crashed" /\ todo'[e] = {} /\ UNCHANGED <<settled, signIn, landed, map>>
    BY <1>10 DEF Crash, NoPlan, TypeOK
  <2> QED
    BY <1>0, <2>1, OverFirm
<1> QED
  BY <1>1, <1>2, <1>3, <1>4, <1>5, <1>6, <1>7, <1>8, <1>9, <1>10 DEF Step

LEMMA LockStep == TypeOK /\ ErasureInv /\ LockInv /\ [Next]_vars => LockInv'
<1> SUFFICES ASSUME TypeOK, ErasureInv, LockInv, [Next]_vars, NEW f \in Erasers PROVE Firm(f)'
  BY DEF LockInv
<1>1. CASE \E e \in Erasers : Start(e) \/ Step(e)
  BY <1>1, OthersUndisturbed, ActorFirm, UndisturbedFirm DEF LockInv
<1>2. CASE \/ \E s \in Subjects : Verify(s) \/ Link(s)
           \/ \E g \in Guests : Adopt(g)
           \/ Expire \/ Play \/ SavePreferences \/ UNCHANGED vars
  BY <1>2, WorldUndisturbed, UndisturbedFirm DEF LockInv
<1> QED
  BY <1>1, <1>2 DEF Next

LEMMA LockInvCorrect == Spec => [](TypeOK /\ ErasureInv /\ LockInv)
<1>1. Init => LockInv
  BY LockInit
<1>2. TypeOK /\ ErasureInv /\ LockInv /\ [Next]_vars => LockInv'
  BY LockStep
<1> QED
  BY <1>1, <1>2, ErasureInvCorrect, PTL DEF Spec

(* At the commit: what it saw is what there is.                            *)
LEMMA CommitErases ==
    ASSUME TypeOK, ErasureInv, LockInv, NEW e \in Erasers, pc[e] = "ask", AllAsked(e), Erase(e), signIn' = signIn
    PROVE  /\ \A s \in Naming : signIn'[s] # "live"
           /\ rows' \cap ({Player} \cup adopted) = {}
<1>1. map \subseteq settled[e] /\ rows \cap ({Player} \cup adopted) \subseteq gone[e]
  BY DEF LockInv, Firm, SeesAll, AllAsked
<1>2. settled[e] # {}
  BY DEF ErasureInv, Sane, CommitsSettled, AllAsked
<1>3. Naming \subseteq settled[e]
  BY <1>1, <1>2 DEF LockInv, Firm, OldFormFirst, Naming
<1>4. \A s \in settled[e] : signIn[s] # "live"
  BY DEF LockInv, Firm, SettledDead
<1> QED
  BY <1>1, <1>3, <1>4 DEF Erase

LEMMA ErasedStep ==
    ASSUME TypeOK, ErasureInv, LockInv, [Next]_vars, NEW e \in Erasers, e \in landed', e \notin landed
    PROVE  /\ \A s \in Naming : signIn'[s] # "live"
           /\ rows' \cap ({Player} \cup adopted) = {}
<1> USE DEF plan, told, doubt
<1>1. ASSUME \/ \E s \in Subjects : Verify(s) \/ Link(s)
             \/ \E g \in Guests : Adopt(g)
             \/ Expire \/ Play \/ SavePreferences \/ UNCHANGED vars
      PROVE  landed' = landed
  BY <1>1 DEF Verify, Link, Adopt, Expire, Play, SavePreferences, eraserVars, vars
<1>2. \A f \in Erasers : Start(f) \/ Step(f) => landed' = landed \/ Commit(f) \/ CommitFails(f)
  BY DEF Start, Step, Lookup, Read, Lock, IdentitySetChanged, DatabaseFails, Settle, Refused, Ambiguous, SignInOnly, Crash
<1>3. PICK f \in Erasers : Commit(f) \/ CommitFails(f)
  BY <1>1, <1>2 DEF Next
<1>4. pc[f] = "ask" /\ AllAsked(f) /\ signIn' = signIn /\ (Erase(f) \/ landed' = landed)
  BY <1>3 DEF Commit, CommitFails
<1>5. Erase(f)
  BY <1>4
<1> QED
  BY <1>4, <1>5, CommitErases

(* Every variable keeps its type, however erasures overlap and fail.       *)
THEOREM TypeCorrect == Spec => []TypeOK
  BY ErasureInvCorrect, PTL

(* Whoever is told that account and sign-in are whole has lost neither: no *)
(* attempt of that erasure deleted a sign-in, and no commit took effect.   *)
THEOREM ToldWholeIsWholeCorrect == Spec => []ToldWholeIsWhole
<1>1. ErasureInv => ToldWholeIsWhole
  BY DEF ErasureInv, Sane, ToldRight, ToldWholeIsWhole
<1> QED
  BY <1>1, ErasureInvCorrect, PTL

(* Every other failure names each subject it may have deleted.             *)
THEOREM DeletedAreNamedCorrect == Spec => []DeletedAreNamed
<1>1. ErasureInv => DeletedAreNamed
  BY DEF ErasureInv, Sane, DeletedNamed, DeletedAreNamed
<1> QED
  BY <1>1, ErasureInvCorrect, PTL

(* A commit that takes effect leaves no sign-in of the player alive and no *)
(* rows of the player or its guests, whatever was linked, adopted, played  *)
(* or erased meanwhile: none of it can happen under the erasure's locks.   *)
THEOREM ErasedWholeCorrect == Spec => ErasedWhole
<1>1. TypeOK /\ ErasureInv /\ LockInv /\ [Next]_vars =>
        [\A e \in Erasers : (e \in landed' /\ e \notin landed) =>
           /\ \A s \in Naming : signIn'[s] # "live"
           /\ rows' \cap ({Player} \cup adopted) = {}]_vars
  BY ErasedStep
<1> QED
  BY <1>1, LockInvCorrect, PTL DEF Spec, ErasedWhole
==============================================================================
