--------------------------- MODULE AccountErasure ---------------------------
(***************************************************************************)
(* Erasing a person: the player's rows here, those of the guests it adopted, *)
(* the map of Auth subjects that name it, and the sign-ins at Auth.          *)
(*                                                                         *)
(* One transaction locks the identity set, deletes, asks Auth to delete each *)
(* subject and commits.  Database failures and unclear answers of Auth repeat *)
(* it a few times; the answer says what may have happened to the sign-in.    *)
(* In-app erasures and the operator's erase-player run together with sign-ins, *)
(* adoptions, plays and preference writes of the same person; only the last   *)
(* take no lock.  Locks are granted all at once here: module GuestIdentity    *)
(* shows how they are taken one by one.                                      *)
(***************************************************************************)
EXTENDS Integers, FiniteSets

CONSTANTS
  Player,     \* the account's player id
  Guests,     \* guest players its browsers may have
  Settings,   \* the account's rows that are written without its lock
  Subjects,   \* Auth subjects that may name the player
  OldForm,    \* principal-<Player>
  None,
  Erasers,    \* runs of erase_player
  NamedBy,    \* the subject an operator gives, None for an in-app erasure
  Attempts    \* ATTEMPTS

ASSUME ErasureAssumption ==
  /\ Player \notin Guests
  /\ Settings \notin Guests \cup {Player}
  /\ OldForm \in Subjects
  /\ None \notin Subjects \cup Erasers
  /\ NamedBy \in [Erasers -> Subjects \cup {None}]
  /\ Attempts \in Nat \ {0}

People == {Player} \cup Guests
Rows == People \cup {Settings}

VARIABLES
  rows,      \* people who have rows written under their lock, and Settings
  map,       \* auth_subjects: the subjects that name Player
  adopted,   \* guest_credentials: guests adopted by Player
  signIn,    \* Auth: live, deleted or absent
  verified,  \* subjects whose session was verified and not yet linked
  session,   \* a session of the account is accepted: fresh or from the cache
  locks,     \* advisory locks: the eraser that holds a person's, or None
  pc,        \* where an eraser is; at the end its answer
  attempt,   \* which repetition it is at
  linked,    \* guests it read before locking
  gone,      \* rows its statements found and deleted, not yet committed
  todo,      \* subjects it has still to ask Auth for
  settled,   \* subjects Auth accepted or holds no more
  asked,     \* subjects it named to Auth
  unsure,    \* auth_unconfirmed: its last failure was an unclear answer
  everUnsure,\* ever_ambiguous
  deletedBy, \* history: <<eraser, subject>> sign-ins its requests deleted
  landed     \* history: erasers whose commit took effect

world == <<rows, map, adopted, signIn, verified, session>>
plan == <<linked, gone, todo>>
told == <<settled, asked, deletedBy>>
doubt == <<unsure, everUnsure>>
vars == <<world, locks, pc, attempt, plan, told, doubt, landed>>

Working == {"begin", "lock", "ask", "commit", "lookup", "only"}
\* An error that leaves the person whole, one that may not, and success.
Answers == {"erased", "refused", "retry", "unconfirmed", "database", "signInOnly", "crashed"}

TypeOK ==
  /\ rows \subseteq Rows /\ session \in BOOLEAN /\ map \subseteq Subjects /\ adopted \subseteq Guests
  /\ signIn \in [Subjects -> {"live", "deleted", "absent"}]
  /\ verified \subseteq Subjects
  /\ locks \in [People -> Erasers \cup {None}]
  /\ pc \in [Erasers -> {"idle"} \cup Working \cup Answers]
  /\ attempt \in [Erasers -> 1 .. Attempts]
  /\ linked \in [Erasers -> SUBSET Guests]
  /\ gone \in [Erasers -> SUBSET Rows]
  /\ todo \in [Erasers -> SUBSET Subjects]
  /\ settled \in [Erasers -> SUBSET Subjects]
  /\ asked \in [Erasers -> SUBSET Subjects]
  /\ unsure \in [Erasers -> BOOLEAN] /\ everUnsure \in [Erasers -> BOOLEAN]
  /\ deletedBy \subseteq Erasers \X Subjects
  /\ landed \subseteq Erasers

\* A player without a map row signed in before the map, by the old form.
Init ==
  /\ rows \in {People, Rows}
  /\ map \in SUBSET Subjects
  /\ adopted = {}
  /\ signIn \in [Subjects -> {"live", "absent"}]
  /\ \A s \in IF map = {} THEN {OldForm} ELSE map : signIn[s] = "live"
  /\ verified = {}
  /\ session \in BOOLEAN
  /\ locks = [p \in People |-> None]
  /\ pc = [e \in Erasers |-> "idle"]
  /\ attempt = [e \in Erasers |-> 1]
  /\ linked = [e \in Erasers |-> {}]
  /\ gone = [e \in Erasers |-> {}]
  /\ todo = [e \in Erasers |-> {}]
  /\ settled = [e \in Erasers |-> {}]
  /\ asked = [e \in Erasers |-> {}]
  /\ unsure = [e \in Erasers |-> FALSE]
  /\ everUnsure = [e \in Erasers |-> FALSE]
  /\ deletedBy = {}
  /\ landed = {}

-----------------------------------------------------------------------------
(* The person's other requests.  Each takes its locks for one transaction.    *)

eraserVars == <<locks, pc, attempt, plan, told, doubt, landed>>

Free(people) == \A p \in people : locks[p] = None

\* Auth confirms a live session; the player is linked a moment later.
Verify(s) ==
  /\ signIn[s] = "live" /\ s \notin map
  /\ verified' = verified \cup {s}
  /\ verified' # verified
  /\ UNCHANGED <<rows, map, adopted, signIn, session, eraserVars>>

\* player_for links the subject to the player its older form named.
Link(s) ==
  /\ s \in verified
  /\ Free({Player})
  /\ map' = map \cup {s}
  /\ verified' = verified \ {s}
  /\ session' = TRUE
  /\ UNCHANGED <<rows, adopted, signIn, eraserVars>>

\* The cached session is dropped and Auth no longer confirms it.
Expire ==
  /\ session
  /\ session' = FALSE
  /\ UNCHANGED <<rows, map, adopted, signIn, verified, eraserVars>>

\* A submit of the account, under its lock.
Play ==
  /\ session
  /\ Player \notin rows
  /\ Free({Player})
  /\ rows' = rows \cup {Player}
  /\ UNCHANGED <<map, adopted, signIn, verified, session, eraserVars>>

\* A preference is upserted without a lock: over a row that an erasure deletes it
\* waits for the erasure's end, otherwise it inserts at once.
SavePreferences ==
  /\ session
  /\ Settings \notin rows
  /\ rows' = rows \cup {Settings}
  /\ UNCHANGED <<map, adopted, signIn, verified, session, eraserVars>>

\* account_backed.
Backed == map # {} \/ adopted # {} \/ Settings \in rows

\* The account adopts a guest: its rows move.
Adopt(g) ==
  /\ session /\ Backed
  /\ g \notin adopted
  /\ Free({Player, g})
  /\ adopted' = adopted \cup {g}
  /\ rows' \in {IF g \in rows THEN rows \cup {Player} ELSE rows,
                IF g \in rows THEN (rows \ {g}) \cup {Player} ELSE rows}
  /\ UNCHANGED <<map, signIn, verified, session, eraserVars>>

-----------------------------------------------------------------------------
(* erase_player.  A definition whose name begins with Bad is a faulty variant *)
(* of the one after it: it shows which property that fault breaks.            *)

Locked(e) == {p \in People : locks[p] = e}
Unlock(e) == [p \in People |-> IF locks[p] = e THEN None ELSE locks[p]]

\* The answer when the attempts are used up or the database refuses.
GiveUp(e, unclear) ==
  IF unclear THEN "unconfirmed" ELSE IF asked[e] # {} THEN "database" ELSE "retry"

Again(e, again) == again /\ attempt[e] < Attempts

\* The transaction is over.
NoPlan(e) ==
  /\ linked' = [linked EXCEPT ![e] = {}]
  /\ gone' = [gone EXCEPT ![e] = {}]
  /\ todo' = [todo EXCEPT ![e] = {}]

\* The transaction is over without success: again, or the answer.
Repeat(e, again, unclear) ==
  /\ unsure' = [unsure EXCEPT ![e] = unclear]
  /\ locks' = Unlock(e)
  /\ NoPlan(e)
  /\ IF Again(e, again)
     THEN attempt' = [attempt EXCEPT ![e] = @ + 1] /\ pc' = [pc EXCEPT ![e] = "begin"]
     ELSE UNCHANGED attempt /\ pc' = [pc EXCEPT ![e] = GiveUp(e, unclear)]

Start(e) ==
  /\ pc[e] = "idle"
  /\ pc' = [pc EXCEPT ![e] = IF NamedBy[e] = None THEN "begin" ELSE "lookup"]
  /\ UNCHANGED <<world, locks, attempt, plan, told, doubt, landed>>

\* erase-player: known_player, by the map or the old form.
Lookup(e) ==
  /\ pc[e] = "lookup"
  /\ pc' = [pc EXCEPT ![e] =
       IF NamedBy[e] \in map \cup {OldForm} THEN "begin" ELSE "only"]
  /\ UNCHANGED <<world, locks, attempt, plan, told, doubt, landed>>

\* erase_once reads the adopted guests, then locks all of them.
Read(e) ==
  /\ pc[e] = "begin"
  /\ linked' = [linked EXCEPT ![e] = adopted]
  /\ pc' = [pc EXCEPT ![e] = "lock"]
  /\ UNCHANGED <<world, locks, attempt, gone, todo, told, doubt, landed>>

\* The guests read before the locks are not read again.
BadSameSet(e) == TRUE

SameSet(e) == linked[e] = adopted

\* What Auth is asked to delete: every recorded subject, else the old form, and
\* the one the operator named.
ToAsk(e) ==
  ((IF map = {} /\ settled[e] = {} THEN {OldForm} ELSE map) \cup ({NamedBy[e]} \ {None}))
    \ settled[e]

\* The identity set is locked and unchanged; the rows the statements find are
\* deleted, unseen by others until the commit.
Lock(e) ==
  /\ pc[e] = "lock"
  /\ Free({Player} \cup linked[e])
  /\ SameSet(e)
  /\ locks' = [p \in People |-> IF p \in {Player} \cup linked[e] THEN e ELSE locks[p]]
  /\ gone' = [gone EXCEPT ![e] = rows \cap ({Player, Settings} \cup linked[e])]
  /\ todo' = [todo EXCEPT ![e] = ToAsk(e)]
  /\ pc' = [pc EXCEPT ![e] = "ask"]
  /\ UNCHANGED <<world, attempt, linked, told, doubt, landed>>

IdentitySetChanged(e) ==
  /\ pc[e] = "lock"
  /\ Free({Player} \cup linked[e])
  /\ ~SameSet(e)
  /\ Repeat(e, TRUE, unsure[e])
  /\ UNCHANGED <<world, told, everUnsure, landed>>

\* A statement fails before Auth is asked, or between two subjects.
DatabaseFails(e) ==
  /\ pc[e] \in {"begin", "lock", "ask"}
  /\ \E transient \in BOOLEAN : Repeat(e, transient, FALSE)
  /\ UNCHANGED <<world, told, everUnsure, landed>>

\* What Auth's deletion does at Auth when it is carried out.
Deleted(e, s) ==
  /\ signIn' = IF signIn[s] = "live" THEN [signIn EXCEPT ![s] = "deleted"] ELSE signIn
  /\ deletedBy' = IF signIn[s] = "live" THEN deletedBy \cup {<<e, s>>} ELSE deletedBy

\* The subject is remembered only when Auth answers that it is done.
BadNamed(e, s, done) == IF done THEN asked[e] \cup {s} ELSE asked[e]

Named(e, s, done) == asked[e] \cup {s}

\* Auth accepted, or holds no such account.
Settle(e) ==
  /\ pc[e] = "ask"
  /\ \E s \in todo[e] :
       /\ Deleted(e, s)
       /\ settled' = [settled EXCEPT ![e] = @ \cup {s}]
       /\ asked' = [asked EXCEPT ![e] = Named(e, s, TRUE)]
       /\ todo' = [todo EXCEPT ![e] = @ \ {s}]
  /\ UNCHANGED <<rows, map, adopted, verified, session, locks, pc, attempt, linked, gone, doubt,
                 landed>>

\* An earlier unclear answer is forgotten.
BadWhole(e) == settled[e] = {}

\* Nothing can have been deleted when a refusal comes.
Whole(e) == settled[e] = {} /\ ~everUnsure[e]

\* Auth refuses: the rows are rolled back and the erasure ends.
Refused(e) ==
  /\ pc[e] = "ask"
  /\ \E s \in todo[e] : asked' = [asked EXCEPT ![e] = Named(e, s, FALSE)]
  /\ pc' = [pc EXCEPT ![e] = IF Whole(e) THEN "refused" ELSE "unconfirmed"]
  /\ locks' = Unlock(e)
  /\ NoPlan(e)
  /\ UNCHANGED <<world, attempt, settled, deletedBy, doubt, landed>>

\* Auth does not answer, or not clearly; it may have deleted the sign-in.
Ambiguous(e) ==
  /\ pc[e] = "ask"
  /\ \E s \in todo[e] :
       /\ Deleted(e, s) \/ UNCHANGED <<signIn, deletedBy>>
       /\ asked' = [asked EXCEPT ![e] = Named(e, s, FALSE)]
  /\ everUnsure' = [everUnsure EXCEPT ![e] = TRUE]
  /\ Repeat(e, TRUE, TRUE)
  /\ UNCHANGED <<rows, map, adopted, verified, session, settled, landed>>

\* The deletes take effect.
Erase(e) ==
  /\ rows' = rows \ gone[e]
  /\ map' = {}
  /\ adopted' = {}
  /\ landed' = landed \cup {e}

AllAsked(e) == todo[e] = {}

Commit(e) ==
  /\ pc[e] = "ask" /\ AllAsked(e)
  /\ Erase(e)
  /\ locks' = Unlock(e)
  /\ pc' = [pc EXCEPT ![e] = "erased"]
  /\ NoPlan(e)
  /\ UNCHANGED <<signIn, verified, session, attempt, told, doubt>>

\* The commit fails, or its answer is lost after it took effect.
CommitFails(e) ==
  /\ pc[e] = "ask" /\ AllAsked(e)
  /\ Erase(e) \/ UNCHANGED <<rows, map, adopted, landed>>
  /\ \E transient \in BOOLEAN : Repeat(e, transient, FALSE)
  /\ UNCHANGED <<signIn, verified, session, told, everUnsure>>

\* erase-player for a subject no row names: only the sign-in can be left.
SignInOnly(e) ==
  /\ pc[e] = "only"
  /\ asked' = [asked EXCEPT ![e] = {NamedBy[e]}]
  /\ \/ /\ Deleted(e, NamedBy[e])
        /\ pc' = [pc EXCEPT ![e] = "signInOnly"]
     \/ /\ UNCHANGED <<signIn, deletedBy>>
        /\ pc' = [pc EXCEPT ![e] = "refused"]
     \/ /\ Deleted(e, NamedBy[e]) \/ UNCHANGED <<signIn, deletedBy>>
        /\ pc' = [pc EXCEPT ![e] = "unconfirmed"]
  /\ UNCHANGED <<rows, map, adopted, verified, session, locks, attempt, plan, settled, doubt,
                 landed>>

\* The process dies: the transaction is rolled back, and nobody is answered.
Crash(e) ==
  /\ pc[e] \in Working
  /\ pc' = [pc EXCEPT ![e] = "crashed"]
  /\ locks' = Unlock(e)
  /\ NoPlan(e)
  /\ UNCHANGED <<world, attempt, told, doubt, landed>>

Step(e) ==
  \/ Lookup(e) \/ Read(e) \/ Lock(e) \/ IdentitySetChanged(e) \/ DatabaseFails(e)
  \/ Settle(e) \/ Refused(e) \/ Ambiguous(e) \/ Commit(e) \/ CommitFails(e)
  \/ SignInOnly(e) \/ Crash(e)

Next ==
  \/ \E s \in Subjects : Verify(s) \/ Link(s)
  \/ \E g \in Guests : Adopt(g)
  \/ Expire \/ Play \/ SavePreferences
  \/ \E e \in Erasers : Start(e) \/ Step(e)

Spec == Init /\ [][Next]_vars

-----------------------------------------------------------------------------
(* Properties.                                                               *)

\* "Refused" and "retry" are told to the person as: your account and sign-in are
\* whole, ask again.  No request of that erasure has deleted a sign-in, through
\* any of its attempts, and none of its commits took effect.
ToldWholeIsWhole ==
  \A e \in Erasers : pc[e] \in {"refused", "retry"} =>
    /\ e \notin landed
    /\ \A s \in Subjects : <<e, s>> \notin deletedBy

\* An answer other than success names every subject that erasure may have
\* deleted, for the operator to finish with.
DeletedAreNamed ==
  \A e \in Erasers : pc[e] \in {"unconfirmed", "database"} =>
    \A s \in Subjects : <<e, s>> \in deletedBy => s \in asked[e]

\* Subjects that name a player not yet erased.
Naming == IF map # {} THEN map ELSE IF landed = {} THEN {OldForm} ELSE {}

\* No live sign-in is left on an empty account, nor games on an erased person:
\* when a commit takes effect, every subject that named the player is dead at
\* Auth, and neither it nor a guest it adopted keeps rows written under a lock.
ErasedWhole ==
  [][\A e \in Erasers : (e \in landed' /\ e \notin landed) =>
       /\ \A s \in Naming : signIn'[s] # "live"
       /\ rows' \cap ({Player} \cup adopted) = {}]_vars
=============================================================================
