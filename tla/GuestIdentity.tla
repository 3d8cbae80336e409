--------------------------- MODULE GuestIdentity ---------------------------
(***************************************************************************)
(* Who a finish belongs to.                                                *)
(*                                                                         *)
(* The api knows two kinds of player: an account (a Sylphx Auth subject    *)
(* linked in auth_subjects) and a guest (a browser token registered in     *)
(* guest_credentials).  One request may carry both, and then the guest's   *)
(* finishes are adopted onto the account.  A request is one database       *)
(* transaction: token advisory lock, player advisory locks in key order,   *)
(* reads and decisions, then one commit.  Several requests, of several api *)
(* processes, run at once; each may be cut off at any step.                *)
(*                                                                         *)
(* A request here is one of                                                *)
(*   "submit"  SubmitGuess: allocate a guest, adopt, record a finish;      *)
(*   "read"    any admitted read (GetDaily, progress, stats): adopt only;  *)
(*   "claim"   the one-time claim of a legacy raw player id by a token;    *)
(*   "signin"  player_for: link an Auth subject to its player.             *)
(*                                                                         *)
(* Players are numbers so that they have the order in which their advisory *)
(* lock keys are taken.  A finish is named by the request that recorded it *)
(* (OldFinishes are rows older than the credential registry).              *)
(***************************************************************************)
EXTENDS Integers, FiniteSets

CONSTANTS
  Tokens,        \* browser cookies (token hashes)
  Players,       \* uuids, in the order of their advisory lock keys
  Subjects,      \* Sylphx Auth subjects
  Requests,      \* requests; each is made once
  Puzzles,       \* stored daily puzzles
  OldFinishes,   \* rows of players from before the registry
  None,          \* SQL NULL
  Ops,           \* the kinds of request that arrive
  SlotOf,        \* the (game, product day) of a puzzle
  DayOf,         \* the product day of such a slot
  MaxDay,        \* last product day reached (bound of the clock)
  AllocIds,      \* uuids an allocation may draw: the code checks each one
  SpareIds,      \* uuids nobody else holds or draws (UUIDv7 is unique)
  Formerly,      \* the subject an Auth subject replaced, or None
  OldForm,       \* the uuid inside an old-form subject, or None
  Linked,        \* auth_subjects at the start
  OldOwner,      \* owner of each row of OldFinishes at the start
  OldPuzzle      \* its puzzle

Finishes == Requests \cup OldFinishes
MaybePlayer == Players \cup {None}
MaybeToken == Tokens \cup {None}

ASSUME PlayersAssumption == Players \subseteq Nat /\ IsFiniteSet(Players)
ASSUME NoneAssumption ==
  None \notin Players \cup Tokens \cup Subjects \cup Puzzles \cup Requests
ASSUME FinishAssumption == Requests \cap OldFinishes = {}
ASSUME DrawAssumption ==
  /\ AllocIds \subseteq Players
  /\ SpareIds \subseteq Players
  /\ AllocIds \cap SpareIds = {}
ASSUME TableAssumption ==
  /\ Ops \subseteq {"submit", "read", "claim", "signin"}
  /\ MaxDay \in Nat
  /\ DayOf \in [{SlotOf[z] : z \in Puzzles} -> Nat]
  /\ Formerly \in [Subjects -> Subjects \cup {None}]
  /\ OldForm \in [Subjects -> MaybePlayer]
  /\ Linked \in [Subjects -> MaybePlayer]
  /\ OldOwner \in [OldFinishes -> Players]
  /\ OldPuzzle \in [OldFinishes -> Puzzles]
\* Spare uuids are in no table and in no subject.
ASSUME SpareAssumption ==
  /\ \A s \in Subjects : Linked[s] \notin SpareIds /\ OldForm[s] \notin SpareIds
  /\ \A f \in OldFinishes : OldOwner[f] \notin SpareIds
\* The tables start without two rows of one player for one puzzle or ritual.
ASSUME OldRowsAssumption ==
  \A f, h \in OldFinishes : f # h /\ OldOwner[f] = OldOwner[h] =>
    SlotOf[OldPuzzle[f]] # SlotOf[OldPuzzle[h]]
\* Auth replaces subjects of the old form, which hold a uuid, by new ones, once;
\* nobody is split over two players at the start.
ASSUME MigrationAssumption ==
  \A s \in Subjects : Formerly[s] # None =>
    /\ Formerly[Formerly[s]] = None
    /\ OldForm[Formerly[s]] # None
    /\ Linked[s] \in {None, IF Linked[Formerly[s]] # None THEN Linked[Formerly[s]]
                            ELSE OldForm[Formerly[s]]}

VARIABLES
  holder,      \* guest_credentials.user_id of a token's row, None without a row
  adopter,     \* guest_credentials.adopted_user_id of that row
  subject,     \* auth_subjects: the player a subject signs in as
  owner,       \* game_sessions.user_id of a finish, None while there is no row
  origin,      \* game_sessions.adopted_from_guest
  puzzle,      \* game_sessions.puzzle_id
  ritual,      \* game_sessions.is_ritual (then day_key is the slot's day)
  today,       \* the product day
  tokenLock,   \* who holds the advisory lock of a token
  playerLock,  \* who holds the advisory lock of a player
  pc,          \* where a request is
  job,         \* what it asks: op, token, player, subject and the legacy
               \* subject Auth reports with it, day of arrival
  cand,        \* the guest (or new) player it found or drew
  allocate,    \* whether cand is drawn for a first guest write
  plan         \* what its transaction has written and not yet committed

tables == <<holder, adopter, subject, owner, origin, puzzle, ritual>>
locks == <<tokenLock, playerLock>>
vars == <<tables, today, locks, pc, job, cand, allocate, plan>>

NoJob == [op |-> "none", token |-> None, player |-> None,
          subject |-> None, legacy |-> None, day |-> 0]
NoPlan == [uid |-> None, adopt |-> FALSE, moves |-> {},
           puzzle |-> None, ritual |-> FALSE]

Ended == {"accepted", "refused", "conflict", "failed"}

TypeOK ==
  /\ holder \in [Tokens -> MaybePlayer]
  /\ adopter \in [Tokens -> MaybePlayer]
  /\ subject \in [Subjects -> MaybePlayer]
  /\ owner \in [Finishes -> MaybePlayer]
  /\ origin \in [Finishes -> MaybePlayer]
  /\ puzzle \in [Finishes -> Puzzles \cup {None}]
  /\ ritual \in [Finishes -> BOOLEAN]
  /\ today \in Nat
  /\ tokenLock \in [Tokens -> Requests \cup {None}]
  /\ playerLock \in [Players -> Requests \cup {None}]
  /\ pc \in [Requests -> {"idle", "admit", "lock", "commit"} \cup Ended]
  /\ job \in [Requests -> [op : Ops \cup {"none"}, token : MaybeToken,
                           player : MaybePlayer,
                           subject : Subjects \cup {None},
                           legacy : Subjects \cup {None}, day : Nat]]
  /\ cand \in [Requests -> MaybePlayer]
  /\ allocate \in [Requests -> BOOLEAN]
  /\ plan \in [Requests -> [uid : MaybePlayer, adopt : BOOLEAN,
                            moves : SUBSET Finishes,
                            puzzle : Puzzles \cup {None}, ritual : BOOLEAN]]

Init ==
  /\ holder = [t \in Tokens |-> None]
  /\ adopter = [t \in Tokens |-> None]
  /\ subject = Linked
  /\ owner = [f \in Finishes |-> IF f \in OldFinishes THEN OldOwner[f] ELSE None]
  /\ origin = [f \in Finishes |-> None]
  /\ puzzle = [f \in Finishes |-> IF f \in OldFinishes THEN OldPuzzle[f] ELSE None]
  /\ ritual = [f \in Finishes |-> f \in OldFinishes]
  /\ today = 1
  /\ tokenLock = [t \in Tokens |-> None]
  /\ playerLock = [p \in Players |-> None]
  /\ pc = [r \in Requests |-> "idle"]
  /\ job = [r \in Requests |-> NoJob]
  /\ cand = [r \in Requests |-> None]
  /\ allocate = [r \in Requests |-> FALSE]
  /\ plan = [r \in Requests |-> NoPlan]

-----------------------------------------------------------------------------
(* What the tables say.  A definition whose name begins with Bad is a faulty *)
(* variant of the one after it: it shows which property that fault breaks.   *)

Guests == {holder[t] : t \in Tokens} \ {None}

\* ACCOUNT_BACKED_SQL.  The other account tables it reads are written only for
\* a signed-in player, whose auth_subjects row is older.
Backed(p) ==
  \/ \E s \in Subjects : subject[s] = p
  \/ \E t \in Tokens : adopter[t] = p

\* has_player_rows
HasRows(p) == \E f \in Finishes : owner[f] = p

\* unused_player: no account row and no row in any user-keyed column.
Unused(p) ==
  /\ ~Backed(p)
  /\ p \notin Guests
  /\ \A f \in Finishes : owner[f] # p /\ origin[f] # p

RowsOf(p) == {f \in Finishes : owner[f] = p}

\* Without the ritual index.
BadSameKey(z, isRitual, f) == puzzle[f] = z

\* The two unique indexes of game_sessions: (user, puzzle) and, for rituals,
\* (user, game, day_key).
SameKey(z, isRitual, f) ==
  \/ puzzle[f] = z
  \/ isRitual /\ ritual[f] /\ SlotOf[puzzle[f]] = SlotOf[z]

\* Any row of the same game and day counts as a twin.
BadMovableFew(guest, account) ==
  {f \in RowsOf(guest) :
     ~ \E h \in RowsOf(account) : SlotOf[puzzle[h]] = SlotOf[puzzle[f]]}

\* ADOPT_GUEST_REASSIGN_SQL: the guest's rows the account has no twin of.
Movable(guest, account) ==
  {f \in RowsOf(guest) :
     ~ \E h \in RowsOf(account) : SameKey(puzzle[f], ritual[f], h)}

\* has_completed_session (by puzzle id or by game and date) and, on the day
\* itself, has_ritual_completion, over the rows the transaction sees.
AlreadyPlayed(rows, z, day) ==
  \E f \in rows :
    \/ puzzle[f] = z
    \/ SlotOf[puzzle[f]] = SlotOf[z]
    \/ DayOf[SlotOf[z]] = day /\ ritual[f] /\ SlotOf[puzzle[f]] = SlotOf[z]

-----------------------------------------------------------------------------
(* The advisory locks of one transaction.                                  *)

Need(r) == {job[r].player, cand[r]} \ {None}
HeldBy(r) == {p \in Players : playerLock[p] = r}
HasLocks(r) == Need(r) \subseteq HeldBy(r)

\* Without waiting for the token's lock.
BadTakeToken(r, t) ==
  tokenLock' = [u \in Tokens |-> IF u = t THEN r ELSE tokenLock[u]]

TakeToken(r, t) ==
  /\ t # None => tokenLock[t] = None
  /\ tokenLock' = [u \in Tokens |-> IF u = t THEN r ELSE tokenLock[u]]

\* The token's lock is the session's, not the transaction's.
BadReleaseAll(r) ==
  /\ playerLock' = [p \in Players |-> IF playerLock[p] = r THEN None ELSE playerLock[p]]
  /\ UNCHANGED tokenLock

\* pg_advisory_xact_lock is released by commit, rollback and disconnect.
ReleaseAll(r) ==
  /\ tokenLock' = [t \in Tokens |-> IF tokenLock[t] = r THEN None ELSE tokenLock[t]]
  /\ playerLock' = [p \in Players |-> IF playerLock[p] = r THEN None ELSE playerLock[p]]

\* Without waiting for the player's lock.
BadLockNext(r) ==
  /\ pc[r] = "lock"
  /\ \E p \in Need(r) \ HeldBy(r) : playerLock' = [playerLock EXCEPT ![p] = r]
  /\ UNCHANGED <<tables, today, tokenLock, pc, job, cand, allocate, plan>>

\* lock_players: one key at a time, in key order.
LockNext(r) ==
  /\ pc[r] = "lock"
  /\ \E p \in Need(r) \ HeldBy(r) :
       /\ \A q \in Need(r) \ HeldBy(r) : p <= q
       /\ playerLock[p] = None
       /\ playerLock' = [playerLock EXCEPT ![p] = r]
  /\ UNCHANGED <<tables, today, tokenLock, pc, job, cand, allocate, plan>>

-----------------------------------------------------------------------------
(* Admission: admitted_request_identities.                                 *)

\* attach_guest: a subject that names a registered guest is refused, in a
\* transaction of its own that waits for the player's lock.
ArrivePlay(r) ==
  /\ pc[r] = "idle"
  /\ \E o \in Ops \cap {"submit", "read"},
        t \in MaybeToken,
        a \in {subject[s] : s \in Subjects} \cup {None} :
       /\ t # None \/ a # None
       /\ a # None => playerLock[a] = None
       /\ job' = [job EXCEPT ![r] = [op |-> o, token |-> t, player |-> a,
                                     subject |-> None, legacy |-> None, day |-> today]]
       /\ pc' = [pc EXCEPT ![r] = IF a \in Guests THEN "refused" ELSE "admit"]
  /\ UNCHANGED <<tables, today, locks, cand, allocate, plan>>

\* Token lock, then the token's row in any state; a first guest write draws a
\* player for a token without a row.
Admit(r) ==
  /\ pc[r] = "admit"
  /\ job[r].op \in {"submit", "read"}
  /\ LET t == job[r].token
         first == /\ t # None
                  /\ holder[t] = None
                  /\ job[r].op = "submit"
                  /\ job[r].player = None
     IN /\ TakeToken(r, t)
        /\ allocate' = [allocate EXCEPT ![r] = first]
        /\ \E c \in IF first THEN AllocIds
                    ELSE {IF t = None THEN None ELSE holder[t]} :
             cand' = [cand EXCEPT ![r] = c]
  /\ pc' = [pc EXCEPT ![r] = "lock"]
  /\ UNCHANGED <<tables, today, playerLock, job, plan>>

\* A drawn player that is in use, or whose token row appeared meanwhile, rolls
\* the transaction back and begins it again.
Redraw(r) ==
  /\ pc[r] = "lock" /\ HasLocks(r)
  /\ allocate[r]
  /\ ~Unused(cand[r]) \/ holder[job[r].token] # None
  /\ ReleaseAll(r)
  /\ pc' = [pc EXCEPT ![r] = "admit"]
  /\ UNCHANGED <<tables, today, job, cand, allocate, plan>>

\* An account that is a registered guest is no account.
Platform(r) == IF job[r].player \in Guests THEN None ELSE job[r].player

\* An adopted credential still names its guest.
BadGuestOf(r) ==
  IF /\ cand[r] # None
     /\ cand[r] # job[r].player
     /\ ~Backed(cand[r])
  THEN cand[r] ELSE None

\* The guest of the request: a live credential of this very token whose player
\* is neither the account nor account-backed.
GuestOf(r) ==
  IF /\ cand[r] # None
     /\ cand[r] # job[r].player
     /\ allocate[r] \/ (holder[job[r].token] = cand[r] /\ adopter[job[r].token] = None)
     /\ ~Backed(cand[r])
  THEN cand[r] ELSE None

Adopts(r) == Platform(r) # None /\ GuestOf(r) # None
AdoptionRefused(r) == Adopts(r) /\ ~Backed(Platform(r))

Primary(r) == IF Platform(r) # None THEN Platform(r) ELSE GuestOf(r)

\* Rows move whether or not the credential is live.
BadMoved(r) ==
  IF Platform(r) # None /\ cand[r] # None THEN Movable(cand[r], Platform(r)) ELSE {}

Moved(r) == IF Adopts(r) THEN Movable(GuestOf(r), Platform(r)) ELSE {}

ReadyToDecide(r) ==
  /\ pc[r] = "lock" /\ HasLocks(r)
  /\ job[r].op \in {"submit", "read"}
  /\ allocate[r] => Unused(cand[r]) /\ holder[job[r].token] = None

\* The submission passes every check and its row is inserted, or a read is
\* admitted; nothing is visible before the commit.
Decide(r) ==
  /\ ReadyToDecide(r)
  /\ ~AdoptionRefused(r)
  /\ \/ /\ job[r].op = "submit"
        /\ Primary(r) # None
        /\ \E z \in Puzzles :
             /\ DayOf[SlotOf[z]] <= job[r].day
             /\ ~AlreadyPlayed(RowsOf(Primary(r)) \cup Moved(r), z, job[r].day)
             /\ plan' = [plan EXCEPT ![r] =
                  [uid |-> Primary(r), adopt |-> Adopts(r), moves |-> Moved(r),
                   puzzle |-> z, ritual |-> DayOf[SlotOf[z]] = job[r].day]]
     \/ /\ job[r].op = "read"
        /\ plan' = [plan EXCEPT ![r] =
             [uid |-> Primary(r), adopt |-> Adopts(r), moves |-> Moved(r),
              puzzle |-> None, ritual |-> FALSE]]
  /\ pc' = [pc EXCEPT ![r] = "commit"]
  /\ UNCHANGED <<tables, today, locks, job, cand, allocate>>

\* No identity, a refused adoption, a day already played or an invalid
\* submission: the transaction is dropped, and with it any allocation or
\* adoption it had made.
Refuse(r) ==
  /\ ReadyToDecide(r)
  /\ job[r].op = "submit" \/ AdoptionRefused(r)
  /\ ReleaseAll(r)
  /\ pc' = [pc EXCEPT ![r] = "refused"]
  /\ UNCHANGED <<tables, today, job, cand, allocate, plan>>

-----------------------------------------------------------------------------
(* The commit of a play request.                                           *)

\* A unique index that the checks before it were meant to make unreachable.
IndexHit(r) ==
  \/ allocate[r] /\ cand[r] \in Guests
  \/ allocate[r] /\ holder[job[r].token] # None
  \/ \E f \in plan[r].moves, h \in RowsOf(plan[r].uid) :
       SameKey(puzzle[f], ritual[f], h)
  \/ /\ plan[r].puzzle # None
     /\ \E h \in RowsOf(plan[r].uid) \cup plan[r].moves :
          SameKey(plan[r].puzzle, plan[r].ritual, h)

CommitPlay(r) ==
  /\ pc[r] = "commit"
  /\ job[r].op \in {"submit", "read"}
  /\ IF IndexHit(r)
     THEN /\ pc' = [pc EXCEPT ![r] = "conflict"]
          /\ UNCHANGED tables
     ELSE /\ pc' = [pc EXCEPT ![r] = "accepted"]
          /\ holder' = IF allocate[r]
                       THEN [holder EXCEPT ![job[r].token] = cand[r]] ELSE holder
          /\ adopter' = IF plan[r].adopt
                        THEN [adopter EXCEPT ![job[r].token] = plan[r].uid] ELSE adopter
          /\ owner' = [f \in Finishes |->
               IF f \in plan[r].moves \/ (f = r /\ plan[r].puzzle # None)
               THEN plan[r].uid ELSE owner[f]]
          /\ origin' = [f \in Finishes |->
               IF f \in plan[r].moves THEN cand[r] ELSE origin[f]]
          /\ puzzle' = [puzzle EXCEPT ![r] = plan[r].puzzle]
          /\ ritual' = [ritual EXCEPT ![r] = plan[r].ritual]
          /\ UNCHANGED subject
  /\ ReleaseAll(r)
  /\ UNCHANGED <<today, job, cand, allocate, plan>>

-----------------------------------------------------------------------------
(* claim_legacy: a token without a row takes over an unregistered player.  *)

Reserved == {cand[r] : r \in {q \in Requests : pc[q] \in {"lock", "commit"}}}
Fresh == {p \in SpareIds \ Reserved : Unused(p)}

ArriveClaim(r) ==
  /\ pc[r] = "idle"
  /\ "claim" \in Ops
  /\ \E t \in Tokens, old \in Players \ SpareIds, new \in Fresh :
       /\ job' = [job EXCEPT ![r] = [op |-> "claim", token |-> t, player |-> old,
                                     subject |-> None, legacy |-> None, day |-> today]]
       /\ TakeToken(r, t)
       /\ cand' = [cand EXCEPT ![r] = new]
  /\ pc' = [pc EXCEPT ![r] = "lock"]
  /\ UNCHANGED <<tables, today, playerLock, allocate, plan>>

Claimable(r) ==
  /\ job[r].player \notin Guests
  /\ holder[job[r].token] = None
  /\ ~Backed(job[r].player)
  /\ HasRows(job[r].player)

DecideClaim(r) ==
  /\ pc[r] = "lock" /\ HasLocks(r)
  /\ job[r].op = "claim"
  /\ IF Claimable(r)
     THEN /\ pc' = [pc EXCEPT ![r] = "commit"]
          /\ plan' = [plan EXCEPT ![r] =
               [NoPlan EXCEPT !.uid = cand[r],
                              !.moves = Movable(job[r].player, cand[r])]]
          /\ UNCHANGED locks
     ELSE /\ pc' = [pc EXCEPT ![r] = "refused"]
          /\ ReleaseAll(r)
          /\ UNCHANGED plan
  /\ UNCHANGED <<tables, today, job, cand, allocate>>

CommitClaim(r) ==
  /\ pc[r] = "commit"
  /\ job[r].op = "claim"
  /\ IF \/ holder[job[r].token] # None
        \/ cand[r] \in Guests
        \/ RowsOf(job[r].player) # plan[r].moves
     THEN /\ pc' = [pc EXCEPT ![r] = "conflict"]
          /\ UNCHANGED <<holder, owner, origin>>
     ELSE /\ pc' = [pc EXCEPT ![r] = "accepted"]
          /\ holder' = [holder EXCEPT ![job[r].token] = cand[r]]
          /\ owner' = [f \in Finishes |->
               IF f \in plan[r].moves THEN cand[r] ELSE owner[f]]
          /\ origin' = [f \in Finishes |->
               IF f \in plan[r].moves THEN job[r].player ELSE origin[f]]
  /\ ReleaseAll(r)
  /\ UNCHANGED <<adopter, subject, puzzle, ritual, today, job, cand, allocate, plan>>

-----------------------------------------------------------------------------
(* player_for: the player an Auth subject signs in as.                     *)

\* The replaced subject is not looked up.
BadKnown(s, l) == OldForm[s]

\* The row of the legacy subject l Auth reports, or the uuid inside it; without
\* either, the uuid inside the subject itself.
Known(s, l) ==
  IF l # None /\ subject[l] # None THEN subject[l]
  ELSE IF l # None /\ OldForm[l] # None THEN OldForm[l]
  ELSE OldForm[s]

\* The lookups that take no lock; a subject with a row is signed in at once.
\* Auth may report the subject it replaced, or not.
ArriveSignIn(r) ==
  /\ pc[r] = "idle"
  /\ "signin" \in Ops
  /\ \E s \in Subjects : \E l \in {None, Formerly[s]} :
       /\ job' = [job EXCEPT ![r] = [op |-> "signin", token |-> None, player |-> None,
                                     subject |-> s, legacy |-> l, day |-> today]]
       /\ \/ /\ subject[s] # None
             /\ pc' = [pc EXCEPT ![r] = "accepted"]
             /\ UNCHANGED cand
          \/ /\ subject[s] = None
             /\ pc' = [pc EXCEPT ![r] = "lock"]
             /\ \E p \in IF Known(s, l) # None THEN {Known(s, l)} ELSE Fresh :
                  cand' = [cand EXCEPT ![r] = p]
  /\ UNCHANGED <<tables, today, locks, allocate, plan>>

DecideSignIn(r) ==
  /\ pc[r] = "lock" /\ HasLocks(r)
  /\ job[r].op = "signin"
  /\ \/ /\ subject[job[r].subject] # None
        /\ pc' = [pc EXCEPT ![r] = "accepted"]
        /\ ReleaseAll(r)
        /\ UNCHANGED cand
     \/ /\ subject[job[r].subject] = None
        /\ cand[r] \in Guests
        /\ \E p \in Fresh : cand' = [cand EXCEPT ![r] = p]
        /\ ReleaseAll(r)
        /\ UNCHANGED pc
     \/ /\ subject[job[r].subject] = None
        /\ cand[r] \notin Guests
        /\ pc' = [pc EXCEPT ![r] = "commit"]
        /\ UNCHANGED <<locks, cand>>
  /\ UNCHANGED <<tables, today, job, allocate, plan>>

\* ON CONFLICT (subject) DO NOTHING: a concurrent link of the subject stands.
CommitSignIn(r) ==
  /\ pc[r] = "commit"
  /\ job[r].op = "signin"
  /\ subject' = IF subject[job[r].subject] = None
                THEN [subject EXCEPT ![job[r].subject] = cand[r]] ELSE subject
  /\ pc' = [pc EXCEPT ![r] = "accepted"]
  /\ ReleaseAll(r)
  /\ UNCHANGED <<holder, adopter, owner, origin, puzzle, ritual, today, job,
                 cand, allocate, plan>>

-----------------------------------------------------------------------------
\* A database error, a dropped client or a crash: the transaction rolls back.
Abort(r) ==
  /\ pc[r] \in {"lock", "commit"}
  /\ pc' = [pc EXCEPT ![r] = "failed"]
  /\ ReleaseAll(r)
  /\ UNCHANGED <<tables, today, job, cand, allocate, plan>>

NextDay ==
  /\ today < MaxDay
  /\ today' = today + 1
  /\ UNCHANGED <<tables, locks, pc, job, cand, allocate, plan>>

\* What a request does once it has arrived, when nothing cuts it off.
Progress(r) ==
  \/ Admit(r) \/ LockNext(r) \/ Redraw(r)
  \/ Decide(r) \/ Refuse(r) \/ CommitPlay(r)
  \/ DecideClaim(r) \/ CommitClaim(r)
  \/ DecideSignIn(r) \/ CommitSignIn(r)

Arrive(r) == ArrivePlay(r) \/ ArriveClaim(r) \/ ArriveSignIn(r)

Next ==
  \/ NextDay
  \/ \E r \in Requests : Arrive(r) \/ Progress(r) \/ Abort(r)

Spec == Init /\ [][Next]_vars

\* The runtime polls every request it has accepted and the database answers;
\* nobody is obliged to send a request or to cut one off. A request that keeps
\* drawing uuids draws an unused one in the end.
FairSpec ==
  /\ Spec
  /\ \A r \in Requests : WF_vars(Progress(r)) /\ SF_vars(Admit(r) /\ Unused(cand'[r]))

-----------------------------------------------------------------------------
(* Safety.                                                                 *)

\* No player is both a registered guest and an account (a subject's player or
\* an adopter): allocation, claim and sign-in each check the other two tables
\* and must not be overtaken between the check and the commit.
GuestNotAccount ==
  \A t \in Tokens : holder[t] # None => ~Backed(holder[t])

\* One finish per (player, puzzle) and per (player, game, day) of a ritual,
\* through submits, adoptions and claims in any order.
OneFinish ==
  \A p \in Players : \A f, h \in RowsOf(p) :
    f # h => /\ puzzle[f] # puzzle[h]
             /\ ~(ritual[f] /\ ritual[h] /\ SlotOf[puzzle[f]] = SlotOf[puzzle[h]])

\* The checks made under the locks are enough: no request is ever stopped by a
\* unique index (a submit that is answers already_played late; an adoption
\* that is would fail every later request of that browser and account).
NoLateConflict == \A r \in Requests : pc[r] # "conflict"

\* After an adoption a row still under the guest has a twin on the account:
\* the same puzzle or the same day's ritual.
AdoptionComplete ==
  \A t \in Tokens : adopter[t] # None =>
    \A f \in RowsOf(holder[t]) : \E h \in RowsOf(adopter[t]) :
      \/ puzzle[h] = puzzle[f]
      \/ ritual[h] /\ ritual[f] /\ SlotOf[puzzle[h]] = SlotOf[puzzle[f]]

\* A finish the api accepted for a player belongs to that player, or to the
\* account that adopted it: no interleaving loses one or gives it to another.
AcceptedFinishKept ==
  \A r \in Requests :
    (pc[r] = "accepted" /\ job[r].op = "submit") =>
      \/ owner[r] = plan[r].uid
      \/ \E t \in Tokens : /\ holder[t] = plan[r].uid
                            /\ adopter[t] # None
                            /\ adopter[t] = owner[r]
                            /\ origin[r] = holder[t]

\* The split that SPLIT_PLAYERS_AFTER_LINK lists: the new form "was first seen
\* without its legacy subject and so became a separate player".
FirstSeenAlone(s) ==
  \E r \in Requests :
    /\ pc[r] = "accepted"
    /\ job[r].op = "signin"
    /\ job[r].subject = s
    /\ job[r].legacy = None
    /\ cand[r] = subject[s]

\* Both forms of one person's Auth subject sign in as one player, whatever
\* sign-ins, claims and allocations overlap their first ones, unless the sign-in
\* that linked the new form came without the old one, or a guest drew the very
\* uuid inside the old form: then player_for gives each a new one.
OnePlayerPerPerson ==
  \A s \in Subjects :
    /\ Formerly[s] # None /\ subject[s] # None
    /\ OldForm[Formerly[s]] \notin Guests
    /\ ~FirstSeenAlone(s)
    => subject[Formerly[s]] \in {subject[s], None}

\* A token keeps its player and a guest is adopted at most once, by one account.
TokenKeepsPlayer ==
  [][\A t \in Tokens :
       /\ holder[t] # None => holder'[t] = holder[t]
       /\ adopter[t] # None => adopter'[t] = adopter[t]]_vars

\* Nothing is written under a guest once it is adopted: a request that saw the
\* guest live must not commit after the adoption.
AdoptedGuestSealed ==
  [][\A t \in Tokens, f \in Finishes :
       (adopter[t] # None /\ owner'[f] = holder[t]) => owner[f] = holder[t]]_vars

\* A row changes hands only from a guest to the account adopting it in that
\* step, or from an unregistered player to the token claiming it in that step.
RowsMoveOnce ==
  [][\A f \in Finishes :
       (owner[f] # None /\ owner'[f] # owner[f]) =>
         \E t \in Tokens :
           \/ /\ holder[t] = owner[f]
              /\ adopter[t] = None
              /\ adopter'[t] = owner'[f]
           \/ /\ holder[t] = None
              /\ holder'[t] = owner'[f]
              /\ owner[f] \notin Guests
              /\ ~Backed(owner[f])]_vars

\* Every request that arrived is answered: no set of requests waits for each
\* other's locks for ever.
EveryRequestEnds ==
  \A r \in Requests : (pc[r] # "idle") ~> (pc[r] \in Ended)

-----------------------------------------------------------------------------
(* Why the safety properties hold: what a request has checked stays true    *)
(* until it commits, because every request that could change it needs a     *)
(* lock this one holds.                                                     *)

Active(r) == pc[r] \in {"lock", "commit"}

\* A request holds locks only inside its transaction, its token's lock
\* throughout, and all its players' locks once it has decided.
LocksHeld ==
  \A r \in Requests :
    /\ ~Active(r) => /\ \A t \in Tokens : tokenLock[t] # r
                     /\ \A p \in Players : playerLock[p] # r
    /\ Active(r) /\ job[r].token # None => tokenLock[job[r].token] = r
    /\ pc[r] = "commit" => HasLocks(r)

\* What a request was given or drew.
JobsSound ==
  \A r \in Requests :
    /\ pc[r] = "idle" => ~allocate[r]
    /\ job[r].op \in {"submit", "read"} =>
         /\ job[r].player # None => \E s \in Subjects : subject[s] = job[r].player
         /\ Active(r) /\ job[r].token = None => cand[r] = None
    /\ job[r].op = "claim" => job[r].token # None /\ job[r].player \in Players \ SpareIds
    /\ job[r].op = "signin" => /\ job[r].subject # None
                               /\ job[r].player = None
                               /\ job[r].token = None
                               /\ Active(r) => cand[r] # None
    /\ allocate[r] => /\ job[r].op = "submit"
                      /\ job[r].player = None
                      /\ job[r].token # None

\* The fresh player of a claim is in nobody else's hands.
SpareKept ==
  \A r \in Requests :
    (Active(r) /\ job[r].op = "claim") =>
      /\ cand[r] \in SpareIds
      /\ Unused(cand[r])
      /\ \A q \in Requests \ {r} : Active(q) => cand[q] # cand[r]

\* What a request has decided, and what it decided on.
PlansSound ==
  \A r \in Requests :
    /\ (pc[r] = "commit" /\ job[r].op \in {"submit", "read"}) =>
         /\ plan[r].uid \in Need(r) \cup {None}
         /\ allocate[r] => /\ cand[r] # None
                           /\ plan[r].uid = cand[r]
                           /\ ~Backed(cand[r])
         /\ plan[r].adopt => /\ plan[r].uid = job[r].player
                             /\ holder[job[r].token] = cand[r]
                             /\ adopter[job[r].token] = None
         /\ plan[r].adopt \/ plan[r].uid # job[r].player => cand[r] # None
         /\ (plan[r].uid \notin {None, job[r].player} /\ ~allocate[r]) =>
              /\ holder[job[r].token] = plan[r].uid
              /\ adopter[job[r].token] = None
    /\ (pc[r] = "commit" /\ job[r].op = "signin") => cand[r] \notin Guests

HolderInjective ==
  \A t, u \in Tokens : holder[t] # None /\ holder[t] = holder[u] => t = u

AdoptedHasHolder == \A t \in Tokens : adopter[t] # None => holder[t] # None

\* Inductive, and stronger than GuestNotAccount.
IdentityInv ==
  /\ LocksHeld
  /\ JobsSound
  /\ SpareKept
  /\ PlansSound
  /\ HolderInjective
  /\ AdoptedHasHolder
  /\ GuestNotAccount

\* A finish has a row only once its request was accepted.
RowsAreAccepted ==
  \A r \in Requests : owner[r] # None => pc[r] = "accepted"

\* A plan is what the same decision would plan at the commit: the rows it looked
\* at are locked with their players.
PlansFresh ==
  \A r \in Requests :
    /\ (pc[r] = "commit" /\ job[r].op \in {"submit", "read"}) =>
         /\ ~IndexHit(r)
         /\ plan[r].moves = IF plan[r].adopt THEN Movable(cand[r], job[r].player) ELSE {}
         /\ plan[r].adopt => job[r].player # None
         /\ job[r].op = "submit" <=> plan[r].puzzle # None
         /\ plan[r].puzzle # None => plan[r].uid # None
    /\ (pc[r] = "commit" /\ job[r].op = "claim") =>
         Claimable(r) /\ plan[r].moves = RowsOf(job[r].player)

\* Whoever a finish was accepted for is registered, so no claim takes it.
OwnersRegistered ==
  \A r \in Requests :
    (pc[r] = "accepted" /\ job[r].op = "submit") =>
      plan[r].uid # None /\ (plan[r].uid \in Guests \/ Backed(plan[r].uid))

\* Inductive with IdentityInv: what the tables say of finishes.
LedgerInv ==
  /\ RowsAreAccepted
  /\ PlansFresh
  /\ OwnersRegistered
  /\ OneFinish
  /\ NoLateConflict
  /\ AdoptionComplete
  /\ AcceptedFinishKept

\* The player of both forms of a person's subject.
Home(s) ==
  IF subject[Formerly[s]] # None THEN subject[Formerly[s]] ELSE OldForm[Formerly[s]]

\* A sign-in under way that names its legacy subject goes to that player.
SignInsGoHome ==
  \A r \in Requests : (Active(r) /\ job[r].op = "signin") =>
    LET s == job[r].subject
    IN /\ job[r].legacy \in {None, Formerly[s]}
       /\ job[r].legacy # None => cand[r] = Home(s) \/ OldForm[Formerly[s]] \in Guests
       /\ (Formerly[s] = None /\ OldForm[s] # None) =>
            cand[r] = OldForm[s] \/ OldForm[s] \in Guests \/ subject[s] # None

SubjectsAgree ==
  \A s \in Subjects : Formerly[s] # None =>
    \/ subject[s] \in {None, Home(s)}
    \/ OldForm[Formerly[s]] \in Guests
    \/ FirstSeenAlone(s)

\* Inductive with IdentityInv, and stronger than OnePlayerPerPerson.
PersonInv == SignInsGoHome /\ SubjectsAgree
=============================================================================
