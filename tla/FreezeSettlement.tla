-------------------------- MODULE FreezeSettlement --------------------------
(***************************************************************************)
(* Streak freezes: earned, used, switched on and off, merged.              *)
(*                                                                         *)
(* Reading a streak settles it.  The settlement runs in the reading        *)
(* request's transaction, under the player's advisory lock: it decides on  *)
(* what it reads, locks the row of counters only if there is something to  *)
(* do, decides again on what it finds under that lock, and writes the      *)
(* earned days, the covered days and the change of the counters.           *)
(*                                                                         *)
(* The switch (toggle_auto_freeze) and the operator's gift                 *)
(* (add_streak_freezes) do something first: each reads the counters in one *)
(* transaction and writes all of them back in another, without the         *)
(* player's lock.                                                          *)
(*                                                                         *)
(* A worker is one request at a time of some api process.  Finishes and    *)
(* adoptions are the commits of GuestIdentity seen from here.  A finish    *)
(* counts for the day its request read when it arrived, before it fetched  *)
(* the puzzle and waited for the player's lock: by its commit a later day  *)
(* may have been played, covered or earned.                                *)
(***************************************************************************)
EXTENDS StreakRules

CONSTANTS
  Accounts,    \* signed-in players
  Guests,      \* browsers' players
  Workers,     \* requests under way
  Gifts,       \* how many freezes an operator may add at once
  None,        \* no lock holder, no player
  NoRow,       \* no row in user_freeze_data
  MaxDay,      \* last product day (bound of the clock)
  MaxDelay,    \* how many midnights a submission may wait for its commit
  MaxChanges   \* switches, gifts and archive finishes (bound of the history)

Players == Accounts \cup Guests

Row == [available : Int, used : Nat, auto : BOOLEAN]

ASSUME PartiesAssumption ==
  /\ Accounts \cap Guests = {}
  /\ None \notin Players \cup Workers
  /\ NoRow \notin Row
  /\ Gifts \subseteq 1..10
  /\ MaxDay \in Nat \ {0}
  /\ MaxDelay \in Nat
  /\ MaxChanges \in Nat

VARIABLES
  played,      \* days with an accepted ritual finish
  archive,     \* days with a puzzle finished on a later day
  awards,      \* streak_freeze_awards
  granted,     \* those of them with granted = true
  frozen,      \* streak_freeze_uses
  counters,    \* user_freeze_data
  adopted,     \* guests whose credential is adopted
  today,       \* the product day
  playerLock,  \* who holds the advisory lock of a player
  rowLock,     \* who holds the row lock of a player's counters
  pc,          \* where a request is
  job,         \* its player, kind, day, and the row it read or will write
  plan,        \* what its settlement has written and not committed
  marks,       \* history: what else has written a player's counters
  late,        \* history: players with a finish recorded after a later day's
  changes      \* how many switches, gifts and archive finishes have begun

ledger == <<played, archive, awards, granted, frozen, counters, marks, late>>
locks == <<playerLock, rowLock>>
vars == <<ledger, adopted, today, locks, pc, job, plan, changes>>

DefaultRow == [available |-> 0, used |-> 0, auto |-> TRUE]
NoJob == [player |-> None, op |-> "none", day |-> 0, row |-> DefaultRow]

TypeOK ==
  /\ played \in [Players -> SUBSET (1..MaxDay)]
  /\ archive \in [Players -> SUBSET (1..MaxDay)]
  /\ awards \in [Players -> SUBSET (1..MaxDay)]
  /\ granted \in [Players -> SUBSET (1..MaxDay)]
  /\ frozen \in [Players -> SUBSET (1..MaxDay)]
  /\ counters \in [Players -> Row \cup {NoRow}]
  /\ adopted \subseteq Guests
  /\ today \in 1..MaxDay
  /\ playerLock \in [Players -> Workers \cup {None}]
  /\ rowLock \in [Players -> Workers \cup {None}]
  /\ pc \in [Workers -> {"idle", "write", "admit", "lock", "commit"}]
  /\ job \in [Workers -> [player : Players \cup {None}, day : 0..MaxDay,
                          op : {"none", "read", "toggle", "add"}, row : Row]]
  /\ plan \in [Workers -> [awards : SUBSET (1..MaxDay), cover : SUBSET (1..MaxDay),
                           granted : Nat, after : Nat]]
  /\ marks \in [Players -> SUBSET {"toggle", "add", "adopt"}]
  /\ late \subseteq Players
  /\ changes \in 0..MaxChanges

Init ==
  /\ played = [p \in Players |-> {}]
  /\ archive = [p \in Players |-> {}]
  /\ awards = [p \in Players |-> {}]
  /\ granted = [p \in Players |-> {}]
  /\ frozen = [p \in Players |-> {}]
  /\ counters = [p \in Players |-> NoRow]
  /\ adopted = {}
  /\ today = 1
  /\ playerLock = [p \in Players |-> None]
  /\ rowLock = [p \in Players |-> None]
  /\ pc = [w \in Workers |-> "idle"]
  /\ job = [w \in Workers |-> NoJob]
  /\ plan = [w \in Workers |-> Idle(0)]
  /\ marks = [p \in Players |-> {}]
  /\ late = {}
  /\ changes = 0

-----------------------------------------------------------------------------
(* Reading and deciding. *)

Load(p) == IF counters[p] = NoRow THEN DefaultRow ELSE counters[p]

Held(row) == IF row.available > 0 THEN row.available ELSE 0

\* What is to be done for a player on a day, given a row of counters.
Decision(p, day, row) ==
  SettleFreezes(day, played[p], frozen[p], awards[p], Held(row), row.auto)

\* Faulty: the row read before the lock was held.
BadRowUnderLock(w) == job[w].row

\* The row the settlement decides on once it holds the row lock.
RowUnderLock(w) == Load(job[w].player)

-----------------------------------------------------------------------------
(* Requests. *)

\* toggle_auto_freeze: the row as it is, with another setting.
Toggle(w, p, on) ==
  /\ pc[w] = "idle" /\ p \in Accounts
  /\ job' = [job EXCEPT ![w] = [NoJob EXCEPT !.player = p, !.op = "toggle",
                                 !.row = [Load(p) EXCEPT !.auto = on]]]
  /\ pc' = [pc EXCEPT ![w] = "write"]
  /\ changes < MaxChanges /\ changes' = changes + 1
  /\ UNCHANGED <<ledger, adopted, today, locks, plan>>

\* add_streak_freezes: the row as it is, with more freezes.
Add(w, p, n) ==
  /\ pc[w] = "idle"
  /\ job' = [job EXCEPT ![w] = [NoJob EXCEPT !.player = p, !.op = "add",
                                 !.row = [Load(p) EXCEPT !.available = @ + n]]]
  /\ pc' = [pc EXCEPT ![w] = "write"]
  /\ changes < MaxChanges /\ changes' = changes + 1
  /\ UNCHANGED <<ledger, adopted, today, locks, plan>>

\* upsert_freeze_data: a statement of its own, which waits for the row only.
Upsert(w) ==
  LET p == job[w].player IN
  /\ pc[w] = "write" /\ rowLock[p] = None
  /\ counters' = [counters EXCEPT ![p] = job[w].row]
  /\ marks' = [marks EXCEPT ![p] = @ \cup {job[w].op}]
  /\ pc' = [pc EXCEPT ![w] = "admit"]
  /\ UNCHANGED <<played, archive, awards, granted, frozen, late, adopted, today, locks,
                 job, plan, changes>>

\* The end of a request's transaction: its locks are free.
Leave(w) ==
  /\ playerLock' = [p \in Players |-> IF playerLock[p] = w THEN None ELSE playerLock[p]]
  /\ rowLock' = [p \in Players |-> IF rowLock[p] = w THEN None ELSE rowLock[p]]
  /\ pc' = [pc EXCEPT ![w] = "idle"]
  /\ job' = [job EXCEPT ![w] = NoJob]
  /\ plan' = [plan EXCEPT ![w] = Idle(0)]

\* A streak is read (GetStreakInfo, TryAutoFreeze, ShareResult of the same
\* day), for itself or after the write of a switch or a gift.
Asks(w, p) ==
  \/ pc[w] = "idle" /\ p \notin adopted
  \/ pc[w] = "admit" /\ p = job[w].player

\* Admission, the day, and the first decision.
Admit(w, p) ==
  LET row == Load(p) IN
  /\ Asks(w, p) /\ playerLock[p] = None
  /\ IF Nothing(Decision(p, today, row))
     THEN Leave(w)
     ELSE /\ playerLock' = [playerLock EXCEPT ![p] = w]
          /\ job' = [job EXCEPT ![w] = [player |-> p, op |-> "read",
                                        day |-> today, row |-> row]]
          /\ pc' = [pc EXCEPT ![w] = "lock"]
          /\ UNCHANGED <<rowLock, plan>>
  /\ UNCHANGED <<ledger, adopted, today, changes>>

\* The row is created if need be and locked; the decision is made again.
LockRow(w) ==
  LET p == job[w].player IN
  /\ pc[w] = "lock" /\ rowLock[p] = None
  /\ rowLock' = [rowLock EXCEPT ![p] = w]
  /\ plan' = [plan EXCEPT ![w] = Decision(p, job[w].day, RowUnderLock(w))]
  /\ pc' = [pc EXCEPT ![w] = "commit"]
  /\ UNCHANGED <<ledger, adopted, today, playerLock, job, changes>>

\* Of the milestones that are really new, the first so many are granted.
Granted(w, p) ==
  LET new == plan[w].awards \ awards[p]
  IN  {d \in new : Nth(d, new) <= plan[w].granted}

\* Faulty: a milestone is recorded only when a freeze was granted for it.
BadRecorded(w, p) == Granted(w, p)

\* Every milestone is recorded, whether a freeze was granted for it or not.
Recorded(w, p) == plan[w].awards

\* Faulty: a covered day costs nothing.
BadCounted(row, gain, loss) ==
  [row EXCEPT !.available = @ + gain, !.used = @ + loss]

\* The counters are changed by what was granted and covered.
Counted(row, gain, loss) ==
  [row EXCEPT !.available = @ + gain - loss, !.used = @ + loss]

\* persist, seen by others at the commit.
Commit(w) ==
  LET p == job[w].player IN
  /\ pc[w] = "commit"
  /\ awards' = [awards EXCEPT ![p] = @ \cup Recorded(w, p)]
  /\ granted' = [granted EXCEPT ![p] = @ \cup Granted(w, p)]
  /\ frozen' = [frozen EXCEPT ![p] = @ \cup plan[w].cover]
  /\ counters' = [counters EXCEPT ![p] =
       Counted(Load(p), Cardinality(Granted(w, p)), Cardinality(plan[w].cover))]
  /\ Leave(w)
  /\ UNCHANGED <<played, archive, late, adopted, today, marks, changes>>

\* A refusal, a database error, a client that went away, a crash.
Abort(w) ==
  /\ pc[w] # "idle"
  /\ Leave(w)
  /\ UNCHANGED <<ledger, adopted, today, changes>>

-----------------------------------------------------------------------------
(* The rest of the player's life. *)

\* An accepted ritual finish of the day its request arrived on, in a transaction
\* under the player's lock.
Finish(p) ==
  /\ p \notin adopted /\ playerLock[p] = None
  /\ \E d \in 1..today \ played[p] :
       /\ today - d <= MaxDelay
       /\ played' = [played EXCEPT ![p] = @ \cup {d}]
       /\ late' = IF \E e \in played[p] : e > d THEN late \cup {p} ELSE late
  /\ UNCHANGED <<archive, awards, granted, frozen, counters, marks, adopted, today,
                 locks, pc, job, plan, changes>>

\* An accepted finish of a past day's puzzle: no ritual, so no day of a streak.
FinishArchive(p) ==
  /\ p \notin adopted /\ playerLock[p] = None
  /\ \E d \in 1..today - 1 : archive' = [archive EXCEPT ![p] = @ \cup {d}]
  /\ changes < MaxChanges /\ changes' = changes + 1
  /\ UNCHANGED <<played, awards, granted, frozen, counters, marks, late, adopted, today,
                 locks, pc, job, plan>>

\* Faulty: held freezes add up without a limit.
BadAtMostCap(n) == n

\* LEAST(..., FREEZE_CAP)
AtMostCap(n) == IF n < Cap THEN n ELSE Cap

\* user_freeze_data of the account after the merge of a guest's row.
MergedRow(g, a) ==
  IF counters[g] = NoRow THEN counters[a]
  ELSE IF counters[a] = NoRow
  THEN [DefaultRow EXCEPT !.available = AtMostCap(counters[g].available),
                          !.used = counters[g].used]
  ELSE [counters[a] EXCEPT !.available = AtMostCap(@ + counters[g].available),
                           !.used = @ + counters[g].used]

\* Faulty: the guest's covered days stay behind.
BadMergedUses(g, a) == frozen[a]

\* Covered days of the account after the merge.
MergedUses(g, a) == frozen[a] \cup frozen[g]

\* adopt_guest_freezes within an adoption.  A finish stays with the guest if the
\* account has the same ritual or has finished the same puzzle from the archive:
\* the guest keeps some or all of a day, and the account may miss that day.
Adopt(g, a) ==
  /\ g \in Guests \ adopted /\ a \in Accounts
  /\ playerLock[g] = None /\ playerLock[a] = None /\ rowLock[a] = None
  /\ adopted' = adopted \cup {g}
  /\ \E stay \in SUBSET (played[g] \cap (played[a] \cup archive[a])),
        unmoved \in SUBSET (played[g] \cap archive[a]) :
       /\ unmoved \subseteq stay
       /\ played' = [played EXCEPT ![a] = @ \cup (played[g] \ unmoved), ![g] = stay]
  /\ \E unmoved \in SUBSET (archive[g] \cap (played[a] \cup archive[a])) :
       archive' = [archive EXCEPT ![a] = @ \cup (archive[g] \ unmoved)]
  /\ frozen' = [frozen EXCEPT ![a] = MergedUses(g, a)]
  /\ awards' = [awards EXCEPT ![a] = @ \cup awards[g]]
  /\ granted' = [granted EXCEPT ![a] = @ \cup (granted[g] \ awards[a])]
  /\ counters' = [counters EXCEPT ![a] = MergedRow(g, a)]
  /\ marks' = [marks EXCEPT ![a] = @ \cup {"adopt"}]
  /\ UNCHANGED <<late, today, locks, pc, job, plan, changes>>

Midnight ==
  /\ today < MaxDay
  /\ today' = today + 1
  /\ UNCHANGED <<ledger, adopted, locks, pc, job, plan, changes>>

Next ==
  \/ \E w \in Workers, p \in Players :
       \/ Admit(w, p)
       \/ \E on \in BOOLEAN : Toggle(w, p, on)
       \/ \E n \in Gifts : Add(w, p, n)
  \/ \E w \in Workers :
       Upsert(w) \/ LockRow(w) \/ Commit(w) \/ Abort(w)
  \/ \E p \in Players : Finish(p) \/ FinishArchive(p)
  \/ \E g \in Guests, a \in Accounts : Adopt(g, a)
  \/ Midnight

Spec == Init /\ [][Next]_vars

-----------------------------------------------------------------------------
(* Properties. *)

\* Whatever overlaps, nobody holds less than nothing, and nobody the operator
\* has given to holds more than the cap: the settlement changes the counters by
\* what it decided under the row lock, and the switch restores an older row.
HeldInBounds ==
  \A p \in Players :
    /\ Load(p).available >= 0
    /\ "add" \notin marks[p] => Load(p).available <= Cap

\* For a player whose counters only settlements have written, they say what the
\* two tables say: granted milestones less covered days.
BooksBalance ==
  \A p \in Players : marks[p] = {} =>
    /\ Load(p).available = Cardinality(granted[p]) - Cardinality(frozen[p])
    /\ Load(p).used = Cardinality(frozen[p])

\* A player with only finishes of their own, recorded in the order of their days, has
\* earned at most one milestone for every EveryDays played days, whatever runs were
\* broken or bridged in between.  (A finish recorded after a later day's moves the
\* later milestones of its run by one day, and they are earned once more.)
EarnedByPlay ==
  \A p \in Players \ (adopted \cup late) : "adopt" \notin marks[p] =>
    EveryDays * Cardinality(awards[p]) <= Cardinality(played[p])

\* A settlement covers days only while the setting is on, only days that were missed,
\* and only when that saves the run: the streak on the day of the settlement is
\* then a run worth protecting.
CoverSavesRun ==
  [][\A p \in Players :
       LET new == frozen'[p] \ frozen[p] IN
       adopted' = adopted /\ new # {} =>
         /\ Load(p).auto
         /\ new \cap played[p] = {}
         /\ Cardinality(new) <= MaxBridge
         /\ Streak(Max(new) + 1, played[p], frozen'[p]) >= MinRun]_vars

\* Reading again earns nothing more and covers nothing twice: right after a
\* settlement the same settlement finds nothing to do.
SettledOnce ==
  [][\A w \in Workers :
       LET p == job[w].player IN
       pc[w] = "commit" /\ counters'[p] # counters[p] =>
         Nothing(SettleFreezes(job[w].day, played[p], frozen'[p], awards'[p],
                               Held(counters'[p]), counters'[p].auto))]_vars

\* Signing in costs a player no streak but for days whose puzzle the account has
\* finished from the archive: the account's streak is then at least its own, and at
\* least the guest's without those days.
StreakSurvivesAdoption ==
  [][\A g \in Guests, a \in Accounts :
       /\ adopted' = adopted \cup {g} /\ g \notin adopted
       /\ <<played'[a], frozen'[a], marks'[a]>> # <<played[a], frozen[a], marks[a]>>
       => Streak(today, played'[a], frozen'[a])
            >= Max({Streak(today, played[g] \ archive[a], frozen[g]),
                    Streak(today, played[a], frozen[a])})]_vars

\* One freeze covers one missed day: a player whom nobody gave freezes and who
\* adopted nobody never has more covered days than granted freezes.
FreezeCoversOnce ==
  \A p \in Players : marks[p] \subseteq {"toggle"} =>
    Cardinality(frozen[p]) <= Cardinality(granted[p])
=============================================================================
