--------------------------- MODULE DailyReminder ---------------------------
(***************************************************************************)
(* The daily push reminder: one per player and local day, at the player's  *)
(* own time.                                                               *)
(*                                                                         *)
(* A tick (a Compute call, one of its retries, or the JobsService job) goes *)
(* through the due players page by page.  It claims a page by writing a     *)
(* lease on each player's notification_preferences row, pushes to each      *)
(* claimed player's browsers until shortly before the lease ends, and then  *)
(* acknowledges the day or gives the lease back.  Ticks overlap, crash and  *)
(* lose database answers; players finish today's puzzle or travel meanwhile. *)
(*                                                                         *)
(* A page's claim token is fresh and a tick claims a player at most once,   *)
(* so the tick itself stands for the token.                                *)
(***************************************************************************)
EXTENDS Integers, FiniteSets, FiniteSetsExt

CONSTANTS
  Players,       \* in the order of their uuids, by which pages are cut
  Browsers,      \* push endpoints
  Ticks,         \* invocations of send_due_daily_reminders
  None,          \* SQL NULL
  BrowsersOf,    \* a player's subscriptions at the start
  Times,         \* local times of day a player may choose
  Zones,         \* UTC offsets a player may be in
  HomeZone,      \* the offset of the product day
  DayLength,     \* clock units in a day
  Grace,         \* REMINDER_GRACE_MINUTES
  Batch,         \* REMINDER_CLAIM_BATCH
  Lease,         \* REMINDER_LEASE_SECONDS
  Reserve,       \* the seconds of a lease kept for acknowledging
  Finishers,     \* players who may finish the day's puzzle meanwhile
  MaxClock       \* bound of the clock

ASSUME PlayersAssumption == Players \subseteq Nat \ {0} /\ IsFiniteSet(Players)
ASSUME SetupAssumption ==
  /\ None \notin Ticks \cup Int
  /\ BrowsersOf \in [Players -> SUBSET Browsers]
  /\ \A p, q \in Players : p # q => BrowsersOf[p] \cap BrowsersOf[q] = {}
  /\ Times # {} /\ Times \subseteq Nat
  /\ Finishers \subseteq Players
  /\ Zones # {} /\ Zones \subseteq Nat /\ IsFiniteSet(Zones)
  /\ HomeZone \in Nat
  /\ DayLength \in Nat \ {0}
  /\ {Grace, Reserve, MaxClock} \subseteq Nat
  /\ {Batch, Lease} \subseteq Nat \ {0}

VARIABLES
  clock,     \* the time; every tick reads the same
  zone,      \* notification_preferences.timezone
  time,      \* daily_reminder_time
  finished,  \* product days whose ritual a player has finished
  subs,      \* push_subscriptions
  last,      \* last_daily_reminder_on
  lease,     \* daily_reminder_claim_token, _claim_on and _lease_until
  pc,        \* where a tick is
  at,        \* claim_at: the time its next page is claimed for
  cursor,    \* last player of its pages so far
  queue,     \* claims of its page still to be delivered
  cur,       \* the claim it is delivering
  ready,     \* browsers it has still to push to
  got,       \* whether one of them received the reminder
  bad,       \* whether something failed on the way
  doneAt,    \* completed_at of the delivery
  errors,    \* whether the tick will answer an error
  pushed,    \* history: <<browser, local day, tick>> received
  acked      \* history: <<player, local day, tick>> acknowledged

rows == <<zone, time, finished, subs, last, lease>>
work == <<pc, at, cursor, queue, cur, ready, got, bad, doneAt, errors>>
vars == <<clock, rows, work, pushed, acked>>

NoLease == [tick |-> None, on |-> None, until |-> None]

LocalDay(p, t) == (t + zone[p]) \div DayLength
LocalTime(p, t) == (t + zone[p]) % DayLength
ProductDay(t) == (t + HomeZone) \div DayLength
Days == 0 .. (MaxClock + HomeZone + Max(Zones)) \div DayLength

Leases == [tick : Ticks, on : Days, until : Nat]
Claims == [player : Players, on : Days, until : Nat]

TypeOK ==
  /\ clock \in 0 .. MaxClock
  /\ zone \in [Players -> Zones]
  /\ time \in [Players -> Times]
  /\ finished \in [Players -> SUBSET Days]
  /\ subs \in [Players -> SUBSET Browsers]
  /\ last \in [Players -> Days \cup {None}]
  /\ lease \in [Players -> Leases \cup {NoLease}]
  /\ pc \in [Ticks -> {"idle", "claim", "next", "send", "finish",
                       "ok", "failed", "crashed"}]
  /\ at \in [Ticks -> 0 .. MaxClock]
  /\ cursor \in [Ticks -> Players \cup {0}]
  /\ queue \in [Ticks -> SUBSET Claims]
  /\ cur \in [Ticks -> Claims \cup {None}]
  /\ ready \in [Ticks -> SUBSET Browsers]
  /\ got \in [Ticks -> BOOLEAN]
  /\ bad \in [Ticks -> BOOLEAN]
  /\ doneAt \in [Ticks -> 0 .. MaxClock]
  /\ errors \in [Ticks -> BOOLEAN]
  /\ pushed \subseteq Browsers \X Days \X Ticks
  /\ acked \subseteq Players \X Days \X Ticks

Init ==
  /\ clock = 0
  /\ zone = [p \in Players |-> Max(Zones)]
  /\ time = [p \in Players |-> Min(Times)]
  /\ finished = [p \in Players |-> {}]
  /\ subs = BrowsersOf
  /\ last = [p \in Players |-> None]
  /\ lease = [p \in Players |-> NoLease]
  /\ pc = [w \in Ticks |-> "idle"]
  /\ at = [w \in Ticks |-> 0]
  /\ cursor = [w \in Ticks |-> 0]
  /\ queue = [w \in Ticks |-> {}]
  /\ cur = [w \in Ticks |-> None]
  /\ ready = [w \in Ticks |-> {}]
  /\ got = [w \in Ticks |-> FALSE]
  /\ bad = [w \in Ticks |-> FALSE]
  /\ doneAt = [w \in Ticks |-> 0]
  /\ errors = [w \in Ticks |-> FALSE]
  /\ pushed = {}
  /\ acked = {}

-----------------------------------------------------------------------------
(* Claiming a page.  A definition whose name begins with Bad is a faulty      *)
(* variant of the one after it: it shows which property that fault breaks.    *)

\* A live lease does not keep others away.
BadLeaseOver(p, t) == TRUE

LeaseOver(p, t) == lease[p] = NoLease \/ lease[p].until <= t

\* The candidates of claim_due_daily_reminders_after, before the page is cut.
Due(p, t) ==
  /\ LocalTime(p, t) \in time[p] .. time[p] + Grace
  /\ last[p] # LocalDay(p, t)
  /\ LeaseOver(p, t)
  /\ ProductDay(t) \notin finished[p]

\* The cursor does not move past what was claimed.
BadPage(w) ==
  LET due == {p \in Players : Due(p, at[w])}
  IN {p \in due : Cardinality({q \in due : q < p}) < Batch}

Page(w) ==
  LET due == {p \in Players : p > cursor[w] /\ Due(p, at[w])}
  IN {p \in due : Cardinality({q \in due : q < p}) < Batch}

Begin(w) ==
  /\ pc[w] = "idle"
  /\ pc' = [pc EXCEPT ![w] = "claim"]
  /\ at' = [at EXCEPT ![w] = clock]
  /\ UNCHANGED <<clock, rows, cursor, queue, cur, ready, got, bad, doneAt, errors,
                 pushed, acked>>

Claim(w) ==
  /\ pc[w] = "claim"
  /\ Page(w) # {}
  /\ lease' = [p \in Players |->
       IF p \in Page(w)
       THEN [tick |-> w, on |-> LocalDay(p, at[w]), until |-> at[w] + Lease]
       ELSE lease[p]]
  /\ queue' = [queue EXCEPT ![w] =
       {[player |-> p, on |-> LocalDay(p, at[w]), until |-> at[w] + Lease] : p \in Page(w)}]
  /\ cursor' = [cursor EXCEPT ![w] = Max(Page(w))]
  /\ at' = [at EXCEPT ![w] = 0]
  /\ pc' = [pc EXCEPT ![w] = "next"]
  /\ UNCHANGED <<clock, zone, time, finished, subs, last, cur, ready, got, bad, doneAt,
                 errors, pushed, acked>>

\* What a tick holds in memory is gone when it ends.
End(w) ==
  /\ at' = [at EXCEPT ![w] = 0]
  /\ cursor' = [cursor EXCEPT ![w] = 0]
  /\ queue' = [queue EXCEPT ![w] = {}]
  /\ errors' = [errors EXCEPT ![w] = FALSE]
  /\ UNCHANGED <<clock, rows, pushed, acked>>

\* After the last delivery of a claim its accumulators are gone too.
Forget(w) ==
  /\ cur' = [cur EXCEPT ![w] = None]
  /\ ready' = [ready EXCEPT ![w] = {}]
  /\ got' = [got EXCEPT ![w] = FALSE]
  /\ bad' = [bad EXCEPT ![w] = FALSE]
  /\ doneAt' = [doneAt EXCEPT ![w] = 0]

\* No candidate is left: the tick answers.
NothingDue(w) ==
  /\ pc[w] = "claim"
  /\ Page(w) = {}
  /\ pc' = [pc EXCEPT ![w] = IF errors[w] THEN "failed" ELSE "ok"]
  /\ End(w)
  /\ UNCHANGED <<cur, ready, got, bad, doneAt>>

PageDone(w) ==
  /\ pc[w] = "next"
  /\ queue[w] = {}
  /\ at' = [at EXCEPT ![w] = clock]
  /\ pc' = [pc EXCEPT ![w] = "claim"]
  /\ UNCHANGED <<clock, rows, cursor, queue, cur, ready, got, bad, doneAt, errors,
                 pushed, acked>>

-----------------------------------------------------------------------------
(* Delivering one claim.                                                     *)

Until(c) == c.until - Reserve

\* Claims are delivered in the order of their players.
First(w) == CHOOSE c \in queue[w] : \A d \in queue[w] : c.player <= d.player

\* A claim whose lease is nearly over is left to a later tick.
TooLate(w) ==
  /\ pc[w] = "next" /\ queue[w] # {}
  /\ clock >= Until(First(w))
  /\ queue' = [queue EXCEPT ![w] = @ \ {First(w)}]
  /\ errors' = [errors EXCEPT ![w] = TRUE]
  /\ UNCHANGED <<clock, rows, pc, at, cursor, cur, ready, got, bad, doneAt, pushed, acked>>

\* send_daily up to the first push; reading the rows or the key may fail.
Start(w) ==
  /\ pc[w] = "next" /\ queue[w] # {}
  /\ clock < Until(First(w))
  /\ queue' = [queue EXCEPT ![w] = @ \ {First(w)}]
  /\ cur' = [cur EXCEPT ![w] = First(w)]
  /\ got' = [got EXCEPT ![w] = FALSE]
  /\ \E read \in BOOLEAN :
       /\ bad' = [bad EXCEPT ![w] = ~read]
       /\ ready' = [ready EXCEPT ![w] = IF read THEN subs[First(w).player] ELSE {}]
  /\ pc' = [pc EXCEPT ![w] = "send"]
  /\ UNCHANGED <<clock, rows, at, cursor, doneAt, errors, pushed, acked>>

\* Pushes keep starting however late it is.
BadInTime(w) == TRUE

InTime(w) == clock < Until(cur[w])

\* One push before the deadline.  A failed answer does not say that the browser
\* has not received it.
Push(w) ==
  /\ pc[w] = "send"
  /\ InTime(w)
  /\ \E b \in ready[w] :
       /\ ready' = [ready EXCEPT ![w] = @ \ {b}]
       /\ \/ /\ got' = [got EXCEPT ![w] = TRUE]
             /\ pushed' = pushed \cup {<<b, cur[w].on, w>>}
             /\ UNCHANGED <<subs, bad>>
          \/ /\ bad' = [bad EXCEPT ![w] = TRUE]
             /\ \/ pushed' = pushed \cup {<<b, cur[w].on, w>>}
                \/ UNCHANGED pushed
             /\ UNCHANGED <<subs, got>>
          \/ /\ \/ /\ subs' = [subs EXCEPT ![cur[w].player] = @ \ {b}]
                   /\ UNCHANGED bad
                \/ /\ bad' = [bad EXCEPT ![w] = TRUE]
                   /\ UNCHANGED subs
             /\ UNCHANGED <<got, pushed>>
  /\ UNCHANGED <<clock, zone, time, finished, last, lease, pc, at, cursor, queue, cur, doneAt,
                 errors, acked>>

\* The answers alone decide, not what the deadline cut off.
BadReachedCut(w) == got[w] \/ ~bad[w]

\* A partial success counts as a failure.
BadReachedAll(w) == ~bad[w] /\ ready[w] = {}

\* The player was reached, or had no browser left to reach.
Reached(w) == got[w] \/ (~bad[w] /\ ready[w] = {})

\* Every browser was tried, or the deadline cut the rest off.
Delivered(w) ==
  /\ pc[w] = "send"
  /\ ready[w] = {} \/ ~InTime(w)
  /\ doneAt' = [doneAt EXCEPT ![w] = clock]
  /\ pc' = [pc EXCEPT ![w] = "finish"]
  /\ UNCHANGED <<clock, rows, at, cursor, queue, cur, ready, got, bad, errors, pushed, acked>>

\* The row still carries this claim and its lease outlives the delivery.
Owns(w) ==
  LET l == lease[cur[w].player]
  IN l # NoLease /\ l.tick = w /\ l.on = cur[w].on /\ l.until > doneAt[w]

\* A row that no longer carries the claim is not reported.
BadComplaint(w, settled, heard) == ~heard \/ ~Reached(w)

\* Whether the tick will answer an error for this claim.
Complaint(w, settled, heard) == ~(heard /\ Reached(w) /\ settled)

\* finish_daily_reminder: acknowledge or release, if the statement runs at all;
\* its answer may not be heard before the lease is over.
Finish(w) ==
  /\ pc[w] = "finish"
  /\ \E runs, heard \in BOOLEAN :
       LET p == cur[w].player
           settled == runs /\ Owns(w)
       IN /\ runs \/ ~heard
          /\ lease' = IF settled THEN [lease EXCEPT ![p] = NoLease] ELSE lease
          /\ IF settled /\ Reached(w)
             THEN /\ last' = [last EXCEPT ![p] = cur[w].on]
                  /\ acked' = acked \cup {<<p, cur[w].on, w>>}
             ELSE UNCHANGED <<last, acked>>
          /\ errors' = [errors EXCEPT ![w] = @ \/ Complaint(w, settled, heard)]
  /\ Forget(w)
  /\ pc' = [pc EXCEPT ![w] = "next"]
  /\ UNCHANGED <<clock, zone, time, finished, subs, at, cursor, queue, pushed>>

\* The process is killed, or a claim statement fails and ends the tick.
Crash(w) ==
  /\ pc[w] \in {"claim", "next", "send", "finish"}
  /\ pc' = [pc EXCEPT ![w] = "crashed"]
  /\ End(w)
  /\ Forget(w)

-----------------------------------------------------------------------------
(* The world.                                                                *)

Pass ==
  /\ clock < MaxClock
  /\ clock' = clock + 1
  /\ UNCHANGED <<rows, work, pushed, acked>>

\* SubmitGuess records today's ritual.
FinishPuzzle(p) ==
  /\ p \in Finishers
  /\ finished' = [finished EXCEPT ![p] = @ \cup {ProductDay(clock)}]
  /\ finished' # finished
  /\ UNCHANGED <<clock, zone, time, subs, last, lease, work, pushed, acked>>

\* upsert_notification_preferences: another time zone, another reminder time.
Prefer(p) ==
  /\ \E z \in Zones, h \in Times :
       /\ <<z, h>> # <<zone[p], time[p]>>
       /\ zone' = [zone EXCEPT ![p] = z]
       /\ time' = [time EXCEPT ![p] = h]
  /\ UNCHANGED <<clock, finished, subs, last, lease, work, pushed, acked>>

Step(w) ==
  \/ Claim(w) \/ NothingDue(w) \/ PageDone(w)
  \/ TooLate(w) \/ Start(w) \/ Push(w) \/ Delivered(w) \/ Finish(w)

Next ==
  \/ Pass
  \/ \E p \in Players : FinishPuzzle(p) \/ Prefer(p)
  \/ \E w \in Ticks : Begin(w) \/ Step(w) \/ Crash(w)

Spec == Init /\ [][Next]_vars

\* A tick that has begun is polled until it answers; nobody has to begin one.
FairSpec == Spec /\ \A w \in Ticks : WF_vars(Step(w))

-----------------------------------------------------------------------------
(* Properties.                                                               *)

\* While a tick may still push to a player no other tick may: the deadline
\* falls before the lease ends, and only then is the player claimed again.
OneSender ==
  \A v, w \in Ticks :
    /\ v # w
    /\ pc[v] = "send" /\ pc[w] = "send"
    /\ cur[v].player = cur[w].player
    => ~(InTime(v) /\ InTime(w))

\* Once a day's reminder is acknowledged nobody pushes it again: a second push
\* needs a first one that was not acknowledged (at least once, not exactly once).
\* Of players who keep their zone and their time: only the last reminded local
\* date is kept, and a change of either can bring a day back.
NoPushAfterAck ==
  [][\A p \in Players, d \in Days :
       (\E w \in Ticks : <<p, d, w>> \in acked) =>
         {x \in pushed' : x[1] \in BrowsersOf[p] /\ x[2] = d} \subseteq pushed]_vars

\* Only a push that arrived is acknowledged, unless no browser was left.
AckMeansReached ==
  \A x \in acked :
    \/ subs[x[1]] = {}
    \/ \E b \in BrowsersOf[x[1]] : <<b, x[2], x[3]>> \in pushed

\* A push that one browser acknowledged receiving is not repeated because
\* another browser failed: the day stays claimed until the lease is over.
\* (What a tick knows it delivered, it does not give back.)
NoReleaseAfterPush ==
  [][\A p \in Players :
       (lease[p] # NoLease /\ lease'[p] = NoLease /\ last'[p] = last[p]) =>
         ~(pc[lease[p].tick] = "finish" /\ got[lease[p].tick])]_vars

\* A tick that answers 200 has acknowledged the day of every player it pushed to,
\* so the scheduler's retry after any other answer never finds a hole.
OkMeansAcked ==
  \A w \in Ticks, p \in Players, d \in Days :
    /\ pc[w] = "ok"
    /\ \E b \in BrowsersOf[p] : <<b, d, w>> \in pushed
    => <<p, d, w>> \in acked

\* Every tick that begins answers, also when every delivery fails: released
\* players are not claimed again by the same tick.
TickEnds ==
  \A w \in Ticks : (pc[w] = "claim") ~> (pc[w] \in {"ok", "failed", "crashed"})
=============================================================================
