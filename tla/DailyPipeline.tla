--------------------------- MODULE DailyPipeline ---------------------------
(***************************************************************************)
(* The daily puzzle pipeline: every game has one stored puzzle per day and  *)
(* level, made ahead of time.                                              *)
(*                                                                         *)
(* Fills (at start-up, on every scheduled tick) store what is missing around *)
(* today; requests read a stored puzzle and make it on a miss.  They run    *)
(* together, in processes of different generator versions while a release   *)
(* rolls out.  An insert checks for a row in its own snapshot and is stamped *)
(* with its start; only keys with a level are covered by the unique index.  *)
(***************************************************************************)
EXTENDS Integers, Sequences, SequencesExt

CONSTANTS
  Tracks,      \* sequence of [game, level], the levels of a game together
  None,        \* SQL NULL: the level of a game without levels
  Fills,       \* runs of fill
  Requests,    \* runs of resolve
  Versions,    \* generator versions
  VersionOf,   \* the version of the process of a fill or request
  Today,       \* the product day a fill starts from
  Ahead,       \* DAYS_AHEAD
  Archive,     \* ARCHIVE_DAYS
  AlertBelow,  \* ALERT_BELOW_DAYS
  Unsolved     \* keys stored without a solution before the pipeline

Procs == Fills \cup Requests
Days == Today - Archive .. Today + Ahead
Keys == [track : 1 .. Len(Tracks), day : Days]

ASSUME PipelineAssumption ==
  /\ Fills \cap Requests = {}
  /\ VersionOf \in [Procs -> Versions]
  /\ None \notin [key : Keys, at : Nat]
  /\ Len(Tracks) \in Nat \ {0}
  /\ Today \in Int /\ Ahead \in Nat /\ Archive \in Nat /\ AlertBelow \in Nat
  /\ Unsolved \subseteq Keys

VARIABLES
  rows,     \* daily_puzzles: [key, made, solved, at]
  stamp,    \* the order of created_at, key by key
  pc,       \* where a fill or request is
  key,      \* the key it is working on
  insert,   \* its insert under way, or None
  phase,    \* whether a fill is at the days ahead or the archive
  known,    \* a fill's scan of the current game
  failed,   \* whether a fill could not generate a puzzle
  served    \* history: <<key, version>> served to players

vars == <<rows, stamp, pc, key, insert, phase, known, failed, served>>

Legacy == {[key |-> k, made |-> None, solved |-> FALSE, at |-> 0] : k \in Unsolved}

TypeOK ==
  /\ rows \subseteq [key : Keys, made : Versions \cup {None}, solved : BOOLEAN, at : Nat]
  /\ stamp \in [Keys -> Nat]
  /\ pc \in [Procs -> {"idle", "look", "scan", "make", "put", "read", "measure",
                       "served", "missing", "ok", "busy"}]
  /\ key \in [Procs -> Keys]
  /\ insert \in [Procs -> [key : Keys, at : Nat] \cup {None}]
  /\ phase \in [Fills -> {"ahead", "archive"}]
  /\ known \in [Fills -> SUBSET Keys]
  /\ failed \in [Fills -> BOOLEAN]
  /\ served \subseteq Keys \X Versions

Init ==
  /\ rows = Legacy
  /\ stamp = [k \in Keys |-> 1]
  /\ pc = [p \in Procs |-> "idle"]
  /\ key = [p \in Procs |-> [track |-> 1, day |-> Today]]
  /\ insert = [p \in Procs |-> None]
  /\ phase = [f \in Fills |-> "ahead"]
  /\ known = [f \in Fills |-> {}]
  /\ failed = [f \in Fills |-> FALSE]
  /\ served = {}

-----------------------------------------------------------------------------
(* The table.  A definition whose name begins with Bad is a faulty variant of *)
(* the one after it: it shows which property that fault breaks.               *)

Rows(k) == {r \in rows : r.key = k}

\* store::fetch: the oldest row, when it has a solution.
Found(k) == {r \in Rows(k) : r.solved /\ \A s \in Rows(k) : r.at <= s.at}

\* The level is left out of the match.
BadStored(k) ==
  \E r \in rows : /\ r.key.day = k.day
                  /\ Tracks[r.key.track].game = Tracks[k.track].game

\* The NOT EXISTS of store::insert.
Stored(k) == Rows(k) # {}

\* The unique index is not there.
BadTaken(k) == FALSE

\* The unique index of (game, day, level): a NULL level never conflicts.
Taken(k) == Tracks[k.track].level # None /\ Rows(k) # {}

\* store::existing.
Existing(game) ==
  {r.key : r \in {s \in rows : s.solved /\ Tracks[s.key.track].game = game}}

-----------------------------------------------------------------------------
(* Inserting, for fills and requests alike.  A failing statement, a failing     *)
(* generator of a request and a killed process end the work there, before or    *)
(* after the commit: the process takes no further step, which Spec always allows. *)

\* The statement starts: its snapshot decides whether it inserts at all.
InsertBegin(p) ==
  /\ pc[p] = "make"
  /\ IF Stored(key[p])
     THEN pc' = [pc EXCEPT ![p] = "read"] /\ UNCHANGED <<insert, stamp>>
     ELSE /\ pc' = [pc EXCEPT ![p] = "put"]
          /\ insert' = [insert EXCEPT ![p] = [key |-> key[p], at |-> stamp[key[p]]]]
          /\ stamp' = [stamp EXCEPT ![key[p]] = @ + 1]
  /\ UNCHANGED <<rows, key, phase, known, failed, served>>

\* It commits, unless another row got into the index first.
InsertEnd(p) ==
  /\ pc[p] = "put"
  /\ rows' = IF Taken(key[p]) THEN rows
             ELSE rows \cup {[key |-> key[p], made |-> VersionOf[p], solved |-> TRUE,
                              at |-> insert[p].at]}
  /\ insert' = [insert EXCEPT ![p] = None]
  /\ pc' = [pc EXCEPT ![p] = "read"]
  /\ UNCHANGED <<stamp, key, phase, known, failed, served>>

-----------------------------------------------------------------------------
(* resolve.                                                                  *)

Ask(r) ==
  /\ pc[r] = "idle"
  /\ \E k \in Keys : key' = [key EXCEPT ![r] = k]
  /\ pc' = [pc EXCEPT ![r] = "look"]
  /\ UNCHANGED <<rows, stamp, insert, phase, known, failed, served>>

\* A miss goes on to the generator.
Look(r) ==
  /\ pc[r] = "look"
  /\ pc' = [pc EXCEPT ![r] = IF Found(key[r]) # {} THEN "served" ELSE "make"]
  /\ served' = served \cup {<<key[r], x.made>> : x \in Found(key[r])}
  /\ UNCHANGED <<rows, stamp, key, insert, phase, known, failed>>

\* The read back after the insert.
Read(r) ==
  /\ pc[r] = "read"
  /\ pc' = [pc EXCEPT ![r] = IF Found(key[r]) # {} THEN "served" ELSE "missing"]
  /\ served' = served \cup {<<key[r], x.made>> : x \in Found(key[r])}
  /\ UNCHANGED <<rows, stamp, key, insert, phase, known, failed>>

-----------------------------------------------------------------------------
(* fill: the days ahead, then the archive; game by game, level by level, day  *)
(* by day.                                                                   *)

From(f) == IF phase[f] = "ahead" THEN Today ELSE Today - Archive

To(f) == IF phase[f] = "ahead" THEN Today + Ahead ELSE Today

GameOf(f) == Tracks[key[f].track].game

Begin(f) ==
  /\ pc[f] = "idle"
  /\ pc' = [pc EXCEPT ![f] = "scan"]
  /\ UNCHANGED <<rows, stamp, key, insert, phase, known, failed, served>>

\* One scan for all levels of a game.
Scan(f) ==
  /\ pc[f] = "scan"
  /\ known' = [known EXCEPT ![f] = Existing(GameOf(f))]
  /\ pc' = [pc EXCEPT ![f] = "look"]
  /\ UNCHANGED <<rows, stamp, key, insert, phase, failed, served>>

\* A missing key goes to the generator; a failure there is reported at the end.
Consider(f) ==
  /\ pc[f] = "look"
  /\ \/ key[f] \notin known[f] /\ pc' = [pc EXCEPT ![f] = "make"] /\ UNCHANGED failed
     \/ /\ key[f] \notin known[f]
        /\ pc' = [pc EXCEPT ![f] = "read"]
        /\ failed' = [failed EXCEPT ![f] = TRUE]
     \/ key[f] \in known[f] /\ pc' = [pc EXCEPT ![f] = "read"] /\ UNCHANGED failed
  /\ UNCHANGED <<rows, stamp, key, insert, phase, known, served>>

\* The next day, level, game, phase; at the end the buffer is measured.
Advance(f) ==
  LET k == key[f]
      last == k.track = Len(Tracks)
      sameGame == ~last /\ Tracks[k.track + 1].game = GameOf(f)
  IN /\ pc[f] = "read"
     /\ \/ /\ k.day < To(f)
           /\ key' = [key EXCEPT ![f].day = @ + 1]
           /\ pc' = [pc EXCEPT ![f] = "look"]
           /\ UNCHANGED phase
        \/ /\ k.day >= To(f) /\ ~last
           /\ key' = [key EXCEPT ![f] = [track |-> k.track + 1, day |-> From(f)]]
           /\ pc' = [pc EXCEPT ![f] = IF sameGame THEN "look" ELSE "scan"]
           /\ UNCHANGED phase
        \/ /\ k.day >= To(f) /\ last
           /\ IF phase[f] = "ahead"
              THEN /\ phase' = [phase EXCEPT ![f] = "archive"]
                   /\ key' = [key EXCEPT ![f] = [track |-> 1, day |-> Today - Archive]]
                   /\ pc' = [pc EXCEPT ![f] = "scan"]
              ELSE pc' = [pc EXCEPT ![f] = "measure"] /\ UNCHANGED <<phase, key>>
     /\ known' = IF sameGame \/ k.day < To(f) THEN known ELSE [known EXCEPT ![f] = {}]
     /\ UNCHANGED <<rows, stamp, insert, failed, served>>

\* min_days_ahead is at least n.
BufferAtLeast(n) ==
  \A t \in 1 .. Len(Tracks), d \in Today .. Today + n - 1 :
    [track |-> t, day |-> d] \in Existing(Tracks[t].game)

\* The failures are only logged.
BadHealthy(f) == BufferAtLeast(AlertBelow)

Healthy(f) == ~failed[f] /\ BufferAtLeast(AlertBelow)

\* 200, or 503 for the scheduler to try again.
Measure(f) ==
  /\ pc[f] = "measure"
  /\ pc' = [pc EXCEPT ![f] = IF Healthy(f) THEN "ok" ELSE "busy"]
  /\ UNCHANGED <<rows, stamp, key, insert, phase, known, failed, served>>

-----------------------------------------------------------------------------

Fill(f) ==
  \/ Begin(f) \/ Scan(f) \/ Consider(f) \/ Advance(f) \/ Measure(f)
  \/ InsertBegin(f) \/ InsertEnd(f)

Resolve(r) ==
  Ask(r) \/ Look(r) \/ Read(r) \/ InsertBegin(r) \/ InsertEnd(r)

Next ==
  \/ \E f \in Fills : Fill(f)
  \/ \E r \in Requests : Resolve(r)

Spec == Init /\ [][Next]_vars

-----------------------------------------------------------------------------
(* Properties.                                                               *)

\* "A row is never overwritten, so a served puzzle never changes" (mod.rs), for
\* the games with levels: whoever inserts, whatever its version, all players of
\* a day get the same puzzle.
ServedStable ==
  \A x, y \in served :
    x[1] = y[1] /\ Tracks[x[1].track].level # None => x[2] = y[2]

\* A fill that answered 200 left a playable puzzle for every game, level and day
\* of its window, the archive included: nothing was skipped because another
\* writer was at it.  Only a key stored without a solution before the pipeline
\* stays unplayable: its row is in the way of an insert.
OkMeansFilled ==
  \A f \in Fills : pc[f] = "ok" => \A k \in Keys \ Unsolved : Found(k) # {}

\* "On a miss, generates and stores it first, so a player never waits on the
\* schedule" (mod.rs): after its own insert a request always finds the puzzle,
\* unless an old row without a solution is in the way.
NeverMissing == \A r \in Requests : pc[r] = "missing" => key[r] \in Unsolved
=============================================================================
