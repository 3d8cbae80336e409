------------------------- MODULE DailyPipelineProofs -------------------------
(***************************************************************************)
(* For any games, levels, days, fills, requests and versions: the types,   *)
(* that players of a day of a level are all served one puzzle, that a fill *)
(* leaves nothing of its window out and that a request finds what it       *)
(* stored.                                                                 *)
(***************************************************************************)
EXTENDS DailyPipeline, TLAPS, NaturalsInduction, WellFoundedInduction

LEMMA Constants == /\ Today \in Int /\ Ahead \in Nat /\ Archive \in Nat /\ Len(Tracks) \in Nat \ {0}
                   /\ VersionOf \in [Procs -> Versions] /\ Unsolved \subseteq Keys
  BY PipelineAssumption DEF PipelineAssumption

Row == [key : Keys, made : Versions \cup {None}, solved : BOOLEAN, at : Nat]

(* What a fill or a request holds while its insert is under way.           *)
InsertUnderWay == \A p \in Procs : pc[p] = "put" => insert[p] # None

(* Only a row without a solution is of no version.                         *)
SolvedByVersion == \A r \in rows : r.solved => r.made \in Versions

(* The unique index does its work.                                         *)
OneRowPerLevel ==
  \A r, s \in rows : r.key = s.key /\ Tracks[r.key.track].level # None => r = s

(* What was served is still stored.                                        *)
ServedIsStored == \A x \in served : \E r \in rows : r.key = x[1] /\ r.made = x[2]

PipelineInv == InsertUnderWay /\ SolvedByVersion /\ OneRowPerLevel /\ ServedIsStored

LEMMA KeyType == \A t \in 1 .. Len(Tracks), d \in Days : [track |-> t, day |-> d] \in Keys
  BY DEF Keys

LEMMA DaysFromTo == Today \in Days /\ Today - Archive \in Days
  BY Constants DEF Days

LEMMA LegacyType == Legacy \subseteq Row
<1> SUFFICES ASSUME NEW k \in Unsolved
             PROVE  [key |-> k, made |-> None, solved |-> FALSE, at |-> 0] \in Row
  BY DEF Legacy
<1> QED
  BY Constants DEF Row

LEMMA TypeInit == Init => TypeOK
<1> SUFFICES ASSUME Init PROVE TypeOK
  OBVIOUS
<1>1. rows \subseteq Row
  BY LegacyType DEF Init
<1>2. [track |-> 1, day |-> Today] \in Keys
  BY Constants, KeyType, DaysFromTo
<1> QED
  BY <1>1, <1>2 DEF Init, TypeOK, Row

(* The key after Advance: the next day, the next track, or the archive.    *)
LEMMA AdvanceKey == ASSUME TypeOK, NEW f \in Fills, Advance(f) PROVE key'[f] \in Keys /\ key' = [key EXCEPT ![f] = key'[f]]
<1> DEFINE k == key[f]
<1>1. k \in Keys /\ f \in Procs /\ key \in [Procs -> Keys]
  BY DEF TypeOK, Procs
<1>2. k.track \in 1 .. Len(Tracks) /\ k.day \in Days /\ k.day \in Int
  BY <1>1, Constants DEF Keys, Days
<1>3. CASE k.day < To(f) /\ key' = [key EXCEPT ![f].day = @ + 1]
  <2>1. k.day + 1 \in Days
    BY <1>2, <1>3, Constants DEF To, Days
  <2>2. key'[f] = [k EXCEPT !.day = k.day + 1]
    BY <1>1, <1>3
  <2>3. key'[f] = [track |-> k.track, day |-> k.day + 1]
    BY <1>1, <2>2 DEF Keys
  <2> QED
    BY <1>1, <1>2, <1>3, <2>1, <2>3, KeyType
<1>4. CASE k.track # Len(Tracks) /\ key' = [key EXCEPT ![f] = [track |-> k.track + 1, day |-> From(f)]]
  <2>1. k.track + 1 \in 1 .. Len(Tracks)
    BY <1>2, <1>4, Constants
  <2>2. From(f) \in Days
    BY DaysFromTo DEF From
  <2> QED
    BY <1>1, <1>4, <2>1, <2>2, KeyType
<1>5. CASE key' = [key EXCEPT ![f] = [track |-> 1, day |-> Today - Archive]]
  BY <1>1, <1>5, Constants, KeyType, DaysFromTo
<1>6. CASE key' = key
  BY <1>1, <1>6
<1> QED
  BY <1>3, <1>4, <1>5, <1>6 DEF Advance

LEMMA FoundServed ==
  ASSUME TypeOK, SolvedByVersion, NEW p \in Procs
  PROVE  {<<key[p], x.made>> : x \in Found(key[p])} \subseteq Keys \X Versions
  BY DEF TypeOK, SolvedByVersion, Found, Rows

LEMMA TypeStep == TypeOK /\ PipelineInv /\ [Next]_vars => TypeOK'
<1> SUFFICES ASSUME TypeOK, PipelineInv, [Next]_vars PROVE TypeOK'
  OBVIOUS
<1> USE DEF TypeOK, PipelineInv
<1>1. ASSUME NEW p \in Procs, InsertBegin(p) PROVE TypeOK'
  <2>1. stamp[key[p]] \in Nat /\ [key |-> key[p], at |-> stamp[key[p]]] \in [key : Keys, at : Nat]
    OBVIOUS
  <2> QED
    BY <1>1, <2>1 DEF InsertBegin
<1>2. ASSUME NEW p \in Procs, InsertEnd(p) PROVE TypeOK'
  <2>1. insert[p] \in [key : Keys, at : Nat] /\ VersionOf[p] \in Versions
    BY <1>2, Constants DEF InsertEnd, InsertUnderWay
  <2>2. [key |-> key[p], made |-> VersionOf[p], solved |-> TRUE, at |-> insert[p].at] \in Row
    BY <2>1 DEF Row
  <2>3. rows' \subseteq Row
    BY <1>2, <2>2 DEF InsertEnd, Row
  <2> QED
    BY <1>2, <2>3 DEF InsertEnd, Row
<1>3. ASSUME NEW r \in Procs, Ask(r) PROVE TypeOK'
  BY <1>3 DEF Ask
<1>4. ASSUME NEW r \in Procs, Look(r) PROVE TypeOK'
  BY <1>4, FoundServed DEF Look
<1>5. ASSUME NEW r \in Procs, Read(r) PROVE TypeOK'
  BY <1>5, FoundServed DEF Read
<1>6. ASSUME NEW f \in Fills, Begin(f) PROVE TypeOK'
  BY <1>6 DEF Begin
<1>7. ASSUME NEW f \in Fills, Scan(f) PROVE TypeOK'
  <2>1. Existing(GameOf(f)) \subseteq Keys
    BY DEF Existing
  <2> QED
    BY <1>7, <2>1 DEF Scan
<1>8. ASSUME NEW f \in Fills, Consider(f) PROVE TypeOK'
  BY <1>8 DEF Consider
<1>9. ASSUME NEW f \in Fills, Advance(f) PROVE TypeOK'
  <2>1. key' \in [Procs -> Keys]
    BY <1>9, AdvanceKey DEF Procs
  <2>2. pc' \in [Procs -> {"idle", "look", "scan", "make", "put", "read", "measure", "served", "missing", "ok", "busy"}]
    BY <1>9 DEF Advance
  <2>3. phase' \in [Fills -> {"ahead", "archive"}]
    BY <1>9 DEF Advance
  <2>4. known' \in [Fills -> SUBSET Keys]
    BY <1>9 DEF Advance
  <2> QED
    BY <1>9, <2>1, <2>2, <2>3, <2>4 DEF Advance
<1>10. ASSUME NEW f \in Fills, Measure(f) PROVE TypeOK'
  BY <1>10 DEF Measure
<1>11. CASE UNCHANGED vars
  BY <1>11 DEF vars
<1> QED
  BY <1>1, <1>2, <1>3, <1>4, <1>5, <1>6, <1>7, <1>8, <1>9, <1>10, <1>11 DEF Next, Fill, Resolve, Procs

LEMMA InvInit == Init => PipelineInv
<1> SUFFICES ASSUME Init PROVE PipelineInv
  OBVIOUS
<1> DEFINE old(k) == [key |-> k, made |-> None, solved |-> FALSE, at |-> 0]
<1>0. \A r \in rows : \E k \in Unsolved : r = old(k)
  BY DEF Init, Legacy
<1>1. SolvedByVersion /\ OneRowPerLevel
  <2>1. \A r \in rows : r.solved = FALSE /\ r = old(r.key)
    BY <1>0
  <2> QED
    BY <2>1 DEF SolvedByVersion, OneRowPerLevel
<1>2. InsertUnderWay /\ ServedIsStored
  BY DEF Init, InsertUnderWay, ServedIsStored
<1> QED
  BY <1>1, <1>2 DEF PipelineInv

LEMMA FoundStored ==
  ASSUME NEW k PROVE \A x \in {<<k, r.made>> : r \in Found(k)} : \E r \in rows : r.key = x[1] /\ r.made = x[2]
  BY DEF Found, Rows

(* A step that stores nothing, and serves only what is stored.             *)
LEMMA NothingStored ==
  ASSUME PipelineInv, rows' = rows,
         \A p \in Procs : pc'[p] = "put" => insert'[p] # None,
         \A x \in served' \ served : \E r \in rows : r.key = x[1] /\ r.made = x[2]
  PROVE  PipelineInv'
  BY DEF PipelineInv, InsertUnderWay, SolvedByVersion, OneRowPerLevel, ServedIsStored

LEMMA InvStep == TypeOK /\ PipelineInv /\ [Next]_vars => PipelineInv'
<1> SUFFICES ASSUME TypeOK, PipelineInv, [Next]_vars PROVE PipelineInv'
  OBVIOUS
<1>1. ASSUME NEW p \in Procs, InsertBegin(p) PROVE PipelineInv'
  <2>1. [key |-> key[p], at |-> stamp[key[p]]] # None
    BY PipelineAssumption DEF PipelineAssumption, TypeOK
  <2> QED
    BY <1>1, <2>1, NothingStored DEF InsertBegin, TypeOK, PipelineInv, InsertUnderWay
<1>2. ASSUME NEW p \in Procs, InsertEnd(p) PROVE PipelineInv'
  <2> DEFINE row == [key |-> key[p], made |-> VersionOf[p], solved |-> TRUE, at |-> insert[p].at]
  <2>1. row.key = key[p] /\ row.made \in Versions
    BY Constants
  <2>2. CASE Taken(key[p])
    BY <1>2, <2>2, NothingStored DEF InsertEnd, TypeOK, PipelineInv, InsertUnderWay
  <2>3. CASE ~Taken(key[p])
    <3>1. rows' = rows \cup {row} /\ served' = served
      BY <1>2, <2>3 DEF InsertEnd
    <3>2. \A r \in rows : Tracks[key[p].track].level # None => r.key # key[p]
      BY <2>3 DEF Taken, Rows
    <3> HIDE DEF row
    <3>3. InsertUnderWay'
      BY <1>2 DEF InsertEnd, TypeOK, PipelineInv, InsertUnderWay
    <3>4. SolvedByVersion'
      BY <2>1, <3>1 DEF PipelineInv, SolvedByVersion
    <3>5. OneRowPerLevel'
      BY <2>1, <3>1, <3>2 DEF PipelineInv, OneRowPerLevel
    <3>6. ServedIsStored'
      BY <3>1 DEF PipelineInv, ServedIsStored
    <3> QED
      BY <3>3, <3>4, <3>5, <3>6 DEF PipelineInv
  <2> QED
    BY <2>2, <2>3
<1>3. ASSUME NEW r \in Procs, Ask(r) \/ Look(r) \/ Read(r) PROVE PipelineInv'
  BY <1>3, NothingStored, FoundStored DEF Ask, Look, Read, TypeOK, PipelineInv, InsertUnderWay
<1>4. ASSUME NEW f \in Fills, Begin(f) \/ Scan(f) \/ Consider(f) \/ Advance(f) \/ Measure(f) PROVE PipelineInv'
  <2>1. \A p \in Procs : pc'[p] = "put" => pc[p] = "put"
    BY <1>4 DEF Begin, Scan, Consider, Advance, Measure, TypeOK
  <2>2. rows' = rows /\ insert' = insert /\ served' = served
    BY <1>4 DEF Begin, Scan, Consider, Advance, Measure
  <2> QED
    BY <2>1, <2>2, NothingStored DEF PipelineInv, InsertUnderWay
<1>5. CASE UNCHANGED vars
  BY <1>5, NothingStored DEF vars, PipelineInv, InsertUnderWay
<1> QED
  BY <1>1, <1>2, <1>3, <1>4, <1>5 DEF Next, Fill, Resolve, Procs

LEMMA PipelineInvCorrect == Spec => [](TypeOK /\ PipelineInv)
<1>1. Init => TypeOK /\ PipelineInv
  BY TypeInit, InvInit
<1>2. (TypeOK /\ PipelineInv) /\ [Next]_vars => (TypeOK /\ PipelineInv)'
  BY TypeStep, InvStep
<1> QED
  BY <1>1, <1>2, PTL DEF Spec

(* store.rs, mod.rs: every row, key and stamp keeps its type, and a fill   *)
(* never leaves the days of its window.                                    *)
THEOREM TypeCorrect == Spec => []TypeOK
  BY PipelineInvCorrect, PTL

(* mod.rs: "a served puzzle never changes", for the games with levels: the *)
(* unique index keeps one row, and rows are neither changed nor deleted.   *)
THEOREM ServedStableCorrect == Spec => []ServedStable
<1>1. TypeOK /\ PipelineInv => ServedStable
  BY DEF PipelineInv, OneRowPerLevel, ServedIsStored, ServedStable
<1> QED
  BY <1>1, PipelineInvCorrect, PTL

-----------------------------------------------------------------------------
(* A fill leaves nothing out, and a request finds what it asked for.         *)

(* Only days stored before the pipeline are without a solution.            *)
UnsolvedIsOld == \A r \in rows : ~r.solved => r.key \in Unsolved

(* A request reads back what is there.                                     *)
ReadIsStored == \A r \in Requests : pc[r] \in {"read", "missing"} => Stored(key[r])

(* The keys a fill has left behind.                                        *)
Passed(f) ==
  {k \in Keys :
     \/ phase[f] = "archive" /\ k.day >= Today
     \/ /\ \/ k.track < key[f].track
           \/ k.track = key[f].track /\ k.day < key[f].day
        /\ From(f) <= k.day /\ k.day <= To(f)}

Over(f) == pc[f] \in {"measure", "ok", "busy"}

(* A fill walks its window in order, and leaves a key behind only when a row *)
(* is there or it noted a failure.                                         *)
FillSound(f) ==
  /\ From(f) <= key[f].day /\ key[f].day <= To(f)
  /\ pc[f] = "idle" => key[f] = [track |-> 1, day |-> Today] /\ phase[f] = "ahead"
  /\ \A k \in known[f] : Stored(k)
  /\ pc[f] = "ok" => ~failed[f]
  /\ ~failed[f] => /\ pc[f] = "read" => Stored(key[f])
                   /\ \A k \in IF Over(f) THEN Keys ELSE Passed(f) : Stored(k)

FillInv == \A f \in Fills : FillSound(f)

WindowInv == UnsolvedIsOld /\ ReadIsStored /\ FillInv

LEMMA WindowInit == Init => WindowInv
<1> SUFFICES ASSUME Init PROVE WindowInv
  OBVIOUS
<1>1. UnsolvedIsOld
  BY DEF Init, Legacy, UnsolvedIsOld
<1>2. ReadIsStored
  BY DEF Init, ReadIsStored, Procs
<1>3. ASSUME NEW f \in Fills PROVE FillSound(f)
  <2>1. f \in Procs /\ key[f] = [track |-> 1, day |-> Today] /\ phase[f] = "ahead" /\ pc[f] = "idle" /\ known[f] = {}
    BY DEF Init, Procs
  <2>2. From(f) = Today /\ To(f) = Today + Ahead /\ ~Over(f)
    BY <2>1 DEF From, To, Over
  <2>3. Passed(f) = {}
    BY <2>1, <2>2, Constants DEF Passed, Keys, Days
  <2> QED
    BY <2>1, <2>2, <2>3, Constants DEF FillSound
<1> QED
  BY <1>1, <1>2, <1>3 DEF WindowInv, FillInv

(* Rows are only added.                                                    *)
LEMMA StoredKept == ASSUME rows \subseteq rows', NEW k, Stored(k) PROVE Stored(k)'
  BY DEF Stored, Rows

(* A step that leaves a fill at its key.                                   *)
LEMMA FillKept ==
  ASSUME NEW f \in Fills, FillSound(f), rows \subseteq rows',
         key'[f] = key[f], phase'[f] = phase[f], failed[f] => failed'[f],
         \A k \in known'[f] : Stored(k)',
         pc'[f] = "idle" => pc[f] = "idle",
         pc'[f] = "ok" => ~failed'[f],
         Over(f)' => Over(f),
         ~failed'[f] /\ pc'[f] = "read" => Stored(key[f])'
  PROVE  FillSound(f)'
<1>1. From(f)' = From(f) /\ To(f)' = To(f)
  BY DEF From, To
<1>2. Passed(f)' = Passed(f)
  BY <1>1 DEF Passed
<1>3. ASSUME ~failed'[f], NEW k \in (IF Over(f) THEN Keys ELSE Passed(f))' PROVE Stored(k)'
  <2>1. k \in IF Over(f) THEN Keys ELSE Passed(f)
    BY <1>2, <1>3 DEF Passed
  <2> QED
    BY <1>3, <2>1, StoredKept DEF FillSound
<1> QED
  BY <1>1, <1>3 DEF FillSound

(* Another's step.                                                         *)
LEMMA FillUntouched ==
  ASSUME NEW f \in Fills, FillSound(f), rows \subseteq rows',
         key'[f] = key[f], phase'[f] = phase[f], failed'[f] = failed[f],
         known'[f] = known[f], pc'[f] = pc[f]
  PROVE  FillSound(f)'
<1>1. \A k \in known'[f] : Stored(k)'
  BY StoredKept DEF FillSound
<1>2. ~failed'[f] /\ pc'[f] = "read" => Stored(key[f])'
  BY StoredKept DEF FillSound
<1> QED
  BY <1>1, <1>2, FillKept DEF FillSound, Over

(* Moving on, a fill leaves behind only the key it was at.                 *)
LEMMA PassedOneMore ==
  ASSUME TypeOK, NEW f \in Fills, FillSound(f), Advance(f)
  PROVE  /\ From(f)' <= key'[f].day /\ key'[f].day <= To(f)'
         /\ \A k \in (IF Over(f) THEN Keys ELSE Passed(f))' : k \in Passed(f) \/ k = key[f]
<1> DEFINE k0 == key[f]
<1>1. f \in Procs /\ key \in [Procs -> Keys] /\ phase \in [Fills -> {"ahead", "archive"}] /\ f \in DOMAIN pc
  BY DEF TypeOK, Procs
<1>2. k0 \in Keys /\ k0.track \in 1 .. Len(Tracks) /\ k0.day \in Int /\ Len(Tracks) \in Nat
  BY <1>1, Constants DEF Keys, Days
<1>3. From(f) <= k0.day /\ k0.day <= To(f) /\ From(f) \in Int /\ To(f) \in Int
  BY Constants DEF FillSound, From, To
<1>4. \A k \in Keys : /\ k.track \in Int /\ 1 <= k.track /\ k.track <= Len(Tracks) /\ k.day \in Int
                      /\ Today - Archive <= k.day /\ k.day <= Today + Ahead
                      /\ k = [track |-> k.track, day |-> k.day]
  BY Constants DEF Keys, Days
<1>5. \A k \in Keys : k.track = k0.track /\ k.day = k0.day => k = k0
  BY <1>2, <1>4
<1>6. CASE k0.day < To(f)
  <2>1. key' = [key EXCEPT ![f].day = @ + 1] /\ pc'[f] = "look" /\ phase' = phase
    BY <1>1, <1>2, <1>3, <1>6 DEF Advance
  <2>2. key'[f].track = k0.track /\ key'[f].day = k0.day + 1
    BY <1>1, <1>2, <2>1 DEF Keys
  <2>3. From(f)' = From(f) /\ To(f)' = To(f) /\ ~Over(f)'
    BY <2>1 DEF From, To, Over
  <2>4. ASSUME NEW k \in Passed(f)', k # k0 PROVE k \in Passed(f)
    <3>1. k \in Keys
      BY DEF Passed
    <3> QED
      BY <1>2, <1>4, <1>5, <2>1, <2>2, <2>3, <2>4, <3>1 DEF Passed
  <2> QED
    BY <1>2, <1>3, <1>6, <2>2, <2>3, <2>4
<1>7. CASE k0.day >= To(f) /\ k0.track # Len(Tracks)
  <2>1. key' = [key EXCEPT ![f] = [track |-> k0.track + 1, day |-> From(f)]] /\ pc'[f] \in {"look", "scan"} /\ phase' = phase
    BY <1>1, <1>2, <1>3, <1>7 DEF Advance
  <2>2. key'[f].track = k0.track + 1 /\ key'[f].day = From(f)
    BY <1>1, <2>1
  <2>3. From(f)' = From(f) /\ To(f)' = To(f) /\ ~Over(f)' /\ From(f) <= To(f)
    BY <1>2, <1>3, <2>1 DEF From, To, Over
  <2>4. ASSUME NEW k \in Passed(f)', k # k0 PROVE k \in Passed(f)
    <3>1. k \in Keys
      BY DEF Passed
    <3> QED
      BY <1>2, <1>3, <1>4, <1>5, <1>7, <2>1, <2>2, <2>3, <2>4, <3>1 DEF Passed
  <2> QED
    BY <1>2, <1>3, <2>2, <2>3, <2>4
<1>8. CASE k0.day >= To(f) /\ k0.track = Len(Tracks) /\ phase[f] = "ahead"
  <2>1. key' = [key EXCEPT ![f] = [track |-> 1, day |-> Today - Archive]] /\ pc'[f] = "scan" /\ phase'[f] = "archive"
    BY <1>1, <1>2, <1>3, <1>8 DEF Advance
  <2>2. key'[f].track = 1 /\ key'[f].day = Today - Archive
    BY <1>1, <2>1
  <2>3. From(f) = Today /\ To(f) = Today + Ahead /\ From(f)' = Today - Archive /\ To(f)' = Today /\ ~Over(f)'
    BY <1>8, <2>1 DEF From, To, Over
  <2>4. ASSUME NEW k \in Passed(f)', k # k0 PROVE k \in Passed(f)
    <3>1. k \in Keys /\ k.day >= Today
      <4>1. k \in Keys
        BY DEF Passed
      <4>2. ~(k.track < key'[f].track) /\ ~(k.day < key'[f].day)
        BY <1>4, <2>2, <4>1, Constants
      <4> QED
        BY <4>1, <4>2 DEF Passed
    <3> QED
      BY <1>2, <1>3, <1>4, <1>5, <1>8, <2>3, <2>4, <3>1, Constants DEF Passed
  <2> QED
    BY <2>2, <2>3, <2>4, Constants
<1>9. CASE k0.day >= To(f) /\ k0.track = Len(Tracks) /\ phase[f] = "archive"
  <2>1. key' = key /\ pc'[f] = "measure" /\ phase' = phase
    BY <1>1, <1>2, <1>3, <1>9 DEF Advance
  <2>2. From(f)' = From(f) /\ To(f)' = To(f) /\ From(f) = Today - Archive /\ To(f) = Today
    BY <1>9, <2>1 DEF From, To
  <2>3. ASSUME NEW k \in Keys, k # k0 PROVE k \in Passed(f)
    BY <1>2, <1>3, <1>4, <1>5, <1>9, <2>2, <2>3 DEF Passed
  <2>4. Over(f)'
    BY <2>1 DEF Over
  <2> QED
    BY <1>3, <2>1, <2>2, <2>3, <2>4
<1> QED
  BY <1>1, <1>2, <1>3, <1>6, <1>7, <1>8, <1>9

(* A step of a request leaves every fill alone.                            *)
LEMMA FillsUntouched ==
  ASSUME TypeOK, FillInv, NEW p \in Procs, rows \subseteq rows',
         \A f \in Fills : f # p => /\ key'[f] = key[f] /\ pc'[f] = pc[f]
                                   /\ phase'[f] = phase[f] /\ known'[f] = known[f] /\ failed'[f] = failed[f],
         p \in Fills => FillSound(p)'
  PROVE  FillInv'
<1> SUFFICES ASSUME NEW f \in Fills, f # p PROVE FillSound(f)'
  BY DEF FillInv
<1> QED
  BY FillUntouched DEF FillInv

LEMMA ReadIsStoredKept ==
  ASSUME ReadIsStored, rows \subseteq rows',
         \A r \in Requests : \/ pc'[r] \notin {"read", "missing"}
                             \/ key'[r] = key[r] /\ pc[r] \in {"read", "missing"}
                             \/ \E s \in rows' : s.key = key'[r]
  PROVE  ReadIsStored'
<1> SUFFICES ASSUME NEW r \in Requests, pc'[r] \in {"read", "missing"} PROVE Stored(key[r])'
  BY DEF ReadIsStored
<1>1. CASE key'[r] = key[r] /\ pc[r] \in {"read", "missing"}
  BY <1>1, StoredKept DEF ReadIsStored
<1>2. CASE \E s \in rows' : s.key = key'[r]
  BY <1>2 DEF Stored, Rows
<1> QED
  BY <1>1, <1>2

LEMMA ExistingStored == ASSUME NEW game, NEW k \in Existing(game) PROVE Stored(k)
  BY DEF Existing, Stored, Rows

LEMMA WindowStep == TypeOK /\ PipelineInv /\ WindowInv /\ [Next]_vars => WindowInv'
<1> SUFFICES ASSUME TypeOK, PipelineInv, WindowInv, [Next]_vars PROVE WindowInv'
  OBVIOUS
<1>0. UnsolvedIsOld /\ ReadIsStored /\ FillInv
  BY DEF WindowInv
<1>1. ASSUME NEW p \in Procs, InsertBegin(p) PROVE WindowInv'
  <2>1. rows' = rows /\ key' = key /\ phase' = phase /\ known' = known /\ failed' = failed
    BY <1>1 DEF InsertBegin
  <2>2. \/ pc' = [pc EXCEPT ![p] = "read"] /\ Stored(key[p])
        \/ pc' = [pc EXCEPT ![p] = "put"]
    BY <1>1 DEF InsertBegin
  <2>3. pc[p] = "make" /\ p \in DOMAIN pc /\ \A q \in Procs : q # p => pc'[q] = pc[q]
    BY <1>1 DEF InsertBegin, TypeOK
  <2>4. Stored(key[p]) => Stored(key[p])'
    BY <2>1, StoredKept
  <2>5. ReadIsStored'
    <3>1. \A r \in Requests : \/ pc'[r] \notin {"read", "missing"}
                              \/ key'[r] = key[r] /\ pc[r] \in {"read", "missing"}
                              \/ \E s \in rows' : s.key = key'[r]
      BY <2>1, <2>2, <2>3 DEF Procs, Stored, Rows
    <3> QED
      BY <1>0, <2>1, <3>1, ReadIsStoredKept
  <2>6. ASSUME p \in Fills PROVE FillSound(p)'
    <3>1. FillSound(p)
      BY <1>0, <2>6 DEF FillInv
    <3>2. \A k \in known'[p] : Stored(k)'
      BY <2>1, <3>1, StoredKept DEF FillSound
    <3>3. pc'[p] \in {"read", "put"} /\ (pc'[p] = "read" => Stored(key[p]))
      BY <2>2, <2>3
    <3> QED
      BY <2>1, <2>4, <2>6, <3>1, <3>2, <3>3, FillKept DEF Over
  <2>7. FillInv'
    BY <1>0, <2>1, <2>3, <2>6, FillsUntouched DEF Procs
  <2> QED
    BY <1>0, <2>1, <2>5, <2>7 DEF WindowInv, UnsolvedIsOld
<1>2. ASSUME NEW p \in Procs, InsertEnd(p) PROVE WindowInv'
  <2> DEFINE row == [key |-> key[p], made |-> VersionOf[p], solved |-> TRUE, at |-> insert[p].at]
  <2>1. key' = key /\ phase' = phase /\ known' = known /\ failed' = failed
        /\ pc' = [pc EXCEPT ![p] = "read"] /\ pc[p] = "put" /\ p \in DOMAIN pc
        /\ \A q \in Procs : q # p => pc'[q] = pc[q]
    BY <1>2 DEF InsertEnd, TypeOK
  <2>2. rows' = IF Taken(key[p]) THEN rows ELSE rows \cup {row}
    BY <1>2 DEF InsertEnd
  <2>3. row.key = key[p] /\ row.solved = TRUE
    OBVIOUS
  <2> HIDE DEF row
  <2>4. rows \subseteq rows' /\ UnsolvedIsOld'
    BY <1>0, <2>2, <2>3 DEF UnsolvedIsOld
  <2>5. \E r \in rows' : r.key = key[p]
    BY <2>2, <2>3 DEF Taken, Rows
  <2>6. Stored(key[p])'
    BY <2>1, <2>5 DEF Stored, Rows
  <2>7. ReadIsStored'
    <3>1. \A r \in Requests : \/ key'[r] = key[r] /\ pc[r] \in {"read", "missing"}
                              \/ pc'[r] \notin {"read", "missing"}
                              \/ \E s \in rows' : s.key = key'[r]
      BY <2>1, <2>5 DEF Procs
    <3> QED
      BY <1>0, <2>4, <3>1, ReadIsStoredKept
  <2>8. ASSUME p \in Fills PROVE FillSound(p)'
    <3>1. FillSound(p)
      BY <1>0, <2>8 DEF FillInv
    <3>2. \A k \in known'[p] : Stored(k)'
      BY <2>1, <2>4, <3>1, StoredKept DEF FillSound
    <3> QED
      BY <2>1, <2>4, <2>6, <2>8, <3>1, <3>2, FillKept DEF Over
  <2>9. FillInv'
    BY <1>0, <2>1, <2>4, <2>8, FillsUntouched DEF Procs
  <2> QED
    BY <2>4, <2>7, <2>9 DEF WindowInv
<1>3. ASSUME NEW r \in Requests, Ask(r) \/ Look(r) \/ Read(r) PROVE WindowInv'
  <2>1. rows' = rows /\ phase' = phase /\ known' = known /\ failed' = failed /\ r \in Procs /\ r \notin Fills
    BY <1>3, PipelineAssumption DEF Ask, Look, Read, Procs, PipelineAssumption
  <2>2. \A q \in Procs : q # r => pc'[q] = pc[q] /\ key'[q] = key[q]
    BY <1>3, <2>1 DEF Ask, Look, Read, TypeOK
  <2>3. \/ pc'[r] \in {"look", "served", "make"}
        \/ key'[r] = key[r] /\ pc[r] = "read"
    BY <1>3, <2>1 DEF Ask, Look, Read, TypeOK
  <2>4. ReadIsStored'
    BY <1>0, <2>1, <2>2, <2>3, ReadIsStoredKept DEF Procs
  <2>5. FillInv'
    BY <1>0, <2>1, <2>2, FillsUntouched DEF Procs
  <2> QED
    BY <1>0, <2>1, <2>4, <2>5 DEF WindowInv, UnsolvedIsOld
<1>4. ASSUME NEW f \in Fills, Begin(f) \/ Scan(f) \/ Consider(f) \/ Advance(f) \/ Measure(f) PROVE WindowInv'
  <2>1. rows' = rows /\ f \in Procs /\ f \notin Requests
    BY <1>4, PipelineAssumption DEF Begin, Scan, Consider, Advance, Measure, Procs, PipelineAssumption
  <2>2. \A q \in Procs : q # f => pc'[q] = pc[q] /\ key'[q] = key[q]
    BY <1>4, <2>1 DEF Begin, Scan, Consider, Advance, Measure, TypeOK
  <2>3. \A g \in Fills : g # f => phase'[g] = phase[g] /\ known'[g] = known[g] /\ failed'[g] = failed[g]
    BY <1>4 DEF Begin, Scan, Consider, Advance, Measure, TypeOK
  <2>4. ReadIsStored'
    BY <1>0, <2>1, <2>2, ReadIsStoredKept DEF Procs
  <2>5. FillSound(f)
    BY <1>0 DEF FillInv
  <2>6. \A k : Stored(k) => Stored(k)'
    BY <2>1, StoredKept
  <2>7. CASE Begin(f)
    <3>1. key'[f] = key[f] /\ phase'[f] = phase[f] /\ failed'[f] = failed[f] /\ known'[f] = known[f] /\ pc'[f] = "scan"
      BY <2>1, <2>7 DEF Begin, TypeOK
    <3>2. FillSound(f)'
      <4>1. \A k \in known'[f] : Stored(k)'
        BY <2>5, <2>6, <3>1 DEF FillSound
      <4> QED
        BY <2>1, <2>5, <3>1, <4>1, FillKept DEF Over
    <3> QED
      BY <1>0, <2>1, <2>2, <2>3, <2>4, <3>2, FillsUntouched DEF WindowInv, UnsolvedIsOld, Procs
  <2>8. CASE Scan(f)
    <3>1. key'[f] = key[f] /\ phase'[f] = phase[f] /\ failed'[f] = failed[f] /\ pc'[f] = "look"
          /\ known'[f] = Existing(GameOf(f))
      BY <2>1, <2>8 DEF Scan, TypeOK
    <3>2. FillSound(f)'
      <4>1. \A k \in known'[f] : Stored(k)'
        BY <2>6, <3>1, ExistingStored
      <4> QED
        BY <2>1, <2>5, <3>1, <4>1, FillKept DEF Over
    <3> QED
      BY <1>0, <2>1, <2>2, <2>3, <2>4, <3>2, FillsUntouched DEF WindowInv, UnsolvedIsOld, Procs
  <2>9. CASE Consider(f)
    <3>1. key'[f] = key[f] /\ phase'[f] = phase[f] /\ known'[f] = known[f] /\ pc'[f] \in {"make", "read"}
          /\ (failed[f] => failed'[f])
      BY <2>1, <2>9 DEF Consider, TypeOK
    <3>2. ~failed'[f] /\ pc'[f] = "read" => key[f] \in known[f]
      BY <2>1, <2>9 DEF Consider, TypeOK
    <3>3. FillSound(f)'
      <4>1. \A k \in known'[f] : Stored(k)'
        BY <2>5, <2>6, <3>1 DEF FillSound
      <4>2. ~failed'[f] /\ pc'[f] = "read" => Stored(key[f])'
        BY <3>1, <3>2, <4>1
      <4> QED
        BY <2>1, <2>5, <3>1, <4>1, <4>2, FillKept DEF Over
    <3> QED
      BY <1>0, <2>1, <2>2, <2>3, <2>4, <3>3, FillsUntouched DEF WindowInv, UnsolvedIsOld, Procs
  <2>10. CASE Advance(f)
    <3>1. pc[f] = "read" /\ failed' = failed /\ pc'[f] \in {"look", "scan", "measure"}
          /\ (known'[f] = known[f] \/ known'[f] = {})
      BY <2>1, <2>10 DEF Advance, TypeOK
    <3>2. /\ From(f)' <= key'[f].day /\ key'[f].day <= To(f)'
          /\ \A k \in (IF Over(f) THEN Keys ELSE Passed(f))' : k \in Passed(f) \/ k = key[f]
      BY <2>5, <2>10, PassedOneMore
    <3>3. ~failed'[f] => \A k \in (IF Over(f) THEN Keys ELSE Passed(f))' : Stored(k)'
      BY <2>5, <2>6, <3>1, <3>2 DEF FillSound, Over
    <3>4. \A k \in known'[f] : Stored(k)'
      BY <2>5, <2>6, <3>1 DEF FillSound
    <3>5. FillSound(f)'
      BY <3>1, <3>2, <3>3, <3>4 DEF FillSound
    <3> QED
      BY <1>0, <2>1, <2>2, <2>3, <2>4, <3>5, FillsUntouched DEF WindowInv, UnsolvedIsOld, Procs
  <2>11. CASE Measure(f)
    <3>1. key'[f] = key[f] /\ phase'[f] = phase[f] /\ failed'[f] = failed[f] /\ known'[f] = known[f]
          /\ pc[f] = "measure" /\ pc'[f] \in {"ok", "busy"} /\ (pc'[f] = "ok" => ~failed[f])
      BY <2>1, <2>11 DEF Measure, Healthy, TypeOK
    <3>2. FillSound(f)'
      <4>1. \A k \in known'[f] : Stored(k)'
        BY <2>5, <2>6, <3>1 DEF FillSound
      <4> QED
        BY <2>1, <2>5, <3>1, <4>1, FillKept DEF Over
    <3> QED
      BY <1>0, <2>1, <2>2, <2>3, <2>4, <3>2, FillsUntouched DEF WindowInv, UnsolvedIsOld, Procs
  <2> QED
    BY <1>4, <2>7, <2>8, <2>9, <2>10, <2>11
<1>5. CASE UNCHANGED vars
  BY <1>0, <1>5 DEF vars, WindowInv, UnsolvedIsOld, ReadIsStored, FillInv, FillSound, Stored, Rows, From, To, Over, Passed
<1> QED
  BY <1>1, <1>2, <1>3, <1>4, <1>5 DEF Next, Fill, Resolve, Procs

(* store::fetch finds the oldest row of a key: there is one, and it has a   *)
(* solution unless the key is old.                                         *)
LEMMA Least == ASSUME NEW S \in SUBSET Nat, S # {} PROVE \E x \in S : \A y \in S : x <= y
<1> DEFINE Below == {ss \in Nat \X Nat : ss[1] < ss[2]}
<1>1. IsWellFoundedOn(Below, Nat)
  BY NatLessThanWellFounded, Zenon DEF OpToRel
<1> HIDE DEF Below
<1>2. PICK x \in S : \A y \in S : ~ (<<y, x>> \in Below)
  BY <1>1, WFMin
<1>3. \A y \in S : ~ (y < x)
  BY <1>2 DEF Below
<1> QED
  BY <1>3

LEMMA StoredIsFound ==
  ASSUME TypeOK, UnsolvedIsOld, NEW k \in Keys \ Unsolved, Stored(k)
  PROVE  Found(k) # {}
<1> DEFINE Starts == {r.at : r \in Rows(k)}
<1>1. Starts \in SUBSET Nat /\ Starts # {}
  BY DEF TypeOK, Stored, Rows
<1>2. PICK a \in Starts : \A b \in Starts : a <= b
  BY <1>1, Least
<1>3. PICK r \in Rows(k) : r.at = a
  BY <1>2
<1>4. r.solved /\ \A s \in Rows(k) : r.at <= s.at
  BY <1>2, <1>3 DEF UnsolvedIsOld, Rows
<1> QED
  BY <1>3, <1>4 DEF Found

LEMMA MissingStep == TypeOK /\ WindowInv /\ NeverMissing /\ [Next]_vars => NeverMissing'
<1> SUFFICES ASSUME TypeOK, WindowInv, NeverMissing, [Next]_vars,
                    NEW r \in Requests, pc'[r] = "missing"
             PROVE  key'[r] \in Unsolved
  BY DEF NeverMissing
<1>1. r \in Procs /\ key[r] \in Keys /\ r \in DOMAIN pc
  BY DEF TypeOK, Procs
<1>2. CASE pc[r] = "missing" /\ key'[r] = key[r]
  BY <1>2 DEF NeverMissing
<1>3. CASE Read(r)
  <2>1. Found(key[r]) = {} /\ key'[r] = key[r]
    BY <1>1, <1>3 DEF Read
  <2>2. Stored(key[r])
    BY <1>3 DEF Read, WindowInv, ReadIsStored
  <2> QED
    BY <1>1, <2>1, <2>2, StoredIsFound DEF WindowInv
<1>4. ASSUME NEW p \in Procs, InsertBegin(p) \/ InsertEnd(p) PROVE pc[r] = "missing" /\ key'[r] = key[r]
  BY <1>1, <1>4 DEF InsertBegin, InsertEnd, TypeOK
<1>5. ASSUME NEW q \in Requests, Ask(q) \/ Look(q) PROVE pc[r] = "missing" /\ key'[r] = key[r]
  BY <1>1, <1>5 DEF Ask, Look, TypeOK
<1>6. ASSUME NEW q \in Requests, Read(q), q # r PROVE pc[r] = "missing" /\ key'[r] = key[r]
  BY <1>1, <1>6 DEF Read, TypeOK
<1>7. ASSUME NEW f \in Fills, Begin(f) \/ Scan(f) \/ Consider(f) \/ Advance(f) \/ Measure(f)
      PROVE  pc[r] = "missing" /\ key'[r] = key[r]
  <2>1. f # r
    BY PipelineAssumption DEF PipelineAssumption
  <2> QED
    BY <1>1, <1>7, <2>1 DEF Begin, Scan, Consider, Advance, Measure, TypeOK
<1>8. CASE UNCHANGED vars
  BY <1>2, <1>8 DEF vars
<1> QED
  BY <1>2, <1>3, <1>4, <1>5, <1>6, <1>7, <1>8 DEF Next, Fill, Resolve, Procs

LEMMA WindowInvCorrect == Spec => [](TypeOK /\ WindowInv /\ NeverMissing)
<1> DEFINE Inv == TypeOK /\ PipelineInv /\ WindowInv /\ NeverMissing
<1>1. Init => NeverMissing
  BY DEF Init, NeverMissing, Procs
<1>2. Init => Inv
  BY <1>1, TypeInit, InvInit, WindowInit
<1>3. Inv /\ [Next]_vars => Inv'
  BY TypeStep, InvStep, WindowStep, MissingStep
<1> QED
  BY <1>2, <1>3, PTL DEF Spec

(* mod.rs, fill: one that answers 200 left a playable puzzle for every key of *)
(* its window that was not stored without a solution before the pipeline.  It *)
(* leaves a key behind only when a row is there, and rows are never deleted.  *)
THEOREM OkMeansFilledCorrect == Spec => []OkMeansFilled
<1>1. TypeOK /\ WindowInv => OkMeansFilled
  <2> SUFFICES ASSUME TypeOK, WindowInv, NEW f \in Fills, pc[f] = "ok", NEW k \in Keys \ Unsolved
               PROVE  Found(k) # {}
    BY DEF OkMeansFilled
  <2>1. FillSound(f)
    BY DEF WindowInv, FillInv
  <2>2. Stored(k)
    BY <2>1 DEF FillSound, Over
  <2> QED
    BY <2>2, StoredIsFound DEF WindowInv
<1> QED
  BY <1>1, WindowInvCorrect, PTL

(* mod.rs, resolve: the puzzle a request stored, or found stored by another, *)
(* is there when it reads back.                                             *)
THEOREM NeverMissingCorrect == Spec => []NeverMissing
  BY WindowInvCorrect, PTL
=============================================================================
