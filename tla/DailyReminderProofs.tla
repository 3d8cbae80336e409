-------------------------- MODULE DailyReminderProofs --------------------------
(***************************************************************************)
(* What TLAPS proves of DailyReminder for any number of ticks, players and *)
(* browsers, any time zones, leases and batches.                           *)
(***************************************************************************)
EXTENDS DailyReminder, TLAPS, FiniteSetTheorems, NaturalsInduction, WellFoundedInduction

------------------------------------------------------------------------------
(* Extremes of sets of naturals.                                             *)

LEMMA Least == ASSUME NEW S \in SUBSET Nat, S # {} PROVE \E x \in S : \A y \in S : x <= y
<1> DEFINE R == {ss \in Nat \X Nat : ss[1] < ss[2]}
<1>1. IsWellFoundedOn(R, Nat)
  BY NatLessThanWellFounded, Zenon DEF OpToRel
<1> HIDE DEF R
<1>2. PICK x \in S : \A y \in S : ~ (<<y, x>> \in R)
  BY <1>1, WFMin
<1>3. \A y \in S : ~ (y < x)
  BY <1>2 DEF R
<1> QED
  BY <1>3

(* By the least cardinality of a set without a greatest member.              *)
LEMMA Greatest ==
    ASSUME NEW S \in SUBSET Nat, S # {}, IsFiniteSet(S)
    PROVE  \E x \in S : \A y \in S : x >= y
<1> DEFINE Topped(X) == \E x \in X : \A y \in X : x >= y
           Odd == {X \in SUBSET Nat : X # {} /\ IsFiniteSet(X) /\ ~Topped(X)}
           Sizes == {Cardinality(X) : X \in Odd}
<1>1. Sizes \in SUBSET Nat
  BY FS_CardinalityType
<1>2. SUFFICES ASSUME Odd # {} PROVE FALSE
  OBVIOUS
<1>3. PICK n \in Sizes : \A m \in Sizes : n <= m
  <2>1. Sizes # {}
    BY <1>2
  <2> HIDE DEF Sizes
  <2> QED
    BY <1>1, <2>1, Least
<1>4. PICK X \in Odd : Cardinality(X) = n
  BY <1>3
<1>5. PICK x \in X : TRUE
  BY <1>4
<1>6. /\ IsFiniteSet(X \ {x}) /\ Cardinality(X \ {x}) = n - 1
      /\ X \ {x} \in SUBSET Nat /\ n \in Nat /\ x \in Nat
  BY <1>1, <1>4, <1>5, FS_RemoveElement
<1>7. X \ {x} # {}
  <2>1. SUFFICES ASSUME X = {x} PROVE FALSE
    BY <1>5
  <2>2. Topped(X)
    BY <2>1, <1>6
  <2> QED
    BY <2>2, <1>4
<1>8. Topped(X \ {x})
  <2>1. SUFFICES ASSUME X \ {x} \in Odd PROVE FALSE
    BY <1>6, <1>7
  <2>2. n <= n - 1
    BY <2>1, <1>3, <1>6
  <2> QED
    BY <2>2, <1>6
<1>9. PICK y \in X \ {x} : \A z \in X \ {x} : y >= z
  BY <1>8
<1>10. Topped(X)
  <2>1. CASE x >= y
    <3>1. \A z \in X : x >= z
      BY <2>1, <1>6, <1>9
    <3> QED
      BY <3>1, <1>5
  <2>2. CASE ~(x >= y)
    <3>1. \A z \in X : y >= z
      BY <2>2, <1>6, <1>9
    <3> QED
      BY <3>1, <1>9
  <2> QED
    BY <2>1, <2>2
<1> QED
  BY <1>10, <1>4

LEMMA MinIn == ASSUME NEW S \in SUBSET Nat, S # {} PROVE Min(S) \in S
  BY Least DEF Min

LEMMA MaxIn ==
    ASSUME NEW S \in SUBSET Nat, S # {}, IsFiniteSet(S)
    PROVE  Max(S) \in S /\ \A y \in S : Max(S) >= y
  BY Greatest DEF Max

(* Division keeps the order.                                                 *)
LEMMA DivMono ==
    ASSUME NEW a \in Nat, NEW b \in Nat, NEW d \in Nat \ {0}, a <= b
    PROVE  a \div d \in Nat /\ b \div d \in Nat /\ a \div d <= b \div d
<1>1. a \div d \in Nat /\ b \div d \in Nat
  OBVIOUS
<1>2. a \div d <= b \div d
  OBVIOUS
<1> QED
  BY <1>1, <1>2

------------------------------------------------------------------------------
(* Types.                                                                    *)

LEMMA Settings ==
    /\ Players \subseteq Nat \ {0} /\ IsFiniteSet(Players)
    /\ None \notin Ticks
    /\ BrowsersOf \in [Players -> SUBSET Browsers]
    /\ \A p, q \in Players : p # q => BrowsersOf[p] \cap BrowsersOf[q] = {}
    /\ Max(Zones) \in Zones /\ \A z \in Zones : z \in Nat /\ z <= Max(Zones)
    /\ Min(Times) \in Times
    /\ HomeZone \in Nat /\ DayLength \in Nat \ {0}
    /\ Reserve \in Nat /\ MaxClock \in Nat /\ Lease \in Nat
<1>1. Zones \in SUBSET Nat /\ Zones # {} /\ IsFiniteSet(Zones) /\ Times \in SUBSET Nat /\ Times # {}
  BY SetupAssumption DEF SetupAssumption
<1>2. Max(Zones) \in Zones /\ \A z \in Zones : z \in Nat /\ z <= Max(Zones)
  BY <1>1, MaxIn
<1>3. Min(Times) \in Times
  BY <1>1, MinIn
<1> QED
  BY <1>2, <1>3, PlayersAssumption, SetupAssumption DEF PlayersAssumption, SetupAssumption

LEMMA LocalDayType ==
    ASSUME NEW p \in Players, zone \in [Players -> Zones], NEW t \in 0 .. MaxClock
    PROVE  LocalDay(p, t) \in Days
<1>1. t + zone[p] \in Nat /\ MaxClock + HomeZone + Max(Zones) \in Nat
      /\ t + zone[p] <= MaxClock + HomeZone + Max(Zones)
  BY Settings
<1> QED
  BY <1>1, DivMono, Settings DEF LocalDay, Days

LEMMA ProductDayType == ASSUME NEW t \in 0 .. MaxClock PROVE ProductDay(t) \in Days
<1>1. t + HomeZone \in Nat /\ MaxClock + HomeZone + Max(Zones) \in Nat
      /\ t + HomeZone <= MaxClock + HomeZone + Max(Zones)
  BY Settings
<1> QED
  BY <1>1, DivMono, Settings DEF ProductDay, Days

LEMMA PageType == ASSUME NEW w \in Ticks, Page(w) # {} PROVE Page(w) \subseteq Players /\ Max(Page(w)) \in Page(w)
<1>1. Page(w) \in SUBSET Players
  BY DEF Page
<1>2. Page(w) \in SUBSET Nat /\ IsFiniteSet(Page(w))
  BY <1>1, Settings, FS_Subset
<1> QED
  BY <1>1, <1>2, MaxIn

(* A page in work has a first claim.                                         *)
LEMMA FirstType == ASSUME TypeOK, NEW w \in Ticks, queue[w] # {} PROVE First(w) \in queue[w] /\ First(w) \in Claims
<1> DEFINE S == {c.player : c \in queue[w]}
<1>1. queue[w] \subseteq Claims
  BY DEF TypeOK
<1>2. S \in SUBSET Nat /\ S # {}
  BY <1>1, Settings DEF Claims
<1>3. PICK n \in S : \A m \in S : n <= m
  BY <1>2, Least
<1>4. PICK c \in queue[w] : c.player = n
  BY <1>3
<1>5. \A d \in queue[w] : c.player <= d.player
  BY <1>3, <1>4
<1> QED
  BY <1>1, <1>4, <1>5 DEF First

Delivering(w) == pc[w] \in {"send", "finish"}

(* A tick delivers a claim.                                                  *)
HasClaim == \A w \in Ticks : Delivering(w) => cur[w] \in Claims

LEMMA TypeInit == Init => TypeOK /\ HasClaim
<1>1. SUFFICES ASSUME Init PROVE TypeOK /\ HasClaim
  OBVIOUS
<1>2. clock \in 0 .. MaxClock /\ 0 \in 0 .. MaxClock
  BY <1>1, Settings DEF Init
<1>3. zone \in [Players -> Zones] /\ time \in [Players -> Times] /\ subs \in [Players -> SUBSET Browsers]
  BY <1>1, Settings DEF Init
<1> QED
  BY <1>1, <1>2, <1>3 DEF Init, TypeOK, HasClaim, Delivering

LEMMA TypeStep == TypeOK /\ HasClaim /\ [Next]_vars => TypeOK' /\ HasClaim'
<1> SUFFICES ASSUME TypeOK, HasClaim, [Next]_vars PROVE TypeOK' /\ HasClaim'
  OBVIOUS
<1> USE DEF rows, work
<1>1. CASE Pass
  BY <1>1, Settings DEF Pass, TypeOK, HasClaim, Delivering
<1>2. ASSUME NEW p \in Players, FinishPuzzle(p) PROVE TypeOK' /\ HasClaim'
  <2>1. ProductDay(clock) \in Days
    BY ProductDayType DEF TypeOK
  <2> QED
    BY <1>2, <2>1 DEF FinishPuzzle, TypeOK, HasClaim, Delivering
<1>3. ASSUME NEW p \in Players, Prefer(p) PROVE TypeOK' /\ HasClaim'
  BY <1>3 DEF Prefer, TypeOK, HasClaim, Delivering
<1>4. ASSUME NEW w \in Ticks, Begin(w) PROVE TypeOK' /\ HasClaim'
  BY <1>4 DEF Begin, TypeOK, HasClaim, Delivering
<1>5. ASSUME NEW w \in Ticks, Claim(w) PROVE TypeOK' /\ HasClaim'
  <2>1. Page(w) \subseteq Players /\ Max(Page(w)) \in Page(w)
    BY <1>5, PageType DEF Claim
  <2>2. at[w] \in 0 .. MaxClock /\ at[w] + Lease \in Nat /\ \A p \in Players : LocalDay(p, at[w]) \in Days
    BY LocalDayType, Settings DEF TypeOK
  <2>3. lease' \in [Players -> Leases \cup {NoLease}]
    BY <1>5, <2>2 DEF Claim, TypeOK, Leases
  <2>4. queue' \in [Ticks -> SUBSET Claims]
    BY <1>5, <2>1, <2>2 DEF Claim, TypeOK, Claims
  <2>5. cursor' \in [Ticks -> Players \cup {0}] /\ at' \in [Ticks -> 0 .. MaxClock]
    BY <1>5, <2>1, Settings DEF Claim, TypeOK
  <2> QED
    BY <1>5, <2>3, <2>4, <2>5 DEF Claim, TypeOK, HasClaim, Delivering
<1>6. ASSUME NEW w \in Ticks, NothingDue(w) PROVE TypeOK' /\ HasClaim'
  BY <1>6, Settings DEF NothingDue, End, TypeOK, HasClaim, Delivering
<1>7. ASSUME NEW w \in Ticks, PageDone(w) PROVE TypeOK' /\ HasClaim'
  BY <1>7 DEF PageDone, TypeOK, HasClaim, Delivering
<1>8. ASSUME NEW w \in Ticks, TooLate(w) PROVE TypeOK' /\ HasClaim'
  BY <1>8 DEF TooLate, TypeOK, HasClaim, Delivering
<1>9. ASSUME NEW w \in Ticks, Start(w) PROVE TypeOK' /\ HasClaim'
  <2>1. First(w) \in Claims /\ First(w).player \in Players
    BY <1>9, FirstType DEF Start, Claims
  <2>2. ready' \in [Ticks -> SUBSET Browsers] /\ bad' \in [Ticks -> BOOLEAN]
    BY <1>9, <2>1 DEF Start, TypeOK
  <2> QED
    BY <1>9, <2>1, <2>2 DEF Start, TypeOK, HasClaim, Delivering
<1>10. ASSUME NEW w \in Ticks, Push(w) PROVE TypeOK' /\ HasClaim'
  <2>1. cur[w].player \in Players /\ cur[w].on \in Days
    BY <1>10 DEF Push, HasClaim, Delivering, Claims
  <2>2. ready' \in [Ticks -> SUBSET Browsers] /\ pushed' \subseteq Browsers \X Days \X Ticks
    BY <1>10, <2>1 DEF Push, TypeOK
  <2>3. got' \in [Ticks -> BOOLEAN] /\ bad' \in [Ticks -> BOOLEAN]
    BY <1>10 DEF Push, TypeOK
  <2>4. \/ UNCHANGED subs
        \/ \E b \in Browsers : subs' = [subs EXCEPT ![cur[w].player] = @ \ {b}]
    BY <1>10 DEF Push, TypeOK
  <2>5. subs' \in [Players -> SUBSET Browsers]
    BY <2>1, <2>4 DEF TypeOK
  <2> QED
    BY <1>10, <2>2, <2>3, <2>5 DEF Push, TypeOK, HasClaim, Delivering
<1>11. ASSUME NEW w \in Ticks, Delivered(w) PROVE TypeOK' /\ HasClaim'
  BY <1>11 DEF Delivered, TypeOK, HasClaim, Delivering
<1>12. ASSUME NEW w \in Ticks, Finish(w) PROVE TypeOK' /\ HasClaim'
  <2>1. cur[w].player \in Players /\ cur[w].on \in Days
    BY <1>12 DEF Finish, HasClaim, Delivering, Claims
  <2>2. lease' \in [Players -> Leases \cup {NoLease}]
    BY <1>12, <2>1 DEF Finish, TypeOK
  <2>3. last' \in [Players -> Days \cup {None}] /\ acked' \subseteq Players \X Days \X Ticks
    BY <1>12, <2>1 DEF Finish, TypeOK
  <2>4. errors' \in [Ticks -> BOOLEAN]
    BY <1>12 DEF Finish, TypeOK, Complaint
  <2>5. cur' \in [Ticks -> Claims \cup {None}] /\ doneAt' \in [Ticks -> 0 .. MaxClock]
    BY <1>12, Settings DEF Finish, Forget, TypeOK
  <2> QED
    BY <1>12, <2>2, <2>3, <2>4, <2>5 DEF Finish, Forget, TypeOK, HasClaim, Delivering
<1>13. ASSUME NEW w \in Ticks, Crash(w) PROVE TypeOK' /\ HasClaim'
  BY <1>13, Settings DEF Crash, End, Forget, TypeOK, HasClaim, Delivering
<1>14. CASE UNCHANGED vars
  BY <1>14 DEF vars, TypeOK, HasClaim, Delivering
<1> QED
  BY <1>1, <1>2, <1>3, <1>4, <1>5, <1>6, <1>7, <1>8, <1>9, <1>10, <1>11, <1>12, <1>13, <1>14
     DEF Next, Step

(* Every variable keeps its type: days stay in range, cursors are players,   *)
(* claims are of players.                                                    *)
THEOREM TypeCorrect == Spec => []TypeOK
<1>1. Spec => [](TypeOK /\ HasClaim)
  BY TypeInit, TypeStep, PTL DEF Spec
<1> QED
  BY <1>1, PTL

------------------------------------------------------------------------------
(* Leases.  A claim whose lease is not over is the one its player's row      *)
(* carries, whoever else has looked at the row meanwhile.                    *)

(* The page was claimed for a time that is past.                             *)
Backward(w) == at[w] <= clock

(* A tick holds one claim of a player.                                       *)
OneClaimEach(w) ==
    /\ \A c, d \in queue[w] : c.player = d.player => c = d
    /\ Delivering(w) => \A c \in queue[w] : c.player # cur[w].player

OnRow(c, w) == c.until > clock => lease[c.player].tick = w /\ lease[c.player].until = c.until

Held(w) ==
    /\ \A c \in queue[w] : OnRow(c, w)
    /\ Delivering(w) => OnRow(cur[w], w)

LeaseInv == \A w \in Ticks : Backward(w) /\ OneClaimEach(w) /\ Held(w)

(* A step of one tick leaves what the others hold alone.                     *)
Kept(v) ==
    /\ pc'[v] = pc[v] /\ at'[v] = at[v] /\ queue'[v] = queue[v] /\ cur'[v] = cur[v]
    /\ ready'[v] = ready[v] /\ got'[v] = got[v] /\ bad'[v] = bad[v] /\ errors'[v] = errors[v]

LEMMA OthersKept ==
    ASSUME TypeOK, NEW w \in Ticks, Begin(w) \/ Step(w) \/ Crash(w), NEW v \in Ticks \ {w}
    PROVE  Kept(v) /\ clock' = clock
<1> USE DEF TypeOK, Kept, rows, work
<1>1. CASE Begin(w) \/ Claim(w) \/ NothingDue(w) \/ PageDone(w)
  BY <1>1 DEF Begin, Claim, NothingDue, PageDone, End
<1>2. CASE TooLate(w) \/ Start(w)
  BY <1>2 DEF TooLate, Start
<1>3. CASE Push(w)
  BY <1>3 DEF Push
<1>4. CASE Delivered(w) \/ Finish(w) \/ Crash(w)
  BY <1>4 DEF Delivered, Finish, Crash, End, Forget
<1> QED
  BY <1>1, <1>2, <1>3, <1>4 DEF Step

LEMMA LeaseInit == Init => LeaseInv
<1>1. SUFFICES ASSUME Init, NEW w \in Ticks PROVE Backward(w) /\ OneClaimEach(w) /\ Held(w)
  BY DEF LeaseInv
<1> QED
  BY <1>1 DEF Init, Backward, OneClaimEach, Held, Delivering

(* With the row of a player unchanged and no less time, a claim stays on it. *)
LEMMA OnRowKept ==
    ASSUME TypeOK, TypeOK', NEW c \in Claims, NEW w \in Ticks, OnRow(c, w), clock <= clock',
           lease'[c.player] = lease[c.player]
    PROVE  OnRow(c, w)'
<1>1. clock \in Nat /\ clock' \in Nat /\ c.until \in Nat
  BY DEF TypeOK, Claims
<1> QED
  BY <1>1 DEF OnRow

(* A step that changes no lease and no claim, as time passes or not.         *)
LEMMA QuietKeeps ==
    ASSUME TypeOK, TypeOK', HasClaim, LeaseInv, NEW w \in Ticks, Kept(w), clock <= clock', lease' = lease
    PROVE  Backward(w)' /\ OneClaimEach(w)' /\ Held(w)'
<1>1. Backward(w)'
  BY DEF LeaseInv, Backward, Kept, TypeOK
<1>2. OneClaimEach(w)'
  BY DEF LeaseInv, OneClaimEach, Kept, Delivering
<1>3. \A c \in queue'[w] : OnRow(c, w)'
  BY OnRowKept DEF LeaseInv, Held, Kept, TypeOK
<1>4. Delivering(w)' => OnRow(cur[w], w)'
  BY OnRowKept DEF LeaseInv, Held, Kept, Delivering, HasClaim
<1> QED
  BY <1>1, <1>2, <1>3, <1>4 DEF Held, Kept

(* A page is claimed: only leases that are over change hands.                *)
LEMMA ClaimKeeps == ASSUME TypeOK, TypeOK', HasClaim, LeaseInv, NEW w \in Ticks, Claim(w) PROVE LeaseInv'
<1>1. SUFFICES ASSUME NEW v \in Ticks PROVE Backward(v)' /\ OneClaimEach(v)' /\ Held(v)'
  BY DEF LeaseInv
<1>2. clock \in Nat /\ clock' = clock /\ at[w] \in Nat /\ at[w] <= clock /\ at[w] + Lease \in Nat
  BY Settings DEF TypeOK, LeaseInv, Backward, Claim
<1>3. CASE v = w
  <2>1. Backward(w)' /\ ~Delivering(w)'
    BY <1>2 DEF Claim, Backward, TypeOK, Delivering
  <2>2. queue'[w] = {[player |-> p, on |-> LocalDay(p, at[w]), until |-> at[w] + Lease] : p \in Page(w)}
    BY DEF Claim, TypeOK
  <2>3. \A c, d \in queue'[w] : c.player = d.player => c = d
    BY <2>2
  <2>4. \A c \in queue'[w] : lease'[c.player].tick = w /\ lease'[c.player].until = c.until
    <3>1. \A p \in Page(w) : lease'[p].tick = w /\ lease'[p].until = at[w] + Lease
      BY <1>2 DEF Claim, Page
    <3>2. SUFFICES ASSUME NEW c \in queue'[w]
                   PROVE  lease'[c.player].tick = w /\ lease'[c.player].until = c.until
      OBVIOUS
    <3>3. PICK p \in Page(w) : c = [player |-> p, on |-> LocalDay(p, at[w]), until |-> at[w] + Lease]
      BY <2>2
    <3>4. c.player = p /\ c.until = at[w] + Lease
      BY <3>3
    <3> QED
      BY <3>1, <3>4
  <2> QED
    BY <1>3, <2>1, <2>3, <2>4 DEF OneClaimEach, Held, OnRow
<1>4. CASE v # w
  <2>1. Kept(v)
    BY <1>4, OthersKept DEF Step
  <2>2. \A c \in Claims : OnRow(c, v) => OnRow(c, v)'
    <3>1. SUFFICES ASSUME NEW c \in Claims, OnRow(c, v), c.until > clock PROVE OnRow(c, v)'
      BY <1>2 DEF OnRow
    <3>2. lease[c.player].tick = v /\ lease[c.player].until = c.until /\ c.until \in Nat /\ c.player \in Players
      BY <3>1 DEF OnRow, Claims
    <3>3. c.player \notin Page(w)
      <4>1. SUFFICES ASSUME LeaseOver(c.player, at[w]) PROVE FALSE
        BY DEF Page, Due
      <4>2. lease[c.player] # NoLease
        BY <3>2, Settings DEF NoLease
      <4> QED
        BY <4>1, <4>2, <3>1, <3>2, <1>2 DEF LeaseOver
    <3>4. lease'[c.player] = lease[c.player]
      BY <3>2, <3>3 DEF Claim
    <3> QED
      BY <3>1, <3>4, <1>2, OnRowKept
  <2>3. Backward(v)' /\ OneClaimEach(v)'
    BY <1>2, <2>1 DEF LeaseInv, Backward, OneClaimEach, Kept, Delivering
  <2>4. \A c \in queue[v] : OnRow(c, v)'
    BY <2>2 DEF LeaseInv, Held, TypeOK
  <2>5. Delivering(v) => OnRow(cur[v], v)'
    BY <2>1, <2>2 DEF LeaseInv, Held, HasClaim, Kept
  <2> QED
    BY <2>1, <2>3, <2>4, <2>5 DEF Held, Kept, Delivering
<1> QED
  BY <1>3, <1>4

(* The statement that ends a claim clears this claim's lease only.           *)
LEMMA FinishKeeps == ASSUME TypeOK, TypeOK', HasClaim, LeaseInv, NEW w \in Ticks, Finish(w) PROVE LeaseInv'
<1>1. SUFFICES ASSUME NEW v \in Ticks PROVE Backward(v)' /\ OneClaimEach(v)' /\ Held(v)'
  BY DEF LeaseInv
<1>2. /\ cur[w] \in Claims /\ cur[w].player \in Players /\ pc[w] = "finish"
      /\ clock' = clock /\ at' = at /\ queue' = queue /\ ~Delivering(w)' /\ clock <= clock'
  BY DEF HasClaim, Finish, Delivering, Claims, TypeOK
<1>3. \/ lease' = lease
      \/ lease' = [lease EXCEPT ![cur[w].player] = NoLease] /\ lease[cur[w].player].tick = w
  BY DEF Finish, Owns
<1>4. CASE v = w
  <2>1. \A c \in queue[w] : lease'[c.player] = lease[c.player]
    BY <1>2, <1>3 DEF LeaseInv, OneClaimEach, Delivering, TypeOK, Claims
  <2>2. \A c \in queue'[w] : OnRow(c, w)'
    BY <1>2, <2>1, OnRowKept DEF LeaseInv, Held, TypeOK
  <2> QED
    BY <1>2, <1>4, <2>2 DEF LeaseInv, Backward, OneClaimEach, Held
<1>5. CASE v # w
  <2>1. Kept(v)
    BY <1>5, OthersKept DEF Step
  <2>2. \A c \in Claims : OnRow(c, v) => OnRow(c, v)'
    <3>1. SUFFICES ASSUME NEW c \in Claims, OnRow(c, v), c.until > clock PROVE OnRow(c, v)'
      BY <1>2 DEF OnRow
    <3>2. lease[c.player].tick = v /\ c.player \in Players
      BY <3>1 DEF OnRow, Claims
    <3>3. lease'[c.player] = lease[c.player]
      BY <1>2, <1>3, <1>5, <3>2 DEF TypeOK
    <3> QED
      BY <1>2, <3>1, <3>3, OnRowKept
  <2>3. Backward(v)' /\ OneClaimEach(v)'
    BY <1>2, <2>1 DEF LeaseInv, Backward, OneClaimEach, Kept, Delivering
  <2>4. \A c \in queue[v] : OnRow(c, v)'
    BY <2>2 DEF LeaseInv, Held, TypeOK
  <2>5. Delivering(v) => OnRow(cur[v], v)'
    BY <2>1, <2>2 DEF LeaseInv, Held, HasClaim, Kept
  <2> QED
    BY <2>1, <2>3, <2>4, <2>5 DEF Held, Kept, Delivering
<1> QED
  BY <1>4, <1>5

(* Steps of a tick that change no lease.                                     *)
LEMMA TickKeeps ==
    ASSUME TypeOK, TypeOK', HasClaim, LeaseInv, NEW w \in Ticks, Begin(w) \/ Step(w) \/ Crash(w),
           ~Claim(w), ~Finish(w)
    PROVE  LeaseInv'
<1> USE DEF rows
<1>1. lease' = lease /\ clock' = clock /\ clock \in Nat /\ clock <= clock'
  BY DEF Begin, Step, NothingDue, PageDone, End, TooLate, Start, Push, Delivered, Crash, TypeOK
<1>2. Backward(w)'
  <2>1. at'[w] \in {0, clock, at[w]}
    BY DEF Begin, Step, NothingDue, PageDone, End, TooLate, Start, Push, Delivered, Crash, TypeOK
  <2> QED
    BY <1>1, <2>1 DEF LeaseInv, Backward
<1>3. queue'[w] \subseteq queue[w]
  BY DEF Begin, Step, NothingDue, PageDone, End, TooLate, Start, Push, Delivered, Crash, TypeOK
<1>4. \A c \in queue'[w] : OnRow(c, w)'
  BY <1>1, <1>3, OnRowKept DEF LeaseInv, Held, TypeOK
<1>5. Delivering(w)' => (\A c \in queue'[w] : c.player # cur'[w].player) /\ OnRow(cur[w], w)'
  <2>1. CASE Start(w)
    <3>1. First(w) \in queue[w] /\ First(w) \in Claims
      BY <2>1, FirstType DEF Start
    <3>2. cur'[w] = First(w) /\ queue'[w] = queue[w] \ {First(w)}
      BY <2>1 DEF Start, TypeOK
    <3> QED
      BY <1>1, <3>1, <3>2, OnRowKept DEF LeaseInv, OneClaimEach, Held
  <2>2. CASE Push(w) \/ Delivered(w)
    <3>1. Delivering(w) /\ cur'[w] = cur[w] /\ queue'[w] = queue[w] /\ cur[w] \in Claims
      BY <2>2 DEF Push, Delivered, Delivering, HasClaim
    <3> QED
      BY <1>1, <3>1, OnRowKept DEF LeaseInv, OneClaimEach, Held
  <2>3. CASE ~Start(w) /\ ~Push(w) /\ ~Delivered(w)
    BY <2>3 DEF Begin, Step, NothingDue, PageDone, TooLate, Crash, Delivering, TypeOK
  <2> QED
    BY <2>1, <2>2, <2>3
<1>6. OneClaimEach(w)'
  BY <1>3, <1>5 DEF LeaseInv, OneClaimEach
<1>7. \A v \in Ticks \ {w} : Backward(v)' /\ OneClaimEach(v)' /\ Held(v)'
  BY <1>1, OthersKept, QuietKeeps
<1> QED
  BY <1>2, <1>4, <1>5, <1>6, <1>7 DEF LeaseInv, Held

LEMMA LeaseStep == TypeOK /\ TypeOK' /\ HasClaim /\ LeaseInv /\ [Next]_vars => LeaseInv'
<1> SUFFICES ASSUME TypeOK, TypeOK', HasClaim, LeaseInv, [Next]_vars PROVE LeaseInv'
  OBVIOUS
<1>1. ASSUME NEW w \in Ticks, Begin(w) \/ Step(w) \/ Crash(w) PROVE LeaseInv'
  BY <1>1, ClaimKeeps, FinishKeeps, TickKeeps
<1>2. CASE Pass \/ (\E p \in Players : FinishPuzzle(p) \/ Prefer(p)) \/ UNCHANGED vars
  <2>1. lease' = lease /\ clock <= clock' /\ \A w \in Ticks : Kept(w)
    BY <1>2 DEF Pass, FinishPuzzle, Prefer, vars, rows, work, Kept, TypeOK
  <2> QED
    BY <2>1, QuietKeeps DEF LeaseInv
<1> QED
  BY <1>1, <1>2 DEF Next

(* While a tick may still push to a player no other tick may.                *)
THEOREM OneSenderCorrect == Spec => []OneSender
<1>1. TypeOK /\ HasClaim /\ LeaseInv => OneSender
  <2>1. SUFFICES ASSUME TypeOK, HasClaim, LeaseInv,
                        NEW v \in Ticks, NEW w \in Ticks, v # w,
                        pc[v] = "send", pc[w] = "send", cur[v].player = cur[w].player,
                        InTime(v), InTime(w)
                 PROVE  FALSE
    BY DEF OneSender
  <2>2. \A u \in {v, w} : cur[u].until > clock
    <3>1. SUFFICES ASSUME NEW u \in {v, w} PROVE cur[u].until > clock
      OBVIOUS
    <3>2. cur[u].until \in Nat /\ clock \in Nat /\ clock < cur[u].until - Reserve
      BY <2>1 DEF InTime, Until, HasClaim, Delivering, Claims, TypeOK
    <3> QED
      BY <3>2, Settings
  <2>3. \A u \in {v, w} : lease[cur[u].player].tick = u
    BY <2>1, <2>2 DEF LeaseInv, Held, OnRow, Delivering
  <2> QED
    BY <2>1, <2>3
<1>2. Init => TypeOK /\ HasClaim /\ LeaseInv
  BY TypeInit, LeaseInit
<1>3. (TypeOK /\ HasClaim /\ LeaseInv) /\ [Next]_vars => (TypeOK /\ HasClaim /\ LeaseInv)'
  BY TypeStep, LeaseStep
<1> QED
  BY <1>1, <1>2, <1>3, PTL DEF Spec

------------------------------------------------------------------------------
(* What a tick knows of the pushes of its claim.                             *)

Known(w) == Delivering(w) =>
    /\ ready[w] \subseteq BrowsersOf[cur[w].player]
    /\ got[w] => \E b \in BrowsersOf[cur[w].player] : <<b, cur[w].on, w>> \in pushed
    /\ ~got[w] /\ ~bad[w] => subs[cur[w].player] \subseteq ready[w]

Subscribed == \A p \in Players : subs[p] \subseteq BrowsersOf[p]

(* What a tick pushed is acknowledged, or it will answer an error, or it is  *)
(* still the claim it delivers.                                              *)
Accounted(w) == \A p \in Players, d \in Days : \A b \in BrowsersOf[p] :
    <<b, d, w>> \in pushed =>
      /\ pc[w] # "idle"
      /\ pc[w] \in {"claim", "next", "send", "finish", "ok"} =>
           \/ <<p, d, w>> \in acked
           \/ pc[w] # "ok" /\ errors[w]
           \/ Delivering(w) /\ cur[w].player = p /\ cur[w].on = d

PushInv == Subscribed /\ AckMeansReached /\ \A w \in Ticks : Known(w) /\ Accounted(w)

LEMMA PushInit == Init => PushInv
  BY Settings DEF Init, PushInv, Subscribed, AckMeansReached, Known, Accounted, Delivering

(* More pushes of other ticks and fewer subscriptions leave a tick right.    *)
LEMMA OthersStayRight ==
    ASSUME PushInv, NEW v \in Ticks, Kept(v), NEW w \in Ticks \ {v},
           pushed \subseteq pushed', \A x \in pushed' \ pushed : x[3] = w, acked \subseteq acked',
           \A p \in Players : subs'[p] \subseteq subs[p], HasClaim
    PROVE  Known(v)' /\ Accounted(v)'
<1>1. Known(v)'
  BY DEF PushInv, Known, Kept, Delivering, HasClaim, Claims
<1>2. Accounted(v)'
  <2>1. SUFFICES ASSUME NEW p \in Players, NEW d \in Days, NEW b \in BrowsersOf[p], <<b, d, v>> \in pushed'
                 PROVE  /\ pc'[v] # "idle"
                        /\ pc'[v] \in {"claim", "next", "send", "finish", "ok"} =>
                             \/ <<p, d, v>> \in acked'
                             \/ pc'[v] # "ok" /\ errors'[v]
                             \/ Delivering(v)' /\ cur'[v].player = p /\ cur'[v].on = d
    BY DEF Accounted
  <2>2. <<b, d, v>> \in pushed
    BY <2>1
  <2> QED
    BY <2>1, <2>2 DEF PushInv, Accounted, Kept, Delivering
<1> QED
  BY <1>1, <1>2

(* With no push and no acknowledgement, it is enough to look at one tick.    *)
LEMMA NothingSent ==
    ASSUME TypeOK, HasClaim, PushInv, NEW w \in Ticks, Begin(w) \/ Step(w) \/ Crash(w),
           UNCHANGED <<subs, pushed, acked>>, Known(w)', Accounted(w)'
    PROVE  PushInv'
<1>1. Subscribed' /\ AckMeansReached'
  BY DEF PushInv, Subscribed, AckMeansReached
<1>2. \A v \in Ticks \ {w} : Known(v)' /\ Accounted(v)'
  BY OthersKept, OthersStayRight
<1> QED
  BY <1>1, <1>2 DEF PushInv

LEMMA PushKeeps == ASSUME TypeOK, HasClaim, PushInv, NEW w \in Ticks, Push(w) PROVE PushInv'
<1>1. /\ pc[w] = "send" /\ pc' = pc /\ cur' = cur /\ acked' = acked /\ errors' = errors
      /\ Delivering(w) /\ cur[w] \in Claims /\ cur[w].player \in Players /\ cur[w].on \in Days
  BY DEF Push, HasClaim, Delivering, Claims
<1>2. PICK b \in ready[w] :
       /\ ready' = [ready EXCEPT ![w] = @ \ {b}]
       /\ \/ /\ got' = [got EXCEPT ![w] = TRUE]
             /\ pushed' = pushed \cup {<<b, cur[w].on, w>>}
             /\ UNCHANGED <<subs, bad>>
          \/ /\ bad' = [bad EXCEPT ![w] = TRUE]
             /\ \/ pushed' = pushed \cup {<<b, cur[w].on, w>>}
                \/ UNCHANGED pushed
             /\ UNCHANGED <<subs, got>>
          \/ /\ \/ /\ subs' = [subs EXCEPT ![cur[w].player] = @ \ {b}]
                   /\ UNCHANGED bad
                \/ /\ bad' = [bad EXCEPT ![w] = TRUE]
                   /\ UNCHANGED subs
             /\ UNCHANGED <<got, pushed>>
  BY DEF Push
<1>3. b \in BrowsersOf[cur[w].player]
  BY <1>1, <1>2 DEF PushInv, Known
<1>4. \A p \in Players : subs'[p] \subseteq subs[p]
  BY <1>1, <1>2 DEF TypeOK
<1>5. pushed \subseteq pushed' /\ pushed' \subseteq pushed \cup {<<b, cur[w].on, w>>}
  BY <1>2
<1>6. Subscribed'
  BY <1>4 DEF PushInv, Subscribed
<1>7. AckMeansReached'
  BY <1>1, <1>4, <1>5 DEF PushInv, AckMeansReached, TypeOK
<1>8. Known(w)'
  <2>1. ready'[w] = ready[w] \ {b} /\ ready[w] \subseteq BrowsersOf[cur[w].player]
    BY <1>1, <1>2 DEF PushInv, Known, TypeOK
  <2>2. got'[w] => \E c \in BrowsersOf[cur[w].player] : <<c, cur[w].on, w>> \in pushed'
    <3>1. CASE got[w]
      BY <3>1, <1>1, <1>5 DEF PushInv, Known
    <3>2. CASE ~got[w]
      BY <3>2, <1>2, <1>3 DEF TypeOK
    <3> QED
      BY <3>1, <3>2
  <2>3. ~got'[w] /\ ~bad'[w] => subs'[cur[w].player] \subseteq ready'[w]
    <3>1. SUFFICES ASSUME ~got'[w], ~bad'[w] PROVE subs'[cur[w].player] \subseteq ready'[w]
      OBVIOUS
    <3>2. ~got[w] /\ ~bad[w] /\ subs' = [subs EXCEPT ![cur[w].player] = @ \ {b}]
      BY <3>1, <1>2 DEF TypeOK
    <3>3. subs[cur[w].player] \subseteq ready[w]
      BY <3>2, <1>1 DEF PushInv, Known
    <3> QED
      BY <3>2, <3>3, <2>1, <1>1 DEF TypeOK
  <2> QED
    BY <1>1, <2>1, <2>2, <2>3 DEF Known
<1>9. Accounted(w)'
  <2>1. SUFFICES ASSUME NEW p \in Players, NEW d \in Days, NEW c \in BrowsersOf[p], <<c, d, w>> \in pushed'
                 PROVE  <<p, d, w>> \in acked \/ errors[w] \/ (cur[w].player = p /\ cur[w].on = d)
    BY <1>1 DEF Accounted, Delivering
  <2>2. CASE <<c, d, w>> \in pushed
    BY <2>1, <2>2, <1>1 DEF PushInv, Accounted
  <2>3. CASE <<c, d, w>> = <<b, cur[w].on, w>>
    <3>1. c = b /\ d = cur[w].on
      BY <2>3
    <3> QED
      BY <2>1, <3>1, <1>1, <1>3, Settings
  <2> QED
    BY <2>1, <2>2, <2>3, <1>5
<1>10. \A v \in Ticks \ {w} : Known(v)' /\ Accounted(v)'
  <2>1. SUFFICES ASSUME NEW v \in Ticks \ {w} PROVE Known(v)' /\ Accounted(v)'
    OBVIOUS
  <2>2. Kept(v) /\ w \in Ticks \ {v}
    BY OthersKept DEF Step
  <2> QED
    BY <2>2, <1>1, <1>4, <1>5, OthersStayRight
<1> QED
  BY <1>6, <1>7, <1>8, <1>9, <1>10 DEF PushInv

LEMMA SettleKeeps == ASSUME TypeOK, HasClaim, PushInv, NEW w \in Ticks, Finish(w) PROVE PushInv'
<1>1. /\ pc[w] = "finish" /\ pc'[w] = "next" /\ subs' = subs /\ pushed' = pushed
      /\ Delivering(w) /\ cur[w] \in Claims /\ cur[w].player \in Players /\ cur[w].on \in Days
  BY DEF Finish, HasClaim, Delivering, Claims, TypeOK
<1>2. PICK runs \in BOOLEAN, heard \in BOOLEAN :
        /\ runs \/ ~heard
        /\ IF (runs /\ Owns(w)) /\ Reached(w)
           THEN acked' = acked \cup {<<cur[w].player, cur[w].on, w>>}
           ELSE UNCHANGED acked
        /\ errors' = [errors EXCEPT ![w] = @ \/ Complaint(w, runs /\ Owns(w), heard)]
  BY DEF Finish
<1>3. \/ acked' = acked
      \/ acked' = acked \cup {<<cur[w].player, cur[w].on, w>>} /\ Reached(w)
  BY <1>2
<1>4. Reached(w) => \/ subs[cur[w].player] = {}
                    \/ \E b \in BrowsersOf[cur[w].player] : <<b, cur[w].on, w>> \in pushed
  BY <1>1 DEF Reached, PushInv, Known, TypeOK
<1>5. Subscribed' /\ AckMeansReached'
  <2>1. Subscribed'
    BY <1>1 DEF PushInv, Subscribed
  <2>2. \A x \in acked : \/ subs[x[1]] = {}
                         \/ \E b \in BrowsersOf[x[1]] : <<b, x[2], x[3]>> \in pushed
    BY DEF PushInv, AckMeansReached
  <2>3. \A x \in acked' : \/ subs[x[1]] = {}
                          \/ \E b \in BrowsersOf[x[1]] : <<b, x[2], x[3]>> \in pushed
    <3>1. SUFFICES ASSUME NEW x \in acked', x \notin acked
                   PROVE  \/ subs[x[1]] = {}
                          \/ \E b \in BrowsersOf[x[1]] : <<b, x[2], x[3]>> \in pushed
      BY <2>2
    <3>2. x = <<cur[w].player, cur[w].on, w>> /\ Reached(w)
      BY <1>3, <3>1
    <3>3. x[1] = cur[w].player /\ x[2] = cur[w].on /\ x[3] = w
      BY <3>2
    <3> QED
      BY <1>4, <3>2, <3>3
  <2> QED
    BY <1>1, <2>1, <2>3 DEF AckMeansReached
<1>6. Known(w)'
  BY <1>1 DEF Known, Delivering
<1>7. Accounted(w)'
  <2>1. SUFFICES ASSUME NEW p \in Players, NEW d \in Days, NEW c \in BrowsersOf[p], <<c, d, w>> \in pushed
                 PROVE  <<p, d, w>> \in acked' \/ errors'[w]
    BY <1>1 DEF Accounted
  <2>2. CASE <<p, d, w>> \in acked \/ errors[w]
    BY <2>2, <1>2, <1>3 DEF TypeOK
  <2>3. CASE cur[w].player = p /\ cur[w].on = d
    BY <2>3, <1>2 DEF Complaint, TypeOK
  <2> QED
    BY <2>1, <2>2, <2>3, <1>1 DEF PushInv, Accounted
<1>8. \A v \in Ticks \ {w} : Known(v)' /\ Accounted(v)'
  <2>1. SUFFICES ASSUME NEW v \in Ticks \ {w} PROVE Known(v)' /\ Accounted(v)'
    OBVIOUS
  <2>2. Kept(v) /\ w \in Ticks \ {v}
    BY OthersKept DEF Step
  <2> QED
    BY <2>2, <1>1, <1>3, OthersStayRight
<1> QED
  BY <1>5, <1>6, <1>7, <1>8 DEF PushInv

LEMMA PushStep == TypeOK /\ HasClaim /\ PushInv /\ [Next]_vars => PushInv'
<1> SUFFICES ASSUME TypeOK, HasClaim, PushInv, [Next]_vars PROVE PushInv'
  OBVIOUS
<1> USE DEF rows, work
<1>1. CASE Pass \/ (\E p \in Players : FinishPuzzle(p) \/ Prefer(p)) \/ UNCHANGED vars
  <2>1. UNCHANGED <<subs, pushed, acked, work>>
    BY <1>1 DEF Pass, FinishPuzzle, Prefer, vars
  <2> QED
    BY <2>1 DEF PushInv, Subscribed, AckMeansReached, Known, Accounted, Delivering
<1>2. ASSUME NEW w \in Ticks, Begin(w) \/ Claim(w) \/ NothingDue(w) \/ PageDone(w) \/ TooLate(w) PROVE PushInv'
  <2>1. UNCHANGED <<subs, pushed, acked>>
    BY <1>2 DEF Begin, Claim, NothingDue, PageDone, TooLate, End
  <2>2. Known(w)'
    BY <1>2 DEF Known, Delivering, Begin, Claim, NothingDue, PageDone, TooLate, TypeOK
  <2>3. Accounted(w)'
    <3>1. CASE NothingDue(w)
      BY <3>1, <2>1 DEF NothingDue, PushInv, Accounted, Delivering, TypeOK
    <3>2. CASE Begin(w)
      BY <3>2, <2>1 DEF PushInv, Accounted, Delivering, Begin, TypeOK
    <3>3. CASE Claim(w) \/ PageDone(w)
      <4>1. pc[w] \in {"claim", "next"} /\ pc'[w] \in {"claim", "next"} /\ errors' = errors
        BY <3>3 DEF Claim, PageDone, TypeOK
      <4> QED
        BY <4>1, <2>1 DEF PushInv, Accounted, Delivering
    <3>4. CASE TooLate(w)
      BY <3>4, <2>1 DEF PushInv, Accounted, Delivering, TooLate, TypeOK
    <3> QED
      BY <1>2, <3>1, <3>2, <3>3, <3>4
  <2> QED
    BY <1>2, <2>1, <2>2, <2>3, NothingSent DEF Step
<1>3. ASSUME NEW w \in Ticks, Start(w) PROVE PushInv'
  <2>1. UNCHANGED <<subs, pushed, acked>> /\ First(w) \in Claims /\ First(w).player \in Players
    BY <1>3, FirstType DEF Start, Claims
  <2>2. Known(w)'
    BY <1>3, <2>1 DEF Start, Known, Delivering, PushInv, Subscribed, TypeOK
  <2>3. Accounted(w)'
    BY <1>3, <2>1 DEF Start, PushInv, Accounted, Delivering, TypeOK
  <2> QED
    BY <1>3, <2>1, <2>2, <2>3, NothingSent DEF Step
<1>4. ASSUME NEW w \in Ticks, Delivered(w) \/ Crash(w) PROVE PushInv'
  <2>1. UNCHANGED <<subs, pushed, acked>>
    BY <1>4 DEF Delivered, Crash, End
  <2>2. Known(w)'
    BY <1>4, <2>1 DEF Delivered, Crash, Known, Delivering, PushInv, TypeOK
  <2>3. Accounted(w)'
    BY <1>4, <2>1 DEF Delivered, Crash, PushInv, Accounted, Delivering, TypeOK
  <2> QED
    BY <1>4, <2>1, <2>2, <2>3, NothingSent DEF Step
<1> QED
  BY <1>1, <1>2, <1>3, <1>4, PushKeeps, SettleKeeps DEF Next, Step

LEMMA PushCorrect == Spec => [](TypeOK /\ HasClaim /\ PushInv)
<1>1. Init => TypeOK /\ HasClaim /\ PushInv
  BY TypeInit, PushInit
<1>2. (TypeOK /\ HasClaim /\ PushInv) /\ [Next]_vars => (TypeOK /\ HasClaim /\ PushInv)'
  BY TypeStep, PushStep
<1> QED
  BY <1>1, <1>2, PTL DEF Spec

(* Only a push that arrived is acknowledged, unless no browser was left.     *)
THEOREM AckMeansReachedCorrect == Spec => []AckMeansReached
<1>1. PushInv => AckMeansReached
  BY DEF PushInv
<1> QED
  BY <1>1, PushCorrect, PTL

(* A tick that answers 200 acknowledged every day it pushed.                 *)
THEOREM OkMeansAckedCorrect == Spec => []OkMeansAcked
<1>1. TypeOK /\ PushInv => OkMeansAcked
  BY DEF PushInv, Accounted, OkMeansAcked, Delivering
<1> QED
  BY <1>1, PushCorrect, PTL

(* A leased day is not the one last acknowledged.                            *)
LeasedIsOpen == \A p \in Players : lease[p] # NoLease => last[p] # lease[p].on

LEMMA OpenStep == TypeOK /\ HasClaim /\ LeasedIsOpen /\ [Next]_vars => LeasedIsOpen'
<1> SUFFICES ASSUME TypeOK, HasClaim, LeasedIsOpen, [Next]_vars, NEW p \in Players, lease'[p] # NoLease
             PROVE  last'[p] # lease'[p].on
  BY DEF LeasedIsOpen
<1>1. ASSUME NEW w \in Ticks, Claim(w) PROVE last'[p] # lease'[p].on
  <2>1. CASE p \in Page(w)
    <3>1. lease'[p].on = LocalDay(p, at[w]) /\ last' = last
      BY <1>1, <2>1 DEF Claim
    <3>2. last[p] # LocalDay(p, at[w])
      BY <2>1 DEF Page, Due
    <3> QED
      BY <3>1, <3>2
  <2>2. CASE p \notin Page(w)
    BY <1>1, <2>2 DEF Claim, LeasedIsOpen
  <2> QED
    BY <2>1, <2>2
<1>2. ASSUME NEW w \in Ticks, Finish(w) PROVE last'[p] # lease'[p].on
  <2>1. cur[w].player \in Players
    BY <1>2 DEF Finish, HasClaim, Delivering, Claims
  <2> QED
    BY <1>2, <2>1 DEF Finish, LeasedIsOpen, TypeOK
<1>3. CASE UNCHANGED <<last, lease>>
  BY <1>3 DEF LeasedIsOpen
<1> QED
  BY <1>1, <1>2, <1>3 DEF Next, Step, vars, rows, work, Pass, FinishPuzzle, Prefer, Begin, NothingDue, PageDone,
     TooLate, Start, Push, Delivered, Crash, End

(* A tick that reached one browser does not give the day back.               *)
THEOREM NoReleaseAfterPushCorrect == Spec => NoReleaseAfterPush
<1>1. TypeOK /\ HasClaim /\ LeasedIsOpen /\ [Next]_vars =>
        \A p \in Players :
          (lease[p] # NoLease /\ lease'[p] = NoLease /\ last'[p] = last[p]) =>
            ~(pc[lease[p].tick] = "finish" /\ got[lease[p].tick])
  <2>1. SUFFICES ASSUME TypeOK, HasClaim, LeasedIsOpen, [Next]_vars, NEW p \in Players,
                        lease[p] # NoLease, lease'[p] = NoLease, last'[p] = last[p]
                 PROVE  ~(pc[lease[p].tick] = "finish" /\ got[lease[p].tick])
    OBVIOUS
  <2>2. PICK w \in Ticks : Claim(w) \/ Finish(w)
    BY <2>1 DEF Next, Step, vars, rows, work, Pass, FinishPuzzle, Prefer, Begin, NothingDue, PageDone,
                TooLate, Start, Push, Delivered, Crash, End
  <2>3. CASE Claim(w)
    BY <2>1, <2>3, Settings DEF Claim, NoLease
  <2>4. CASE Finish(w)
    <3>1. cur[w].player \in Players
      BY <2>1, <2>4 DEF Finish, HasClaim, Delivering, Claims
    <3>2. PICK runs \in BOOLEAN :
            /\ lease' = IF runs /\ Owns(w) THEN [lease EXCEPT ![cur[w].player] = NoLease] ELSE lease
            /\ (runs /\ Owns(w)) /\ Reached(w) => last' = [last EXCEPT ![cur[w].player] = cur[w].on]
      BY <2>4 DEF Finish
    <3>3. Owns(w) /\ runs /\ p = cur[w].player /\ lease[p].tick = w /\ lease[p].on = cur[w].on
      BY <2>1, <3>1, <3>2 DEF Owns, TypeOK
    <3>4. ~Reached(w)
      BY <2>1, <3>2, <3>3 DEF LeasedIsOpen, TypeOK
    <3> QED
      BY <3>3, <3>4 DEF Reached
  <2> QED
    BY <2>2, <2>3, <2>4
<1>2. Init => TypeOK /\ HasClaim /\ LeasedIsOpen
  BY TypeInit DEF Init, LeasedIsOpen
<1>3. (TypeOK /\ HasClaim /\ LeasedIsOpen) /\ [Next]_vars => (TypeOK /\ HasClaim /\ LeasedIsOpen)'
  BY TypeStep, OpenStep
<1> QED
  BY <1>1, <1>2, <1>3, PTL DEF Spec, NoReleaseAfterPush


------------------------------------------------------------------------------
(* No push after an acknowledgement, for a player who stays in their zone    *)
(* and keeps their reminder time.  A tick claims for the time it has read,   *)
(* and may come with it after the next day's reminder: so what is left of a  *)
(* lease must not reach from one day's window into the next.                 *)

ShortLease == Lease - Reserve <= DayLength - Grace

LEMMA Sizes == /\ DayLength \in Nat \ {0} /\ Grace \in Nat /\ Lease \in Nat /\ Reserve \in Nat
               /\ Zones \subseteq Nat /\ Times \subseteq Nat
  BY SetupAssumption DEF SetupAssumption

LEMMA Divide ==
    ASSUME NEW x \in Nat
    PROVE  x = DayLength * (x \div DayLength) + (x % DayLength) /\ x \div DayLength \in Nat /\ x % DayLength \in Nat
  BY Sizes

LEMMA DayBetween ==
    ASSUME NEW d \in Nat, NEW e \in Nat
    PROVE  DayLength * d \in Nat /\ (d < e => DayLength * d + DayLength <= DayLength * e)
<1>1. DayLength * d \in Nat /\ DayLength * e \in Nat
  BY Sizes
<1>2. ASSUME d < e PROVE DayLength * d + DayLength <= DayLength * e
  <2>1. DayLength * (d + 1) <= DayLength * e
    BY <1>2, Sizes
  <2>2. DayLength * (d + 1) = DayLength * d + DayLength
    BY Sizes
  <2> QED
    BY <2>1, <2>2
<1> QED
  BY <1>1, <1>2

(* When a player's window of a local day opens, by the player's clock.       *)
Opens(p, d) == DayLength * d + time[p]

(* The day was reminded, or a later one.                                     *)
Upto(p, d) == last[p] # None /\ d <= last[p]

(* A claim was made within its day's window; once its day has been reminded  *)
(* it is too late to push for it.                                            *)
SoundClaim(c) ==
    LET since == c.until - Lease
    IN  /\ Opens(c.player, c.on) <= since + zone[c.player]
        /\ since + zone[c.player] <= Opens(c.player, c.on) + Grace
        /\ since <= clock
        /\ Upto(c.player, c.on) => Until(c) <= clock

ClaimsSound(p, w) ==
    /\ \A c \in queue[w] : c.player = p => SoundClaim(c)
    /\ Delivering(w) /\ cur[w].player = p => SoundClaim(cur[w])

(* The claim on the row is of a day that has still to be acknowledged.       *)
StillOpen(p, w) ==
    Delivering(w) /\ cur[w].player = p /\ lease[p].tick = w /\ lease[p].on = cur[w].on => ~Upto(p, cur[w].on)

AckInv(p) ==
    /\ \A d \in Days, w \in Ticks : <<p, d, w>> \in acked => Upto(p, d)
    /\ last[p] # None => Opens(p, last[p]) <= clock + zone[p]
    /\ \A w \in Ticks : ClaimsSound(p, w) /\ StillOpen(p, w)

Stays(p) == zone'[p] = zone[p] /\ time'[p] = time[p]

LEMMA DaysNat == Days \subseteq Nat
  BY DEF Days

LEMMA PlayerType ==
    ASSUME TypeOK, NEW p \in Players
    PROVE  clock \in Nat /\ zone[p] \in Nat /\ time[p] \in Nat /\ (last[p] # None => last[p] \in Nat)
           /\ \A d \in Nat : Opens(p, d) \in Nat
<1>0. last[p] \in Days \cup {None} /\ zone[p] \in Zones /\ time[p] \in Times /\ clock \in 0 .. MaxClock
  BY DEF TypeOK
<1>1. clock \in Nat /\ zone[p] \in Nat /\ time[p] \in Nat /\ (last[p] # None => last[p] \in Nat)
  <2>1. zone[p] \in Nat /\ time[p] \in Nat /\ (last[p] # None => last[p] \in Nat)
    BY <1>0, DaysNat, Sizes
  <2>2. clock \in Nat
    BY <1>0, Settings
  <2> QED
    BY <2>1, <2>2
<1> QED
  BY <1>1, DayBetween DEF Opens

LEMMA AckInit == ASSUME Init, NEW p \in Players PROVE AckInv(p)
  BY DEF Init, AckInv, ClaimsSound, StillOpen, Delivering

LEMMA SoundKept ==
    ASSUME TypeOK, TypeOK', NEW c \in Claims, SoundClaim(c), Stays(c.player), clock <= clock',
           last'[c.player] = last[c.player]
    PROVE  SoundClaim(c)'
<1>1. c.player \in Players /\ c.until \in Nat /\ c.on \in Nat
  BY DaysNat DEF Claims
<1>2. clock \in Nat /\ clock' \in Nat /\ c.until - Lease \in Int /\ Until(c) \in Int
  BY <1>1, Sizes DEF TypeOK, Until
<1>3. Opens(c.player, c.on)' = Opens(c.player, c.on) /\ zone'[c.player] = zone[c.player]
      /\ Upto(c.player, c.on)' = Upto(c.player, c.on) /\ Until(c)' = Until(c)
  BY DEF Stays, Opens, Upto, Until
<1> QED
  BY <1>2, <1>3 DEF SoundClaim

(* A new page: what it claims again for a day gone by is too late to push.   *)
LEMMA FreshClaim ==
    ASSUME TypeOK, ShortLease, NEW p \in Players, AckInv(p), NEW t \in Nat, t <= clock, Due(p, t),
           NEW c \in Claims, c = [player |-> p, on |-> LocalDay(p, t), until |-> t + Lease]
    PROVE  SoundClaim(c)
<1> DEFINE d == LocalDay(p, t)
<1>1. c.player = p /\ c.on = d /\ c.until = t + Lease /\ d \in Nat
  BY DaysNat DEF Claims
<1>2. clock \in Nat /\ zone[p] \in Nat /\ time[p] \in Nat /\ (last[p] # None => last[p] \in Nat)
  BY PlayerType
<1>3. t + zone[p] = DayLength * d + LocalTime(p, t) /\ LocalTime(p, t) \in Nat
  BY <1>2, Divide DEF LocalDay, LocalTime
<1>4. time[p] <= LocalTime(p, t) /\ LocalTime(p, t) <= time[p] + Grace /\ last[p] # d
  BY DEF Due
<1> HIDE DEF d
<1>5. DayLength * d \in Nat
  BY <1>1, DayBetween
<1>6. Opens(p, d) <= t + zone[p] /\ t + zone[p] <= Opens(p, d) + Grace
  BY <1>2, <1>3, <1>4, <1>5, Sizes DEF Opens
<1>7. ASSUME Upto(p, d) PROVE t + Lease - Reserve <= clock
  <2>1. last[p] \in Nat /\ d < last[p]
    BY <1>1, <1>2, <1>4, <1>7 DEF Upto
  <2>2. Opens(p, last[p]) <= clock + zone[p]
    BY <2>1, <1>7 DEF AckInv, Upto
  <2>3. DayLength * d + DayLength <= DayLength * last[p] /\ DayLength * last[p] \in Nat
    BY <1>1, <2>1, DayBetween
  <2>4. DayLength - Grace <= clock - t
    BY <1>2, <1>5, <1>6, <2>2, <2>3, Sizes DEF Opens
  <2> QED
    BY <1>2, <2>4, Sizes DEF ShortLease
<1>8. c.until - Lease = t /\ Until(c) = t + Lease - Reserve
  BY <1>1, Sizes DEF Until
<1>9. Opens(c.player, c.on) = Opens(p, d) /\ (Upto(c.player, c.on) <=> Upto(p, d))
  BY <1>1, Zenon
<1> QED
  BY <1>1, <1>6, <1>7, <1>8, <1>9 DEF SoundClaim

LEMMA ClaimAcks ==
    ASSUME TypeOK, TypeOK', HasClaim, LeaseInv, ShortLease, NEW p \in Players, AckInv(p), Stays(p),
           NEW w \in Ticks, Claim(w)
    PROVE  AckInv(p)'
<1>1. acked' = acked /\ last' = last /\ clock' = clock /\ clock \in Nat /\ at[w] \in Nat /\ at[w] <= clock
  BY DEF Claim, TypeOK, LeaseInv, Backward
<1>2. ASSUME NEW v \in Ticks, v # w PROVE ClaimsSound(p, v)' /\ StillOpen(p, v)'
  <2>1. Kept(v) /\ queue[v] \subseteq Claims
    BY <1>2, OthersKept DEF Step, TypeOK
  <2>2. ClaimsSound(p, v)'
    BY <1>1, <2>1, SoundKept DEF AckInv, ClaimsSound, Kept, Delivering, HasClaim
  <2>3. StillOpen(p, v)'
    <3>1. CASE p \in Page(w)
      BY <1>2, <3>1 DEF Claim, StillOpen
    <3>2. CASE p \notin Page(w)
      <4>1. lease'[p] = lease[p]
        BY <3>2 DEF Claim
      <4> QED
        BY <1>1, <2>1, <4>1 DEF AckInv, StillOpen, Kept, Delivering, Upto
    <3> QED
      BY <3>1, <3>2
  <2> QED
    BY <2>2, <2>3
<1>3. ClaimsSound(p, w)' /\ StillOpen(p, w)'
  <2>1. ~Delivering(w)'
    BY DEF Claim, Delivering, TypeOK
  <2>2. ASSUME NEW c \in queue'[w], c.player = p PROVE SoundClaim(c)'
    <3>1. PICK q \in Page(w) : c = [player |-> q, on |-> LocalDay(q, at[w]), until |-> at[w] + Lease]
      BY <2>2 DEF Claim, TypeOK
    <3>2. q = p /\ Due(p, at[w]) /\ c \in Claims
      BY <2>2, <3>1 DEF Page, TypeOK
    <3>3. SoundClaim(c)
      BY <1>1, <3>1, <3>2, FreshClaim
    <3> QED
      BY <1>1, <2>2, <3>2, <3>3, SoundKept
  <2> QED
    BY <2>1, <2>2 DEF ClaimsSound, StillOpen
<1>4. \A d \in Days, v \in Ticks : <<p, d, v>> \in acked' => Upto(p, d)'
  BY <1>1 DEF AckInv, Upto
<1>5. last'[p] # None => Opens(p, last[p])' <= clock' + zone'[p]
  BY <1>1 DEF AckInv, Opens, Stays
<1> QED
  BY <1>1, <1>2, <1>3, <1>4, <1>5 DEF AckInv


LEMMA FinishAcks ==
    ASSUME TypeOK, TypeOK', HasClaim, LeaseInv, NEW p \in Players, AckInv(p), Stays(p), NEW w \in Ticks, Finish(w)
    PROVE  AckInv(p)'
<1> DEFINE c == cur[w]
<1>1. /\ pc[w] = "finish" /\ Delivering(w) /\ c \in Claims /\ c.player \in Players /\ c.on \in Days
      /\ ~Delivering(w)' /\ clock' = clock /\ queue' = queue /\ clock \in Nat
  BY DEF Finish, Delivering, HasClaim, Claims, TypeOK
<1>2. PICK settled \in BOOLEAN :
        /\ settled => Owns(w)
        /\ lease' = IF settled THEN [lease EXCEPT ![c.player] = NoLease] ELSE lease
        /\ IF settled /\ Reached(w)
           THEN last' = [last EXCEPT ![c.player] = c.on] /\ acked' = acked \cup {<<c.player, c.on, w>>}
           ELSE UNCHANGED <<last, acked>>
  <2>1. PICK runs \in BOOLEAN :
        /\ lease' = IF runs /\ Owns(w) THEN [lease EXCEPT ![c.player] = NoLease] ELSE lease
        /\ IF (runs /\ Owns(w)) /\ Reached(w)
           THEN last' = [last EXCEPT ![c.player] = c.on] /\ acked' = acked \cup {<<c.player, c.on, w>>}
           ELSE UNCHANGED <<last, acked>>
    BY DEF Finish
  <2> QED
    BY <2>1
<1>3. \A v \in Ticks \ {w} : Kept(v)
  BY OthersKept DEF Step
<1>4. lease'[p] \in {lease[p], NoLease}
  BY <1>1, <1>2 DEF TypeOK
<1>5. CASE settled /\ Reached(w) /\ c.player = p
  <2>1. last'[p] = c.on /\ lease'[p] = NoLease /\ acked' = acked \cup {<<p, c.on, w>>} /\ c.on # None
    <3>1. c.on # None
      <4>1. None \notin Nat
        BY SetupAssumption DEF SetupAssumption
      <4> QED
        BY <1>1, <4>1, DaysNat
    <3>2. last'[p] = c.on /\ lease'[p] = NoLease
      BY <1>1, <1>2, <1>5 DEF TypeOK
    <3> QED
      BY <1>2, <1>5, <3>1, <3>2
  <2>2. lease[p].tick = w /\ lease[p].on = c.on
    BY <1>2, <1>5 DEF Owns
  <2>3. SoundClaim(c) /\ ~Upto(p, c.on)
    BY <1>1, <1>5, <2>2 DEF AckInv, ClaimsSound, StillOpen
  <2>4. c.on \in Nat /\ (last[p] # None => last[p] \in Nat /\ last[p] < c.on)
    <3>1. c.on \in Nat
      BY <1>1, DaysNat
    <3>2. last[p] # None => last[p] \in Nat
      BY PlayerType
    <3>3. last[p] # None => ~(c.on <= last[p])
      BY <2>3 DEF Upto
    <3> HIDE DEF c
    <3> QED
      BY <3>1, <3>2, <3>3
  <2>5. \A d \in Days, v \in Ticks : <<p, d, v>> \in acked' => Upto(p, d)'
    BY <2>1, <2>4, DaysNat DEF AckInv, Upto
  <2>6. Opens(p, last[p])' <= clock' + zone'[p]
    <3>1. /\ Opens(p, c.on) <= c.until - Lease + zone[p] /\ c.until - Lease <= clock
          /\ c.until - Lease \in Int /\ zone[p] \in Nat /\ Opens(p, c.on) \in Nat
      BY <1>1, <1>5, <2>3, <2>4, PlayerType, Sizes DEF SoundClaim, Claims
    <3>2. Opens(p, last[p])' = Opens(p, c.on)
      BY <2>1 DEF Opens, Stays
    <3> QED
      BY <1>1, <3>1, <3>2 DEF Stays
  <2>7. ASSUME NEW v \in Ticks, NEW e \in Claims, OnRow(e, v), v # w, e.player = p, SoundClaim(e)
        PROVE  SoundClaim(e)'
    <3>1. e.until <= clock /\ e.until \in Nat
      BY <1>1, <2>2, <2>7 DEF OnRow, Claims
    <3>2. Until(e) <= clock
      BY <1>1, <3>1, Sizes DEF Until
    <3>3. Opens(p, e.on)' = Opens(p, e.on) /\ zone'[p] = zone[p] /\ Until(e)' = Until(e) /\ clock' = clock
      BY <1>1 DEF Opens, Stays, Until
    <3> QED
      BY <2>7, <3>2, <3>3 DEF SoundClaim
  <2>8. ASSUME NEW v \in Ticks PROVE ClaimsSound(p, v)' /\ StillOpen(p, v)'
    <3>1. StillOpen(p, v)'
      BY <2>1, Settings DEF StillOpen, NoLease
    <3>2. CASE v = w
      BY <1>1, <1>5, <3>1, <3>2 DEF LeaseInv, OneClaimEach, ClaimsSound
    <3>3. CASE v # w
      <4>1. \A e \in queue'[v] : e.player = p => SoundClaim(e)'
        BY <1>1, <2>7, <3>3 DEF AckInv, ClaimsSound, LeaseInv, Held, TypeOK
      <4>2. Delivering(v)' /\ cur'[v].player = p => SoundClaim(cur[v])' /\ cur'[v] = cur[v]
        BY <1>3, <2>7, <3>3 DEF AckInv, ClaimsSound, LeaseInv, Held, HasClaim, Kept, Delivering
      <4> QED
        BY <3>1, <4>1, <4>2 DEF ClaimsSound
    <3> QED
      BY <3>2, <3>3
  <2> QED
    BY <2>1, <2>5, <2>6, <2>8 DEF AckInv
<1>6. CASE ~(settled /\ Reached(w) /\ c.player = p)
  <2>1. last'[p] = last[p] /\ \A d \in Days, v \in Ticks : <<p, d, v>> \in acked' => <<p, d, v>> \in acked
    BY <1>1, <1>2, <1>6 DEF TypeOK
  <2>2. ASSUME NEW v \in Ticks PROVE ClaimsSound(p, v)' /\ StillOpen(p, v)'
    <3>1. \A e \in Claims : e.player = p /\ SoundClaim(e) => SoundClaim(e)'
      BY <1>1, <2>1, SoundKept
    <3>2. \A e \in queue'[v] : e.player = p => SoundClaim(e)'
      BY <1>1, <3>1 DEF AckInv, ClaimsSound, TypeOK
    <3>3. Delivering(v)' => v # w /\ Delivering(v) /\ cur'[v] = cur[v] /\ cur[v] \in Claims
      BY <1>1, <1>3 DEF Kept, Delivering, HasClaim
    <3>4. Delivering(v)' /\ cur'[v].player = p => SoundClaim(cur[v])'
      BY <3>1, <3>3 DEF AckInv, ClaimsSound
    <3>5. StillOpen(p, v)'
      <4>1. CASE lease'[p] = NoLease
        BY <4>1, Settings DEF StillOpen, NoLease
      <4>2. CASE lease'[p] = lease[p]
        BY <2>1, <3>3, <4>2 DEF AckInv, StillOpen, Upto
      <4> QED
        BY <1>4, <4>1, <4>2
    <3> QED
      BY <3>2, <3>3, <3>4, <3>5 DEF ClaimsSound
  <2>3. \A d \in Days, v \in Ticks : <<p, d, v>> \in acked' => Upto(p, d)'
    BY <2>1 DEF AckInv, Upto
  <2>4. last'[p] # None => Opens(p, last[p])' <= clock' + zone'[p]
    BY <1>1, <2>1 DEF AckInv, Opens, Stays
  <2> QED
    BY <2>1, <2>2, <2>3, <2>4 DEF AckInv
<1> QED
  BY <1>5, <1>6

(* A step that neither claims nor ends a claim.                              *)
LEMMA QuietAcks ==
    ASSUME TypeOK, TypeOK', HasClaim, HasClaim', NEW p \in Players, AckInv(p), Stays(p),
           UNCHANGED <<lease, last, acked>>, clock <= clock',
           \A v \in Ticks : /\ queue'[v] \subseteq queue[v]
                            /\ Delivering(v)' => \/ Delivering(v) /\ cur'[v] = cur[v]
                                                 \/ cur'[v] \in queue[v] /\ clock < Until(cur'[v]) /\ clock' = clock
    PROVE  AckInv(p)'
<1>1. \A e \in Claims : e.player = p /\ SoundClaim(e) => SoundClaim(e)'
  BY SoundKept
<1>2. \A d : Upto(p, d)' <=> Upto(p, d)
  BY DEF Upto
<1>3. clock \in Nat /\ zone[p] \in Nat /\ (last[p] # None => Opens(p, last[p]) \in Nat)
  BY PlayerType, Zenon
<1>4. clock' \in Nat
  BY Settings DEF TypeOK
<1>5. ASSUME NEW v \in Ticks PROVE ClaimsSound(p, v)' /\ StillOpen(p, v)'
  <2>1. \A e \in queue'[v] : e.player = p => SoundClaim(e)'
    BY <1>1 DEF AckInv, ClaimsSound, TypeOK
  <2>2. CASE ~Delivering(v)'
    BY <2>1, <2>2 DEF ClaimsSound, StillOpen
  <2>3. CASE Delivering(v)' /\ Delivering(v) /\ cur'[v] = cur[v]
    <3>1. cur[v].player = p => SoundClaim(cur[v])'
      BY <1>1, <2>3 DEF AckInv, ClaimsSound, HasClaim
    <3>2. StillOpen(p, v)'
      BY <1>2, <2>3 DEF AckInv, StillOpen
    <3> QED
      BY <2>1, <2>3, <3>1, <3>2 DEF ClaimsSound
  <2>4. CASE Delivering(v)' /\ cur'[v] \in queue[v] /\ clock < Until(cur'[v]) /\ clock' = clock
    <3>1. PICK e \in queue[v] : cur'[v] = e /\ clock < Until(e)
      BY <2>4
    <3>2. e \in Claims /\ Until(e) \in Int /\ (e.player = p => SoundClaim(e))
      BY Sizes DEF AckInv, ClaimsSound, TypeOK, Claims, Until
    <3>3. e.player = p => SoundClaim(e)' /\ ~Upto(p, e.on)
      BY <1>1, <1>3, <3>1, <3>2 DEF SoundClaim
    <3>4. cur'[v].player = p => SoundClaim(cur[v])'
      BY <3>1, <3>3
    <3>5. StillOpen(p, v)'
      BY <1>2, <3>1, <3>3 DEF StillOpen
    <3> QED
      BY <2>1, <3>4, <3>5 DEF ClaimsSound
  <2> QED
    BY <2>2, <2>3, <2>4
<1>6. last'[p] # None => Opens(p, last[p])' <= clock' + zone'[p]
  <2>1. Opens(p, last[p])' = Opens(p, last[p]) /\ zone'[p] = zone[p] /\ last' = last
    BY DEF Opens, Stays
  <2> QED
    BY <1>3, <1>4, <2>1 DEF AckInv
<1> QED
  BY <1>2, <1>5, <1>6 DEF AckInv


LEMMA AckStep ==
    ASSUME TypeOK, TypeOK', HasClaim, HasClaim', LeaseInv, ShortLease, NEW p \in Players, AckInv(p), Stays(p),
           [Next]_vars
    PROVE  AckInv(p)'
<1> USE DEF rows, work
<1>0. clock \in Nat /\ clock' \in Nat
  BY Settings DEF TypeOK
<1>1. ASSUME NEW w \in Ticks, Claim(w) PROVE AckInv(p)'
  BY <1>1, ClaimAcks
<1>2. ASSUME NEW w \in Ticks, Finish(w) PROVE AckInv(p)'
  BY <1>2, FinishAcks
<1>3. ASSUME NEW w \in Ticks, Begin(w) \/ Step(w) \/ Crash(w), ~Claim(w), ~Finish(w) PROVE AckInv(p)'
  <2>1. UNCHANGED <<lease, last, acked>> /\ clock' = clock /\ clock <= clock'
    BY <1>0, <1>3 DEF Begin, Step, NothingDue, PageDone, End, TooLate, Start, Push, Delivered, Crash
  <2>2. queue'[w] \subseteq queue[w]
    BY <1>3 DEF Begin, Step, NothingDue, PageDone, End, TooLate, Start, Push, Delivered, Crash, TypeOK
  <2>3. Delivering(w)' => \/ Delivering(w) /\ cur'[w] = cur[w]
                          \/ cur'[w] \in queue[w] /\ clock < Until(cur'[w])
    <3>1. CASE Start(w)
      BY <3>1, FirstType DEF Start, TypeOK
    <3>2. CASE Push(w) \/ Delivered(w)
      BY <3>2 DEF Push, Delivered, Delivering
    <3>3. CASE ~Start(w) /\ ~Push(w) /\ ~Delivered(w)
      BY <1>3, <3>3 DEF Begin, Step, NothingDue, PageDone, TooLate, Crash, Delivering, TypeOK
    <3> QED
      BY <3>1, <3>2, <3>3
  <2>4. \A v \in Ticks \ {w} : queue'[v] = queue[v] /\ (Delivering(v)' => Delivering(v) /\ cur'[v] = cur[v])
    BY <1>3, OthersKept DEF Kept, Delivering
  <2> QED
    BY <2>1, <2>2, <2>3, <2>4, QuietAcks
<1>4. CASE Pass \/ (\E q \in Players : FinishPuzzle(q) \/ Prefer(q)) \/ UNCHANGED vars
  <2>1. UNCHANGED <<lease, last, acked, queue, cur, pc>> /\ clock <= clock'
    BY <1>0, <1>4 DEF Pass, FinishPuzzle, Prefer, vars
  <2> QED
    BY <2>1, QuietAcks DEF Delivering
<1> QED
  BY <1>1, <1>2, <1>3, <1>4 DEF Next

(* A day that a player was reminded of is not pushed again.                  *)
NotAgain(p) == \A d \in Days :
    (\E w \in Ticks : <<p, d, w>> \in acked) =>
      {x \in pushed' : x[1] \in BrowsersOf[p] /\ x[2] = d} \subseteq pushed

LEMMA PushesOpenDays ==
    ASSUME TypeOK, HasClaim, PushInv, NEW p \in Players, AckInv(p), [Next]_vars
    PROVE  NotAgain(p)
<1> USE DEF rows, work
<1>1. SUFFICES ASSUME NEW d \in Days, NEW u \in Ticks, <<p, d, u>> \in acked,
                      NEW x \in pushed', x[1] \in BrowsersOf[p], x[2] = d, x \notin pushed
               PROVE  FALSE
  BY DEF NotAgain
<1>2. PICK w \in Ticks : Push(w)
  BY <1>1 DEF Next, Step, vars, Pass, FinishPuzzle, Prefer, Begin, Claim, NothingDue, PageDone,
              TooLate, Start, Delivered, Finish, Crash, End
<1>3. PICK b \in ready[w] : x = <<b, cur[w].on, w>>
  BY <1>1, <1>2 DEF Push
<1>4. Delivering(w) /\ InTime(w) /\ cur[w] \in Claims /\ cur[w].player \in Players
  BY <1>2 DEF Push, Delivering, HasClaim, Claims
<1>5. cur[w].player = p /\ cur[w].on = d
  BY <1>1, <1>3, <1>4, Settings DEF PushInv, Known
<1>6. Upto(p, d) /\ SoundClaim(cur[w])
  BY <1>1, <1>4, <1>5 DEF AckInv, ClaimsSound
<1>7. Until(cur[w]) <= clock /\ clock < Until(cur[w])
  BY <1>4, <1>5, <1>6 DEF SoundClaim, InTime
<1>8. clock \in Nat /\ Until(cur[w]) \in Int
  BY <1>4, PlayerType, Sizes DEF Until, Claims
<1> QED
  BY <1>7, <1>8

(* jobs_db.rs, claim_due_daily_reminders_after and finish_daily_reminder: to *)
(* a player who stays in their zone and keeps their time, nothing is pushed  *)
(* for a day once it is acknowledged, whoever else travels.                  *)
THEOREM NoPushAfterAckForOneWhoStays ==
    ASSUME ShortLease, NEW p \in Players
    PROVE  Spec /\ [][Stays(p)]_vars => [][NotAgain(p)]_vars
<1> DEFINE Inv == TypeOK /\ HasClaim /\ LeaseInv /\ PushInv /\ AckInv(p)
<1>1. Init => Inv
  BY TypeInit, LeaseInit, PushInit, AckInit
<1>2. Inv /\ [Next]_vars /\ [Stays(p)]_vars => Inv'
  <2> SUFFICES ASSUME Inv, [Next]_vars, [Stays(p)]_vars PROVE Inv'
    OBVIOUS
  <2>1. TypeOK' /\ HasClaim' /\ LeaseInv' /\ PushInv'
    BY TypeStep, LeaseStep, PushStep
  <2>2. Stays(p)
    BY DEF Stays, vars, rows
  <2> QED
    BY <2>1, <2>2, AckStep
<1>3. Inv /\ [Next]_vars => [NotAgain(p)]_vars
  BY PushesOpenDays
<1> QED
  BY <1>1, <1>2, <1>3, PTL DEF Spec

(* The same for all players, when nobody changes zone or time.               *)
THEOREM NoPushAfterAckCorrect ==
    ASSUME ShortLease
    PROVE  Spec /\ [][UNCHANGED <<zone, time>>]_vars => NoPushAfterAck
<1> DEFINE Inv == TypeOK /\ HasClaim /\ LeaseInv /\ PushInv /\ \A p \in Players : AckInv(p)
           Step1 == \A p \in Players, d \in Days :
                      (\E w \in Ticks : <<p, d, w>> \in acked) =>
                        {x \in pushed' : x[1] \in BrowsersOf[p] /\ x[2] = d} \subseteq pushed
<1>1. Init => Inv
  BY TypeInit, LeaseInit, PushInit, AckInit
<1>2. Inv /\ [Next]_vars /\ [UNCHANGED <<zone, time>>]_vars => Inv'
  <2> SUFFICES ASSUME Inv, [Next]_vars, [UNCHANGED <<zone, time>>]_vars PROVE Inv'
    OBVIOUS
  <2>1. TypeOK' /\ HasClaim' /\ LeaseInv' /\ PushInv'
    BY TypeStep, LeaseStep, PushStep
  <2>2. \A p \in Players : Stays(p)
    BY DEF Stays, vars, rows
  <2>3. \A p \in Players : AckInv(p)'
    BY <2>1, <2>2, AckStep
  <2> QED
    BY <2>1, <2>3
<1>3. Inv /\ [Next]_vars => [Step1]_vars
  BY PushesOpenDays DEF NotAgain
<1> QED
  BY <1>1, <1>2, <1>3, PTL DEF Spec, NoPushAfterAck
=============================================================================
