------------------------ MODULE FreezeSettlementProofs ------------------------
(***************************************************************************)
(* What TLAPS proves of FreezeSettlement for any number of players and     *)
(* requests, any cap, bridge and frequency.                                *)
(***************************************************************************)
EXTENDS FreezeSettlement, TLAPS, FiniteSetTheorems, NaturalsInduction, WellFoundedInduction

------------------------------------------------------------------------------
(* Counting days.                                                            *)

LEMMA Least == ASSUME NEW S \in SUBSET Nat, S # {} PROVE \E x \in S : \A y \in S : x <= y
<1> DEFINE R == {ss \in Nat \X Nat : ss[1] < ss[2]}
<1>1. IsWellFoundedOn(R, Nat)
  BY NatLessThanWellFounded, Zenon DEF OpToRel
<1> HIDE DEF R
<1>2. PICK x \in S : \A y \in S : ~ (<<y, x>> \in R)
  BY <1>1, WFMin
<1>3. \A y \in S : ~ (y < x)
  BY <1>2 DEF R
<1> QED
  BY <1>3

(* The last of some days is the one with the fewest days up to a bound.      *)
LEMMA LastDay ==
    ASSUME NEW n \in Nat, NEW S \in SUBSET (0 .. n), S # {}
    PROVE  Max(S) \in S /\ \A d \in S : d <= Max(S)
<1> DEFINE Left == {n - d : d \in S}
<1>1. Left \in SUBSET Nat /\ Left # {}
  OBVIOUS
<1> HIDE DEF Left
<1>2. PICK x \in Left : \A y \in Left : x <= y
  BY <1>1, Least
<1>3. PICK d \in S : x = n - d
  BY <1>2 DEF Left
<1>4. \A e \in S : n - d <= n - e
  BY <1>2, <1>3 DEF Left
<1>5. \A e \in S : d >= e
  BY <1>4
<1> QED
  BY <1>3, <1>5 DEF Max

LEMMA DaysFinite ==
    ASSUME NEW n \in Nat, NEW S \in SUBSET (0 .. n)
    PROVE  IsFiniteSet(S) /\ Cardinality(S) \in Nat
<1>1. IsFiniteSet(0 .. n)
  BY FS_Interval
<1>2. S \subseteq 0 .. n
  OBVIOUS
<1>3. IsFiniteSet(S)
  BY <1>1, <1>2, FS_Subset
<1> QED
  BY <1>3, FS_CardinalityType

LEMMA DaysCovered == ASSUME NEW d \in Nat, NEW k \in Nat PROVE Cardinality(d + 1 .. d + k) = k
<1> DEFINE a == d + 1
           b == d + k
<1>1. a \in Int /\ b \in Int /\ (IF a > b THEN 0 ELSE b - a + 1) = k
  OBVIOUS
<1> HIDE DEF a, b
<1>2. Cardinality(a .. b) = k
  BY <1>1, FS_Interval
<1> QED
  BY <1>2 DEF a, b

LEMMA UnionDays ==
    ASSUME NEW S \in SUBSET (1 .. MaxDay), NEW T \in SUBSET (1 .. MaxDay), S \cap T = {}
    PROVE  Cardinality(S \cup T) = Cardinality(S) + Cardinality(T) /\ Cardinality(S) \in Nat
<1>1. S \in SUBSET (0 .. MaxDay) /\ T \in SUBSET (0 .. MaxDay) /\ MaxDay \in Nat
  BY PartiesAssumption DEF PartiesAssumption
<1>2. IsFiniteSet(S) /\ IsFiniteSet(T) /\ Cardinality(S) \in Nat /\ Cardinality(T) \in Nat
  BY <1>1, DaysFinite
<1>3. Cardinality(S \cap T) = 0
  <2>1. Cardinality({}) = 0
    BY FS_EmptySet
  <2> QED
    BY <2>1, Zenon
<1>4. Cardinality(S \cup T) = Cardinality(S) + Cardinality(T) - Cardinality(S \cap T)
  BY <1>2, FS_Union
<1> QED
  BY <1>2, <1>3, <1>4

LEMMA TwoMin ==
    ASSUME NEW a \in Nat, NEW b \in Nat
    PROVE  Min({a, b}) \in {a, b} /\ Min({a, b}) <= a /\ Min({a, b}) <= b
<1>1. \E x \in {a, b} : \A y \in {a, b} : x =< y
  OBVIOUS
<1> QED
  BY <1>1 DEF Min

(* Of a set of days, the days with the places 1 to k are k days.             *)
LEMMA FirstOnes ==
    ASSUME NEW n \in Nat, NEW S \in SUBSET (0 .. n), NEW k \in Nat, k <= Cardinality(S)
    PROVE  Cardinality({d \in S : Nth(d, S) <= k}) = k
<1> DEFINE Head(X, j) == {d \in X : Nth(d, X) <= j}
           Odd == {X \in SUBSET (0 .. n) : \E j \in 0 .. Cardinality(X) : Cardinality(Head(X, j)) # j}
           Sizes == {Cardinality(X) : X \in Odd}
<1>1. SUFFICES ASSUME Odd # {} PROVE FALSE
  <2>1. Cardinality(S) \in Nat
    BY DaysFinite
  <2>2. k \in 0 .. Cardinality(S)
    BY <2>1
  <2> QED
    BY <2>2
<1>2. PICK X \in Odd : \A Z \in Odd : Cardinality(X) <= Cardinality(Z)
  <2>1. Sizes \in SUBSET Nat
    BY DaysFinite
  <2>2. Sizes # {}
    BY <1>1
  <2> HIDE DEF Sizes
  <2>3. PICK c \in Sizes : \A e \in Sizes : c <= e
    BY <2>1, <2>2, Least
  <2>4. PICK X \in Odd : c = Cardinality(X)
    BY <2>3 DEF Sizes
  <2> QED
    BY <2>3, <2>4 DEF Sizes
<1>3. X \in SUBSET (0 .. n) /\ IsFiniteSet(X) /\ Cardinality(X) \in Nat
  BY DaysFinite
<1>4. PICK j \in 0 .. Cardinality(X) : Cardinality(Head(X, j)) # j
  BY <1>2
<1>5. \A d \in X : Nth(d, X) \in Nat /\ Nth(d, X) <= Cardinality(X)
  BY <1>3, FS_Subset, FS_CardinalityType DEF Nth
<1>6. j < Cardinality(X)
  <2>1. SUFFICES ASSUME j = Cardinality(X) PROVE FALSE
    BY <1>3
  <2>2. Head(X, j) = X
    BY <1>5, <2>1
  <2> QED
    BY <2>1, <2>2, <1>4
<1>7. X # {}
  BY <1>3, <1>6, FS_EmptySet
<1> DEFINE m == Max(X)
           Y == X \ {m}
<1>8. m \in X /\ \A d \in X : d <= m
  BY <1>3, <1>7, LastDay
<1>9. Y \in SUBSET (0 .. n) /\ Cardinality(Y) = Cardinality(X) - 1 /\ Cardinality(Y) \in Nat
  BY <1>3, <1>8, DaysFinite, FS_RemoveElement
<1> HIDE DEF m
<1>10. Nth(m, X) = Cardinality(X)
  <2>1. {e \in X : e <= m} = X
    BY <1>8
  <2> QED
    BY <2>1 DEF Nth
<1>11. \A d \in Y : Nth(d, X) = Nth(d, Y)
  <2>1. SUFFICES ASSUME NEW d \in Y PROVE {e \in X : e <= d} = {e \in Y : e <= d}
    BY DEF Nth
  <2>2. d \in Nat /\ m \in Nat /\ d < m
    BY <1>3, <1>8
  <2> QED
    BY <2>2
<1>12. Head(X, j) = Head(Y, j)
  <2>1. m \notin Head(X, j)
    BY <1>3, <1>6, <1>10
  <2> QED
    BY <2>1, <1>11
<1>13. Y \notin Odd
  <2> HIDE DEF Odd, Y
  <2>1. SUFFICES ASSUME Y \in Odd PROVE FALSE
    OBVIOUS
  <2>2. Cardinality(X) <= Cardinality(Y)
    BY <1>2, <2>1
  <2> QED
    BY <2>2, <1>3, <1>9
<1>14. j \in 0 .. Cardinality(Y)
  BY <1>3, <1>6, <1>9
<1> QED
  BY <1>4, <1>9, <1>12, <1>13, <1>14

------------------------------------------------------------------------------
(* Remainders, for the milestones of a run.                                  *)

LEMMA Divide ==
    ASSUME NEW e \in Nat \ {0}, NEW c \in Nat
    PROVE  c = (e * (c \div e)) + (c % e) /\ c \div e \in Int /\ c % e \in 0 .. e - 1
  OBVIOUS

LEMMA Times ==
    ASSUME NEW e \in Nat \ {0}, NEW a \in Int, NEW b \in Int
    PROVE  e * (a + b) = e * a + e * b /\ e * (a - b) = e * a - e * b /\ e * a \in Int
  OBVIOUS

LEMMA RemainderUnique ==
    ASSUME NEW e \in Nat \ {0}, NEW q \in Int, NEW r \in 0 .. e - 1, NEW c \in Nat, c = (e * q) + r
    PROVE  c % e = r
<1> DEFINE p == c \div e
           s == c % e
<1>1. p \in Int /\ s \in 0 .. e - 1 /\ c = e * p + s
  BY Divide
<1> HIDE DEF p, s
<1>2. e * (q - p) = s - r
  BY <1>1, Times
<1>3. q - p > 0 => e * (q - p) >= e
  BY <1>1
<1>4. q - p < 0 => e * (q - p) <= 0 - e
  BY <1>1
<1>5. s = r
  <2>1. q - p = 0
    BY <1>1, <1>2, <1>3, <1>4
  <2> QED
    BY <1>1, <1>2, <2>1, Times
<1> QED
  BY <1>5 DEF s

LEMMA NextRemainder ==
    ASSUME NEW e \in Nat \ {0}, NEW c \in Nat
    PROVE  /\ c % e \in 0 .. e - 1
           /\ c % e = e - 1 => (c + 1) % e = 0
           /\ c % e # e - 1 => (c + 1) % e = (c % e) + 1
<1> DEFINE p == c \div e
           s == c % e
<1>1. p \in Int /\ s \in 0 .. e - 1 /\ c = e * p + s
  BY Divide
<1> HIDE DEF p, s
<1>2. ASSUME s = e - 1 PROVE (c + 1) % e = 0
  <2>1. c + 1 = e * (p + 1) + 0
    BY <1>1, <1>2, Times
  <2> QED
    BY <1>1, <2>1, RemainderUnique
<1>3. ASSUME s # e - 1 PROVE (c + 1) % e = s + 1
  <2>1. c + 1 = e * p + (s + 1)
    BY <1>1, Times
  <2> QED
    BY <1>1, <1>3, <2>1, RemainderUnique
<1> QED
  BY <1>1, <1>2, <1>3 DEF s

LEMMA MaxDayType == MaxDay \in Nat \ {0} /\ MaxChanges \in Nat
  BY PartiesAssumption DEF PartiesAssumption

------------------------------------------------------------------------------
(* Types.                                                                    *)

(* A request is for a player, and what it writes first is a switch or a gift. *)
HasPlayer == \A w \in Workers :
    /\ pc[w] # "idle" => job[w].player \in Players
    /\ pc[w] = "write" => job[w].op \in {"toggle", "add"}

LEMMA RowFacts == DefaultRow \in Row /\ NoRow \notin Row /\ Cap \in Nat /\ None \notin Players \cup Workers
  BY PartiesAssumption, RulesAssumption DEF PartiesAssumption, RulesAssumption, DefaultRow, Row

LEMMA LoadType == ASSUME TypeOK, NEW p \in Players PROVE Load(p) \in Row
  BY RowFacts DEF TypeOK, Load

LEMMA HeldType == ASSUME NEW row \in Row PROVE Held(row) \in Nat /\ row.auto \in BOOLEAN
  BY DEF Row, Held

Plans == [awards : SUBSET (1..MaxDay), cover : SUBSET (1..MaxDay), granted : Nat, after : Nat]

Jobs == [player : Players \cup {None}, day : 0..MaxDay,
         op : {"none", "read", "toggle", "add"}, row : Row]

(* What a settlement decides: new milestones, freezes for some of them, and  *)
(* missed days that the freezes can pay.                                     *)
LEMMA DecisionType ==
    ASSUME TypeOK, NEW p \in Players, NEW day \in 0 .. MaxDay, NEW row \in Row,
           NEW D, D = Decision(p, day, row)
    PROVE  /\ D \in Plans /\ D.awards \cap awards[p] = {}
           /\ D.granted <= Cardinality(D.awards) /\ D.granted <= Room(Held(row))
           /\ D.cover \cap frozen[p] = {}
           /\ Cardinality(D.cover) \in Nat /\ Cardinality(D.cover) <= Held(row) + D.granted
<1> DEFINE play == played[p]
           froz == frozen[p]
           awarded == awards[p]
           held == Held(row)
           auto == row.auto
<1>a. /\ play \in SUBSET (1..MaxDay) /\ froz \in SUBSET (1..MaxDay) /\ held \in Nat /\ auto \in BOOLEAN
      /\ D = SettleFreezes(day, play, froz, awarded, held, auto)
  BY HeldType DEF TypeOK, Decision
<1>b. SUFFICES /\ D \in [awards : SUBSET (1..MaxDay), cover : SUBSET (1..MaxDay), granted : Nat, after : Nat]
               /\ D.awards \cap awarded = {}
               /\ D.granted <= Cardinality(D.awards) /\ D.granted <= Room(held)
               /\ D.cover \cap froz = {}
               /\ Cardinality(D.cover) \in Nat /\ Cardinality(D.cover) <= held + D.granted
  BY DEF Plans
<1> HIDE DEF play, froz, awarded, held, auto
<1> DEFINE days == {d \in play \cup froz : d <= day}
           last == Max(days)
           missed == Missed(day, last)
           run == play \cap RunEndingOn(last, days)
           earned == Milestones(run) \ awarded
           granted_ == Min({Cardinality(earned), Room(held)})
           saves == /\ missed > 0 /\ auto
                    /\ Cardinality(run) >= MinRun
                    /\ missed <= held + granted_
<1>0. Room(held) \in Nat /\ Cap \in Nat /\ MaxBridge \in Nat /\ MaxDay \in Nat
  BY <1>a, RulesAssumption, MaxDayType DEF Room, RulesAssumption
<1>1. CASE days = {} \/ missed > MaxBridge
  <2>1. D = Idle(held)
    BY <1>1, <1>a DEF SettleFreezes
  <2>2. Cardinality({}) = 0
    BY FS_EmptySet
  <2> QED
    BY <1>a, <1>0, <2>1, <2>2 DEF Idle
<1>2. CASE ~(days = {} \/ missed > MaxBridge)
  <2>1. D = [awards |-> earned, granted |-> granted_,
             cover |-> IF saves THEN last + 1 .. last + missed ELSE {},
             after |-> held + granted_ - (IF saves THEN missed ELSE 0)]
    BY <1>2, <1>a, Zenon DEF SettleFreezes
  <2>2. last \in days /\ (\A d \in days : d <= last)
    <3>1. \A d \in days : d \in 0..MaxDay
      BY <1>a, <1>0
    <3>2. days # {}
      BY <1>2
    <3> HIDE DEF days
    <3> QED
      BY <1>a, <1>0, <3>1, <3>2, LastDay
  <2>3. last \in 1..MaxDay /\ last <= day /\ \A d \in froz : d <= day => d <= last
    <3> HIDE DEF last
    <3> QED
      BY <1>a, <1>0, <2>2
  <2>4. earned \in SUBSET play /\ earned \cap awarded = {}
    BY DEF Milestones
  <2>5. earned \in SUBSET (1..MaxDay) /\ Cardinality(earned) \in Nat
    <3> HIDE DEF earned
    <3>1. earned \in SUBSET (0..MaxDay) /\ earned \in SUBSET (1..MaxDay)
      BY <1>a, <1>0, <2>4
    <3> QED
      BY <1>a, <1>0, <3>1, DaysFinite
  <2> HIDE DEF days, run, earned
  <2>6. granted_ \in Nat /\ granted_ <= Cardinality(earned) /\ granted_ <= Room(held)
    BY <1>a, <1>0, <2>5, TwoMin
  <2> HIDE DEF granted_, last
  <2>7. missed \in Nat /\ (missed > 0 => last + missed = day - 1)
    BY <1>a, <1>0, <2>3 DEF Missed
  <2> HIDE DEF missed
  <2>8. CASE saves
    <3>1. missed > 0 /\ missed <= held + granted_
      BY <2>8
    <3> HIDE DEF saves
    <3>2. D = [awards |-> earned, granted |-> granted_, cover |-> last + 1 .. last + missed,
               after |-> held + granted_ - missed]
      BY <2>1, <2>8
    <3>3. /\ last + 1 .. last + missed \subseteq 1..MaxDay
          /\ (last + 1 .. last + missed) \cap froz = {}
          /\ held + granted_ - missed \in Nat
      BY <1>a, <1>0, <2>3, <2>6, <2>7, <3>1
    <3>4. Cardinality(last + 1 .. last + missed) = missed
      BY <2>3, <2>7, DaysCovered
    <3>5. D \in [awards : SUBSET (1..MaxDay), cover : SUBSET (1..MaxDay), granted : Nat, after : Nat]
      BY <2>5, <2>6, <3>2, <3>3
    <3> QED
      BY <2>4, <2>6, <2>7, <3>1, <3>2, <3>3, <3>4, <3>5
  <2>9. CASE ~saves
    <3> HIDE DEF saves
    <3>0. D = [awards |-> earned, granted |-> granted_, cover |-> {}, after |-> held + granted_ - 0]
      BY <2>1, <2>9
    <3>1. held + granted_ - 0 \in Nat
      BY <1>a, <2>6
    <3>2. Cardinality({}) = 0
      BY FS_EmptySet
    <3> QED
      BY <2>4, <2>5, <2>6, <3>0, <3>1, <3>2
  <2> QED
    BY <2>8, <2>9
<1> QED
  BY <1>1, <1>2

LEMMA TypeInit == Init => TypeOK /\ HasPlayer
<1>1. Idle(0) \in Plans
  BY DEF Idle, Plans
<1>2. NoJob \in Jobs
  BY RowFacts, MaxDayType DEF NoJob, Jobs
<1> QED
  BY <1>1, <1>2, MaxDayType DEF Init, TypeOK, HasPlayer, Plans, Jobs

LEMMA LeaveType ==
    ASSUME TypeOK, HasPlayer, NEW w \in Workers, Leave(w)
    PROVE  /\ playerLock' \in [Players -> Workers \cup {None}] /\ rowLock' \in [Players -> Workers \cup {None}]
           /\ pc' \in [Workers -> {"idle", "write", "admit", "lock", "commit"}]
           /\ job' \in [Workers -> Jobs]
           /\ plan' \in [Workers -> Plans]
           /\ HasPlayer'
<1>1. Idle(0) \in Plans
  BY DEF Idle, Plans
<1>2. NoJob \in Jobs
  BY RowFacts, MaxDayType DEF NoJob, Jobs
<1>3. plan \in [Workers -> Plans]
  BY DEF TypeOK, Plans
<1> QED
  BY <1>1, <1>2, <1>3 DEF Leave, TypeOK, HasPlayer, Jobs

LEMMA GrantedType ==
    ASSUME TypeOK, NEW w \in Workers, NEW p \in Players
    PROVE  /\ Granted(w, p) \in SUBSET (1 .. MaxDay) /\ Cardinality(Granted(w, p)) \in Nat
           /\ plan[w].cover \in SUBSET (1 .. MaxDay) /\ Cardinality(plan[w].cover) \in Nat
           /\ plan[w].awards \in SUBSET (1 .. MaxDay)
<1>1. plan[w] \in Plans
  BY DEF TypeOK, Plans
<1>2. plan[w].cover \in SUBSET (1 .. MaxDay) /\ plan[w].awards \in SUBSET (1 .. MaxDay)
  BY <1>1 DEF Plans
<1>3. Granted(w, p) \in SUBSET (1 .. MaxDay)
  BY <1>2 DEF Granted
<1>4. \A S \in SUBSET (1 .. MaxDay) : S \in SUBSET (0 .. MaxDay)
  BY MaxDayType
<1> HIDE DEF Plans
<1> QED
  BY <1>2, <1>3, <1>4, MaxDayType, DaysFinite

LEMMA CountedType ==
    ASSUME NEW row \in Row, NEW gain \in Nat, NEW loss \in Nat
    PROVE  /\ Counted(row, gain, loss) \in Row
           /\ Counted(row, gain, loss).available = row.available + gain - loss
           /\ Counted(row, gain, loss).used = row.used + loss
<1> DEFINE x == row.available + gain - loss
           y == row.used + loss
<1>1. x \in Int /\ y \in Nat
  BY DEF Row
<1>2. Counted(row, gain, loss) = [row EXCEPT !.available = x, !.used = y]
  BY DEF Counted
<1> HIDE DEF x, y
<1>3. Counted(row, gain, loss) \in Row /\ Counted(row, gain, loss).available = x /\ Counted(row, gain, loss).used = y
  BY <1>1, <1>2 DEF Row
<1> QED
  BY <1>3 DEF x, y

LEMMA MergedType ==
    ASSUME TypeOK, NEW g \in Guests, NEW a \in Accounts
    PROVE  MergedRow(g, a) \in Row \cup {NoRow}
<1>1. counters[g] \in Row \cup {NoRow} /\ counters[a] \in Row \cup {NoRow}
  BY DEF TypeOK, Players
<1>2. \A i \in Int : AtMostCap(i) \in Int
  BY RowFacts DEF AtMostCap
<1>3. CASE counters[g] = NoRow
  BY <1>1, <1>3 DEF MergedRow
<1>4. CASE counters[g] # NoRow /\ counters[a] = NoRow
  <2>1. counters[g].available \in Int /\ counters[g].used \in Nat
    BY <1>1, <1>4 DEF Row
  <2>2. MergedRow(g, a) = [DefaultRow EXCEPT !.available = AtMostCap(counters[g].available), !.used = counters[g].used]
    BY <1>4 DEF MergedRow
  <2>3. AtMostCap(counters[g].available) \in Int
    BY <1>2, <2>1
  <2> QED
    BY <2>1, <2>2, <2>3 DEF Row, DefaultRow
<1>5. CASE counters[g] # NoRow /\ counters[a] # NoRow
  <2>1. /\ counters[g].available \in Int /\ counters[g].used \in Nat
        /\ counters[a].available \in Int /\ counters[a].used \in Nat /\ counters[a] \in Row
    BY <1>1, <1>5 DEF Row
  <2>2. MergedRow(g, a) = [counters[a] EXCEPT !.available = AtMostCap(counters[a].available + counters[g].available),
                                              !.used = counters[a].used + counters[g].used]
    BY <1>5 DEF MergedRow
  <2>3. AtMostCap(counters[a].available + counters[g].available) \in Int /\ counters[a].used + counters[g].used \in Nat
    BY <1>2, <2>1
  <2> QED
    BY <2>1, <2>2, <2>3 DEF Row
<1> QED
  BY <1>3, <1>4, <1>5

LEMMA TypeStep == TypeOK /\ HasPlayer /\ [Next]_vars => TypeOK' /\ HasPlayer'
<1> SUFFICES ASSUME TypeOK, HasPlayer, [Next]_vars PROVE TypeOK' /\ HasPlayer'
  OBVIOUS
<1> USE DEF ledger, locks
<1>1. ASSUME NEW w \in Workers, NEW p \in Players, Admit(w, p) PROVE TypeOK' /\ HasPlayer'
  <2>1. CASE Nothing(Decision(p, today, Load(p)))
    <3>1. Leave(w) /\ UNCHANGED <<ledger, adopted, today, changes>>
      BY <1>1, <2>1 DEF Admit
    <3> QED
      BY <3>1, LeaveType DEF TypeOK, Plans, Jobs
  <2>2. CASE ~Nothing(Decision(p, today, Load(p)))
    <3>1. /\ playerLock' = [playerLock EXCEPT ![p] = w]
          /\ job' = [job EXCEPT ![w] = [player |-> p, op |-> "read", day |-> today, row |-> Load(p)]]
          /\ pc' = [pc EXCEPT ![w] = "lock"]
          /\ UNCHANGED <<rowLock, plan>> /\ UNCHANGED <<ledger, adopted, today, changes>>
      BY <1>1, <2>2 DEF Admit
    <3>2. today \in 0 .. MaxDay
      BY DEF TypeOK
    <3> QED
      BY <3>1, <3>2, LoadType DEF TypeOK, HasPlayer
  <2> QED
    BY <2>1, <2>2
<1>2. ASSUME NEW w \in Workers, NEW p \in Players, NEW on \in BOOLEAN, Toggle(w, p, on) PROVE TypeOK' /\ HasPlayer'
  <2> DEFINE r == [Load(p) EXCEPT !.auto = on]
             J == [NoJob EXCEPT !.player = p, !.op = "toggle", !.row = r]
  <2>1. r \in Row
    BY LoadType DEF Row
  <2>2. job' = [job EXCEPT ![w] = J]
    BY <1>2 DEF Toggle
  <2> HIDE DEF r
  <2>3. J = [NoJob EXCEPT !.player = p, !.op = "toggle", !.row = r]
    OBVIOUS
  <2> HIDE DEF J
  <2>4. J.player = p /\ J.op \in {"toggle", "add"} /\ J \in Jobs
    <3>1. 0 \in 0 .. MaxDay
      BY MaxDayType
    <3> QED
      BY <2>1, <2>3, <3>1 DEF NoJob, Jobs
  <2>5. changes' \in 0 .. MaxChanges /\ pc' = [pc EXCEPT ![w] = "write"]
        /\ UNCHANGED <<ledger, adopted, today, locks, plan>>
    BY <1>2, MaxDayType DEF Toggle, TypeOK
  <2> QED
    BY <2>2, <2>4, <2>5 DEF TypeOK, HasPlayer, Jobs
<1>3. ASSUME NEW w \in Workers, NEW p \in Players, NEW n \in Gifts, Add(w, p, n) PROVE TypeOK' /\ HasPlayer'
  <2> DEFINE r == [Load(p) EXCEPT !.available = @ + n]
             J == [NoJob EXCEPT !.player = p, !.op = "add", !.row = r]
  <2>1. r \in Row
    BY LoadType, PartiesAssumption DEF Row, PartiesAssumption
  <2>2. job' = [job EXCEPT ![w] = J]
    BY <1>3 DEF Add
  <2> HIDE DEF r
  <2>3. J = [NoJob EXCEPT !.player = p, !.op = "add", !.row = r]
    OBVIOUS
  <2> HIDE DEF J
  <2>4. J.player = p /\ J.op \in {"toggle", "add"} /\ J \in Jobs
    <3>1. 0 \in 0 .. MaxDay
      BY MaxDayType
    <3> QED
      BY <2>1, <2>3, <3>1 DEF NoJob, Jobs
  <2>5. changes' \in 0 .. MaxChanges /\ pc' = [pc EXCEPT ![w] = "write"]
        /\ UNCHANGED <<ledger, adopted, today, locks, plan>>
    BY <1>3, MaxDayType DEF Add, TypeOK
  <2> QED
    BY <2>2, <2>4, <2>5 DEF TypeOK, HasPlayer, Jobs
<1>4. ASSUME NEW w \in Workers, Upsert(w) PROVE TypeOK' /\ HasPlayer'
  <2>1. job[w].player \in Players /\ job[w].row \in Row
    BY <1>4 DEF Upsert, HasPlayer, TypeOK
  <2>2. marks' \in [Players -> SUBSET {"toggle", "add", "adopt"}]
    BY <1>4, <2>1 DEF Upsert, HasPlayer, TypeOK
  <2> QED
    BY <1>4, <2>1, <2>2 DEF Upsert, TypeOK, HasPlayer
<1>5. ASSUME NEW w \in Workers, LockRow(w) PROVE TypeOK' /\ HasPlayer'
  <2>1. job[w].player \in Players /\ job[w].day \in 0 .. MaxDay
    BY <1>5 DEF LockRow, HasPlayer, TypeOK
  <2>2. Decision(job[w].player, job[w].day, RowUnderLock(w)) \in Plans
    BY <2>1, LoadType, DecisionType DEF RowUnderLock
  <2>3. plan' \in [Workers -> Plans]
    BY <1>5, <2>2 DEF LockRow, TypeOK, Plans
  <2> QED
    BY <1>5, <2>1, <2>3 DEF LockRow, TypeOK, HasPlayer, Plans
<1>6. ASSUME NEW w \in Workers, Commit(w) PROVE TypeOK' /\ HasPlayer'
  <2> DEFINE p == job[w].player
  <2>1. p \in Players
    BY <1>6 DEF Commit, HasPlayer
  <2>2. /\ Granted(w, p) \in SUBSET (1 .. MaxDay) /\ Cardinality(Granted(w, p)) \in Nat
        /\ plan[w].cover \in SUBSET (1 .. MaxDay) /\ Cardinality(plan[w].cover) \in Nat
        /\ plan[w].awards \in SUBSET (1 .. MaxDay)
    BY <2>1, GrantedType
  <2>3. Counted(Load(p), Cardinality(Granted(w, p)), Cardinality(plan[w].cover)) \in Row
    BY <2>1, <2>2, LoadType, CountedType
  <2>4. /\ awards' \in [Players -> SUBSET (1..MaxDay)] /\ granted' \in [Players -> SUBSET (1..MaxDay)]
        /\ frozen' \in [Players -> SUBSET (1..MaxDay)] /\ counters' \in [Players -> Row \cup {NoRow}]
    BY <1>6, <2>1, <2>2, <2>3 DEF Commit, Recorded, TypeOK
  <2>5. Leave(w) /\ UNCHANGED <<played, archive, late, adopted, today, marks, changes>>
    BY <1>6 DEF Commit
  <2> QED
    BY <2>4, <2>5, LeaveType DEF TypeOK, Plans, Jobs
<1>7. ASSUME NEW w \in Workers, Abort(w) PROVE TypeOK' /\ HasPlayer'
  BY <1>7, LeaveType DEF Abort, TypeOK, Plans, Jobs
<1>8. ASSUME NEW p \in Players, Finish(p) PROVE TypeOK' /\ HasPlayer'
  <2>1. PICK d \in 1 .. today \ played[p] :
          /\ played' = [played EXCEPT ![p] = @ \cup {d}]
          /\ late' = IF \E e \in played[p] : e > d THEN late \cup {p} ELSE late
    BY <1>8 DEF Finish
  <2>2. d \in 1 .. MaxDay
    BY MaxDayType DEF TypeOK
  <2>3. played' \in [Players -> SUBSET (1..MaxDay)] /\ late' \subseteq Players
    BY <2>1, <2>2 DEF TypeOK
  <2>4. UNCHANGED <<archive, awards, granted, frozen, counters, marks, adopted, today, locks, pc, job, plan, changes>>
    BY <1>8 DEF Finish
  <2> QED
    BY <2>3, <2>4 DEF TypeOK, HasPlayer
<1>12. ASSUME NEW p \in Players, FinishArchive(p) PROVE TypeOK' /\ HasPlayer'
  <2>1. archive' \in [Players -> SUBSET (1..MaxDay)] /\ changes' \in 0 .. MaxChanges
    BY <1>12, MaxDayType DEF FinishArchive, TypeOK
  <2> QED
    BY <1>12, <2>1 DEF FinishArchive, TypeOK, HasPlayer
<1>9. ASSUME NEW g \in Guests, NEW a \in Accounts, Adopt(g, a) PROVE TypeOK' /\ HasPlayer'
  <2>1. g \in Players /\ a \in Players
    BY DEF Players
  <2>2. /\ awards' \in [Players -> SUBSET (1..MaxDay)] /\ granted' \in [Players -> SUBSET (1..MaxDay)]
        /\ frozen' \in [Players -> SUBSET (1..MaxDay)] /\ counters' \in [Players -> Row \cup {NoRow}]
    BY <1>9, <2>1, MergedType DEF Adopt, MergedUses, TypeOK
  <2>3. /\ played' \in [Players -> SUBSET (1..MaxDay)] /\ adopted' \subseteq Guests
        /\ marks' \in [Players -> SUBSET {"toggle", "add", "adopt"}]
        /\ archive' \in [Players -> SUBSET (1..MaxDay)]
    BY <1>9, <2>1 DEF Adopt, TypeOK
  <2> QED
    BY <1>9, <2>2, <2>3 DEF Adopt, TypeOK, HasPlayer
<1>10. CASE Midnight
  BY <1>10, MaxDayType DEF Midnight, TypeOK, HasPlayer
<1>11. CASE UNCHANGED vars
  BY <1>11 DEF vars, TypeOK, HasPlayer
<1> QED
  BY <1>1, <1>2, <1>3, <1>4, <1>5, <1>6, <1>7, <1>8, <1>9, <1>10, <1>11, <1>12 DEF Next

(* Every variable of the freezes keeps its type; no settlement plans to hold *)
(* less than nothing.                                                        *)
THEOREM TypeCorrect == Spec => []TypeOK
<1>1. Spec => [](TypeOK /\ HasPlayer)
  BY TypeInit, TypeStep, PTL DEF Spec
<1> QED
  BY <1>1, PTL

------------------------------------------------------------------------------
(* Locks, plans and rows.                                                    *)

(* A settlement holds its player's lock, and the row's once it has decided.  *)
Locking(w) ==
    /\ pc[w] \in {"lock", "commit"} => playerLock[job[w].player] = w
    /\ pc[w] = "commit" => rowLock[job[w].player] = w

(* What is about to be committed was decided on what is still there.         *)
PlanFresh(w) == pc[w] = "commit" =>
    plan[w] = Decision(job[w].player, job[w].day, Load(job[w].player))

(* The row a switch or a gift will write is one that a player may have.      *)
RowFits(w) == pc[w] = "write" =>
    /\ job[w].row.available >= 0
    /\ job[w].op = "add" \/ "add" \in marks[job[w].player] \/ job[w].row.available <= Cap

Orderly == \A w \in Workers : Locking(w) /\ PlanFresh(w) /\ RowFits(w)

(* Only recorded milestones are granted.                                     *)
GrantedRecorded == \A p \in Players : granted[p] \subseteq awards[p]

FreezeInv == Orderly /\ GrantedRecorded /\ HeldInBounds /\ BooksBalance

(* What a decision looks at, and what else may not move while it waits.      *)
Same(p) ==
    /\ played'[p] = played[p] /\ frozen'[p] = frozen[p] /\ awards'[p] = awards[p]
    /\ counters'[p] = counters[p]

(* A step of one request, or of none, seen by another.                       *)
Apart(v) ==
    /\ pc'[v] = pc[v] /\ job'[v] = job[v] /\ plan'[v] = plan[v]
    /\ \A p \in Players : /\ playerLock[p] = v => playerLock'[p] = v
                          /\ rowLock[p] = v => rowLock'[p] = v
                          /\ marks[p] \subseteq marks'[p]

LEMMA StaysOrderly ==
    ASSUME HasPlayer, Orderly, NEW v \in Workers, Apart(v),
           pc[v] = "commit" => Same(job[v].player)
    PROVE  Locking(v)' /\ PlanFresh(v)' /\ RowFits(v)'
<1>1. pc[v] # "idle" => job[v].player \in Players
  BY DEF HasPlayer
<1>2. Locking(v)'
  BY <1>1 DEF Orderly, Locking, Apart
<1>3. PlanFresh(v)'
  BY <1>1 DEF Orderly, PlanFresh, Apart, Same, Decision, Load
<1>4. RowFits(v)'
  BY <1>1 DEF Orderly, RowFits, Apart
<1> QED
  BY <1>2, <1>3, <1>4

(* The counters and the two tables of everybody stay.                        *)
LEMMA BooksKept ==
    ASSUME FreezeInv, UNCHANGED <<awards, granted, frozen, counters, marks>>
    PROVE  (GrantedRecorded /\ HeldInBounds /\ BooksBalance)'
  BY DEF FreezeInv, GrantedRecorded, HeldInBounds, BooksBalance, Load

LEMMA LeaveApart ==
    ASSUME TypeOK, NEW w \in Workers, Leave(w), marks' = marks, NEW v \in Workers \ {w}
    PROVE  Apart(v)
  BY DEF Leave, Apart, TypeOK

LEMMA AdmitKeeps == ASSUME TypeOK, HasPlayer, FreezeInv, NEW w \in Workers, NEW p \in Players, Admit(w, p)
                    PROVE  FreezeInv'
<1> USE DEF ledger, locks
<1>1. UNCHANGED <<played, awards, granted, frozen, counters, marks>> /\ \A q \in Players : Same(q)
  BY DEF Admit, Same
<1>2. CASE Leave(w)
  <2>1. \A v \in Workers \ {w} : Locking(v)' /\ PlanFresh(v)' /\ RowFits(v)'
    BY <1>1, <1>2, LeaveApart, StaysOrderly DEF FreezeInv, HasPlayer
  <2>2. Locking(w)' /\ PlanFresh(w)' /\ RowFits(w)'
    BY <1>2 DEF Leave, Locking, PlanFresh, RowFits, TypeOK
  <2> QED
    BY <1>1, <2>1, <2>2, BooksKept DEF FreezeInv, Orderly
<1>3. CASE /\ playerLock' = [playerLock EXCEPT ![p] = w]
           /\ job' = [job EXCEPT ![w] = [player |-> p, op |-> "read", day |-> today, row |-> Load(p)]]
           /\ pc' = [pc EXCEPT ![w] = "lock"]
           /\ UNCHANGED <<rowLock, plan>>
  <2>1. playerLock[p] = None
    BY DEF Admit
  <2>2. \A v \in Workers \ {w} : Apart(v)
    BY <1>1, <1>3, <2>1, RowFacts DEF Apart, TypeOK
  <2>3. \A v \in Workers \ {w} : Locking(v)' /\ PlanFresh(v)' /\ RowFits(v)'
    BY <1>1, <2>2, StaysOrderly DEF FreezeInv, HasPlayer
  <2>4. Locking(w)' /\ PlanFresh(w)' /\ RowFits(w)'
    BY <1>3 DEF Locking, PlanFresh, RowFits, TypeOK
  <2> QED
    BY <1>1, <2>3, <2>4, BooksKept DEF FreezeInv, Orderly
<1> QED
  BY <1>2, <1>3 DEF Admit

LEMMA ChangeKeeps ==
    ASSUME TypeOK, HasPlayer, FreezeInv, NEW w \in Workers, NEW p \in Players,
           (\E on \in BOOLEAN : Toggle(w, p, on)) \/ (\E n \in Gifts : Add(w, p, n))
    PROVE  FreezeInv'
<1> USE DEF ledger, locks
<1>1. /\ UNCHANGED <<played, awards, granted, frozen, counters, marks, playerLock, rowLock, plan>>
      /\ \A q \in Players : Same(q)
  BY DEF Toggle, Add, Same
<1>2. \A v \in Workers \ {w} : Apart(v)
  BY <1>1 DEF Toggle, Add, Apart, TypeOK
<1>3. \A v \in Workers \ {w} : Locking(v)' /\ PlanFresh(v)' /\ RowFits(v)'
  BY <1>1, <1>2, StaysOrderly DEF FreezeInv, HasPlayer
<1>4. Load(p) \in Row /\ Load(p).available >= 0 /\ ("add" \notin marks[p] => Load(p).available <= Cap)
  BY LoadType DEF FreezeInv, HeldInBounds
<1>5. pc'[w] = "write" /\ RowFits(w)'
  <2>1. ASSUME NEW on \in BOOLEAN, Toggle(w, p, on) PROVE pc'[w] = "write" /\ RowFits(w)'
    <3> DEFINE r == [Load(p) EXCEPT !.auto = on]
               J == [NoJob EXCEPT !.player = p, !.op = "toggle", !.row = r]
    <3>1. job' = [job EXCEPT ![w] = J]
      BY <2>1 DEF Toggle
    <3>2. r.available = Load(p).available
      BY <1>4 DEF Row
    <3> HIDE DEF r
    <3>3. J.player = p /\ J.row = r
      BY DEF NoJob
    <3> HIDE DEF J
    <3>4. pc'[w] = "write" /\ job'[w] = J /\ marks' = marks
      BY <2>1, <3>1 DEF Toggle, TypeOK
    <3> QED
      BY <1>4, <3>2, <3>3, <3>4 DEF RowFits
  <2>2. ASSUME NEW n \in Gifts, Add(w, p, n) PROVE pc'[w] = "write" /\ RowFits(w)'
    <3> DEFINE r == [Load(p) EXCEPT !.available = @ + n]
               J == [NoJob EXCEPT !.player = p, !.op = "add", !.row = r]
    <3>1. job' = [job EXCEPT ![w] = J]
      BY <2>2 DEF Add
    <3>2. r.available = Load(p).available + n /\ n \in Nat /\ Load(p).available \in Int
      BY <1>4, PartiesAssumption DEF Row, PartiesAssumption
    <3> HIDE DEF r
    <3>3. J.op = "add" /\ J.row = r
      BY DEF NoJob
    <3> HIDE DEF J
    <3>4. pc'[w] = "write" /\ job'[w] = J
      BY <2>2, <3>1 DEF Add, TypeOK
    <3> QED
      BY <1>4, <3>2, <3>3, <3>4 DEF RowFits
  <2> QED
    BY <2>1, <2>2
<1>6. Locking(w)' /\ PlanFresh(w)'
  BY <1>5 DEF Locking, PlanFresh
<1> QED
  BY <1>1, <1>3, <1>5, <1>6, BooksKept DEF FreezeInv, Orderly

(* A row is written when nobody has it locked.                               *)
LEMMA UpsertKeeps ==
    ASSUME TypeOK, HasPlayer, FreezeInv, NEW w \in Workers, Upsert(w), NEW p \in Players, p = job[w].player
    PROVE  FreezeInv'
<1> USE DEF locks
<1>1. /\ pc[w] = "write" /\ job[w].op \in {"toggle", "add"} /\ job[w].row \in Row /\ rowLock[p] = None
      /\ UNCHANGED <<played, awards, granted, frozen, playerLock, rowLock, job, plan>>
      /\ counters' = [counters EXCEPT ![p] = job[w].row]
      /\ marks' = [marks EXCEPT ![p] = @ \cup {job[w].op}]
      /\ pc' = [pc EXCEPT ![w] = "admit"]
  BY DEF Upsert, HasPlayer, TypeOK
<1>2. \A v \in Workers \ {w} : Apart(v)
  BY <1>1 DEF Apart, TypeOK
<1>3. \A v \in Workers : pc[v] = "commit" => job[v].player # p
  BY <1>1, RowFacts DEF FreezeInv, Orderly, Locking
<1>4. \A v \in Workers : pc[v] = "commit" => Same(job[v].player)
  BY <1>1, <1>3 DEF Same, TypeOK
<1>5. \A v \in Workers \ {w} : Locking(v)' /\ PlanFresh(v)' /\ RowFits(v)'
  BY <1>2, <1>4, StaysOrderly DEF FreezeInv
<1>6. Locking(w)' /\ PlanFresh(w)' /\ RowFits(w)'
  BY <1>1 DEF Locking, PlanFresh, RowFits, TypeOK
<1>7. \A q \in Players : q # p => Load(q)' = Load(q) /\ marks'[q] = marks[q]
  BY <1>1 DEF Load, TypeOK
<1>8. Load(p)' = job[w].row /\ marks'[p] = marks[p] \cup {job[w].op}
  BY <1>1, RowFacts DEF Load, TypeOK
<1>9. HeldInBounds'
  <2>1. job[w].row.available >= 0 /\ (job[w].op = "add" \/ "add" \in marks[p] \/ job[w].row.available <= Cap)
    BY <1>1 DEF FreezeInv, Orderly, RowFits
  <2> QED
    BY <1>7, <1>8, <2>1 DEF FreezeInv, HeldInBounds
<1>10. BooksBalance' /\ GrantedRecorded'
  BY <1>1, <1>7, <1>8 DEF FreezeInv, BooksBalance, GrantedRecorded
<1> QED
  BY <1>5, <1>6, <1>9, <1>10 DEF FreezeInv, Orderly

LEMMA LockRowKeeps == ASSUME TypeOK, HasPlayer, FreezeInv, NEW w \in Workers, LockRow(w) PROVE FreezeInv'
<1> USE DEF ledger
<1> DEFINE p == job[w].player
<1>1. /\ p \in Players /\ pc[w] = "lock" /\ rowLock[p] = None
      /\ UNCHANGED <<played, awards, granted, frozen, counters, marks, playerLock, job>>
      /\ rowLock' = [rowLock EXCEPT ![p] = w]
      /\ plan' = [plan EXCEPT ![w] = Decision(p, job[w].day, RowUnderLock(w))]
      /\ pc' = [pc EXCEPT ![w] = "commit"] /\ \A q \in Players : Same(q)
  BY DEF LockRow, HasPlayer, Same
<1>2. \A v \in Workers \ {w} : Apart(v)
  BY <1>1, RowFacts DEF Apart, TypeOK
<1>3. \A v \in Workers \ {w} : Locking(v)' /\ PlanFresh(v)' /\ RowFits(v)'
  BY <1>1, <1>2, StaysOrderly DEF FreezeInv, HasPlayer
<1>4. Locking(w)' /\ RowFits(w)'
  BY <1>1 DEF FreezeInv, Orderly, Locking, RowFits, TypeOK
<1>5. PlanFresh(w)'
  <2>1. plan'[w] = Decision(p, job[w].day, Load(p))
    BY <1>1 DEF RowUnderLock, TypeOK
  <2> QED
    BY <1>1, <2>1 DEF PlanFresh, Same, Decision, Load
<1> QED
  BY <1>1, <1>3, <1>4, <1>5, BooksKept DEF FreezeInv, Orderly

(* What a commit writes: the planned number of milestones is granted, each   *)
(* for the first time, and as many freezes go as days are newly covered.     *)
LEMMA CommitBooks ==
    ASSUME TypeOK, HasPlayer, FreezeInv, NEW w \in Workers, pc[w] = "commit",
           NEW p \in Players, p = job[w].player
    PROVE  /\ Granted(w, p) \subseteq plan[w].awards
           /\ Granted(w, p) \cap awards[p] = {} /\ plan[w].cover \cap frozen[p] = {}
           /\ Cardinality(Granted(w, p)) = plan[w].granted
           /\ plan[w].granted \in Nat /\ plan[w].granted <= Room(Load(p).available)
           /\ Cardinality(plan[w].cover) \in Nat
           /\ Cardinality(plan[w].cover) <= Load(p).available + plan[w].granted
<1> DEFINE D == plan[w]
<1>1. D = Decision(p, job[w].day, Load(p)) /\ job[w].day \in 0 .. MaxDay /\ Load(p) \in Row
  BY LoadType DEF FreezeInv, Orderly, PlanFresh, TypeOK
<1>2. /\ D \in Plans /\ D.awards \cap awards[p] = {}
      /\ D.granted <= Cardinality(D.awards) /\ D.granted <= Room(Held(Load(p)))
      /\ D.cover \cap frozen[p] = {}
      /\ Cardinality(D.cover) \in Nat /\ Cardinality(D.cover) <= Held(Load(p)) + D.granted
  BY <1>1, DecisionType
<1>3. Held(Load(p)) = Load(p).available
  BY <1>1 DEF FreezeInv, HeldInBounds, Held, Row
<1>4. D.awards \ awards[p] = D.awards
  BY <1>2
<1>5. Granted(w, p) = {d \in D.awards : Nth(d, D.awards) <= D.granted}
  BY <1>4 DEF Granted
<1>6. D.awards \in SUBSET (0 .. MaxDay) /\ D.granted \in Nat /\ MaxDay \in Nat
  BY <1>2, MaxDayType DEF Plans
<1>7. Cardinality(Granted(w, p)) = D.granted
  BY <1>2, <1>5, <1>6, FirstOnes
<1> QED
  BY <1>2, <1>3, <1>5, <1>6, <1>7

LEMMA CommitKeeps ==
    ASSUME TypeOK, HasPlayer, FreezeInv, NEW w \in Workers, Commit(w), NEW p \in Players, p = job[w].player
    PROVE  FreezeInv'
<1> DEFINE gain == Cardinality(Granted(w, p))
           loss == Cardinality(plan[w].cover)
<1>1. /\ pc[w] = "commit" /\ Leave(w) /\ played' = played /\ marks' = marks
      /\ awards' = [awards EXCEPT ![p] = @ \cup plan[w].awards]
      /\ granted' = [granted EXCEPT ![p] = @ \cup Granted(w, p)]
      /\ frozen' = [frozen EXCEPT ![p] = @ \cup plan[w].cover]
      /\ counters' = [counters EXCEPT ![p] = Counted(Load(p), gain, loss)]
  BY DEF Commit, Recorded, HasPlayer
<1>2. /\ Granted(w, p) \subseteq plan[w].awards
      /\ Granted(w, p) \cap awards[p] = {} /\ plan[w].cover \cap frozen[p] = {}
      /\ gain \in Nat /\ loss \in Nat
      /\ gain <= Room(Load(p).available) /\ loss <= Load(p).available + gain
  BY <1>1, CommitBooks
<1> HIDE DEF gain, loss
<1>3. \A v \in Workers \ {w} : Locking(v)' /\ PlanFresh(v)' /\ RowFits(v)'
  <2>1. SUFFICES ASSUME NEW v \in Workers \ {w} PROVE Locking(v)' /\ PlanFresh(v)' /\ RowFits(v)'
    OBVIOUS
  <2>2. pc[v] = "commit" => job[v].player # p
    BY <1>1 DEF FreezeInv, Orderly, Locking
  <2>3. pc[v] = "commit" => Same(job[v].player)
    BY <1>1, <2>2 DEF Same, TypeOK, HasPlayer
  <2> QED
    BY <1>1, <2>3, LeaveApart, StaysOrderly DEF FreezeInv
<1>4. Locking(w)' /\ PlanFresh(w)' /\ RowFits(w)'
  BY <1>1 DEF Leave, Locking, PlanFresh, RowFits, TypeOK
<1>5. GrantedRecorded'
  BY <1>1, <1>2 DEF FreezeInv, GrantedRecorded, TypeOK
<1>6. \A q \in Players : q # p => Load(q)' = Load(q) /\ granted'[q] = granted[q] /\ frozen'[q] = frozen[q]
  BY <1>1 DEF Load, TypeOK
<1>7. Load(p)' \in Row /\ Load(p)'.available = Load(p).available + gain - loss /\ Load(p)'.used = Load(p).used + loss
  <2>1. /\ Counted(Load(p), gain, loss) \in Row
        /\ Counted(Load(p), gain, loss).available = Load(p).available + gain - loss
        /\ Counted(Load(p), gain, loss).used = Load(p).used + loss
    BY <1>1, <1>2, LoadType, CountedType
  <2>2. counters'[p] = Counted(Load(p), gain, loss)
    BY <1>1 DEF TypeOK
  <2>3. Load(p)' = Counted(Load(p), gain, loss)
    BY <2>1, <2>2, RowFacts DEF Load
  <2> QED
    BY <2>1, <2>3
<1>8. Load(p).available \in Int /\ Load(p).used \in Nat
  BY <1>1, LoadType DEF Row
<1>9. HeldInBounds'
  <2>1. Load(p)'.available >= 0 /\ ("add" \notin marks[p] => Load(p)'.available <= Cap)
    BY <1>1, <1>2, <1>7, <1>8, RowFacts DEF FreezeInv, HeldInBounds, Room
  <2> QED
    BY <1>1, <1>6, <2>1 DEF FreezeInv, HeldInBounds
<1>10. BooksBalance'
  <2>1. SUFFICES ASSUME marks[p] = {}
                 PROVE  /\ Load(p)'.available = Cardinality(granted'[p]) - Cardinality(frozen'[p])
                        /\ Load(p)'.used = Cardinality(frozen'[p])
    BY <1>1, <1>6 DEF FreezeInv, BooksBalance
  <2>2. /\ Load(p).available = Cardinality(granted[p]) - Cardinality(frozen[p])
        /\ Load(p).used = Cardinality(frozen[p])
    BY <1>1, <2>1 DEF FreezeInv, BooksBalance
  <2>3. Cardinality(granted'[p]) = Cardinality(granted[p]) + gain /\ Cardinality(granted[p]) \in Nat
    <3>1. granted'[p] = granted[p] \cup Granted(w, p) /\ granted[p] \cap Granted(w, p) = {}
      BY <1>1, <1>2 DEF FreezeInv, GrantedRecorded, TypeOK
    <3>2. granted[p] \in SUBSET (1 .. MaxDay) /\ Granted(w, p) \in SUBSET (1 .. MaxDay)
      BY <1>1, GrantedType DEF TypeOK
    <3>3. Cardinality(granted[p] \cup Granted(w, p)) = Cardinality(granted[p]) + Cardinality(Granted(w, p))
          /\ Cardinality(granted[p]) \in Nat
      BY <3>1, <3>2, UnionDays
    <3> QED
      BY <3>1, <3>3 DEF gain
  <2>4. Cardinality(frozen'[p]) = Cardinality(frozen[p]) + loss /\ Cardinality(frozen[p]) \in Nat
    <3>1. frozen'[p] = frozen[p] \cup plan[w].cover /\ frozen[p] \cap plan[w].cover = {}
      BY <1>1, <1>2 DEF TypeOK
    <3>2. frozen[p] \in SUBSET (1 .. MaxDay) /\ plan[w].cover \in SUBSET (1 .. MaxDay)
      BY <1>1, GrantedType DEF TypeOK
    <3>3. Cardinality(frozen[p] \cup plan[w].cover) = Cardinality(frozen[p]) + Cardinality(plan[w].cover)
          /\ Cardinality(frozen[p]) \in Nat
      BY <3>1, <3>2, UnionDays
    <3> QED
      BY <3>1, <3>3 DEF loss
  <2> QED
    BY <1>2, <1>7, <1>8, <2>2, <2>3, <2>4
<1> QED
  BY <1>3, <1>4, <1>5, <1>9, <1>10 DEF FreezeInv, Orderly

LEMMA AbortKeeps == ASSUME TypeOK, HasPlayer, FreezeInv, NEW w \in Workers, Abort(w) PROVE FreezeInv'
<1>1. Leave(w) /\ UNCHANGED <<played, awards, granted, frozen, counters, marks>> /\ \A q \in Players : Same(q)
  BY DEF Abort, ledger, Same
<1>2. \A v \in Workers \ {w} : Locking(v)' /\ PlanFresh(v)' /\ RowFits(v)'
  BY <1>1, LeaveApart, StaysOrderly DEF FreezeInv, HasPlayer
<1>3. Locking(w)' /\ PlanFresh(w)' /\ RowFits(w)'
  BY <1>1 DEF Leave, Locking, PlanFresh, RowFits, TypeOK
<1> QED
  BY <1>1, <1>2, <1>3, BooksKept DEF FreezeInv, Orderly

LEMMA FinishKeeps == ASSUME TypeOK, HasPlayer, FreezeInv, NEW p \in Players, Finish(p) PROVE FreezeInv'
<1>1. /\ playerLock[p] = None /\ \A q \in Players \ {p} : played'[q] = played[q]
      /\ UNCHANGED <<awards, granted, frozen, counters, marks, playerLock, rowLock, pc, job, plan>>
  BY DEF Finish, locks, TypeOK
<1>2. \A v \in Workers : Apart(v)
  BY <1>1 DEF Apart
<1>3. \A v \in Workers : pc[v] = "commit" => Same(job[v].player)
  BY <1>1, RowFacts DEF FreezeInv, Orderly, Locking, Same, HasPlayer
<1> QED
  BY <1>1, <1>2, <1>3, StaysOrderly, BooksKept DEF FreezeInv, Orderly

(* An adoption caps what it adds up.                                         *)
LEMMA AdoptKeeps == ASSUME TypeOK, HasPlayer, FreezeInv, NEW g \in Guests, NEW a \in Accounts, Adopt(g, a)
                    PROVE  FreezeInv'
<1>0. g \in Players /\ a \in Players /\ g # a
  BY PartiesAssumption DEF PartiesAssumption, Players
<1>1. /\ playerLock[g] = None /\ playerLock[a] = None
      /\ \A q \in Players \ {a, g} : played'[q] = played[q]
      /\ frozen' = [frozen EXCEPT ![a] = MergedUses(g, a)]
      /\ awards' = [awards EXCEPT ![a] = @ \cup awards[g]]
      /\ granted' = [granted EXCEPT ![a] = @ \cup (granted[g] \ awards[a])]
      /\ counters' = [counters EXCEPT ![a] = MergedRow(g, a)]
      /\ marks' = [marks EXCEPT ![a] = @ \cup {"adopt"}]
      /\ UNCHANGED <<playerLock, rowLock, pc, job, plan>>
  BY DEF Adopt, locks, TypeOK
<1>2. \A v \in Workers : Apart(v)
  BY <1>1 DEF Apart, TypeOK
<1>3. \A v \in Workers : pc[v] = "commit" => Same(job[v].player)
  <2>1. SUFFICES ASSUME NEW v \in Workers, pc[v] = "commit" PROVE Same(job[v].player)
    OBVIOUS
  <2>2. job[v].player \in Players /\ job[v].player # g /\ job[v].player # a
    BY <1>1, <2>1, RowFacts DEF FreezeInv, Orderly, Locking, HasPlayer
  <2> QED
    BY <1>1, <2>2 DEF Same, TypeOK
<1>4. Orderly'
  BY <1>2, <1>3, StaysOrderly DEF FreezeInv, Orderly
<1>5. GrantedRecorded'
  BY <1>0, <1>1 DEF FreezeInv, GrantedRecorded, TypeOK
<1>6. \A q \in Players : q # a => Load(q)' = Load(q) /\ marks'[q] = marks[q] /\ granted'[q] = granted[q] /\ frozen'[q] = frozen[q]
  BY <1>1 DEF Load, TypeOK
<1>7. marks'[a] # {} /\ counters'[a] = MergedRow(g, a) /\ ("add" \in marks[a] <=> "add" \in marks'[a])
  BY <1>0, <1>1 DEF TypeOK
<1>8. Load(a)'.available >= 0 /\ ("add" \notin marks'[a] => Load(a)'.available <= Cap)
  <2>1. \A q \in Players : Load(q) \in Row /\ Load(q).available \in Int /\ Load(q).available >= 0
    BY LoadType DEF FreezeInv, HeldInBounds, Row
  <2>2. \A i \in Int : i >= 0 => AtMostCap(i) \in Int /\ AtMostCap(i) >= 0 /\ AtMostCap(i) <= Cap
    BY RowFacts DEF AtMostCap
  <2>3. CASE counters[g] = NoRow
    <3>1. Load(a)' = Load(a)
      BY <1>7, <2>3 DEF Load, MergedRow
    <3> QED
      BY <1>0, <1>7, <3>1 DEF FreezeInv, HeldInBounds
  <2>4. CASE counters[g] # NoRow /\ counters[a] = NoRow
    <3>1. counters'[a].available = AtMostCap(Load(g).available)
      BY <1>7, <2>4 DEF MergedRow, Load, DefaultRow
    <3>2. counters'[a] \in Row \cup {NoRow}
      BY <1>7, MergedType
    <3>3. Load(a)'.available \in {0, AtMostCap(Load(g).available)}
      BY <3>1, <3>2 DEF Load, DefaultRow
    <3> QED
      BY <1>0, <2>1, <2>2, <3>3, RowFacts
  <2>5. CASE counters[g] # NoRow /\ counters[a] # NoRow
    <3>1. counters'[a].available = AtMostCap(Load(a).available + Load(g).available)
      <4>1. counters[a] \in Row
        BY <1>0, <2>5 DEF TypeOK
      <4> QED
        BY <1>7, <2>5, <4>1 DEF MergedRow, Load, Row
    <3>2. Load(a)'.available \in {0, AtMostCap(Load(a).available + Load(g).available)}
      BY <3>1 DEF Load, DefaultRow
    <3>3. Load(a).available + Load(g).available \in Int /\ Load(a).available + Load(g).available >= 0
      BY <1>0, <2>1
    <3> QED
      BY <2>2, <3>2, <3>3, RowFacts
  <2> QED
    BY <2>3, <2>4, <2>5
<1>9. HeldInBounds' /\ BooksBalance'
  BY <1>6, <1>7, <1>8 DEF FreezeInv, HeldInBounds, BooksBalance
<1> QED
  BY <1>4, <1>5, <1>9 DEF FreezeInv

LEMMA FreezeInit == Init => FreezeInv
<1>1. SUFFICES ASSUME Init PROVE FreezeInv
  OBVIOUS
<1>2. Orderly
  BY <1>1 DEF Init, Orderly, Locking, PlanFresh, RowFits
<1>3. GrantedRecorded /\ HeldInBounds /\ BooksBalance
  BY <1>1, RowFacts, FS_EmptySet DEF Init, GrantedRecorded, HeldInBounds, BooksBalance, Load, DefaultRow
<1> QED
  BY <1>2, <1>3 DEF FreezeInv

LEMMA FreezeStep == TypeOK /\ HasPlayer /\ FreezeInv /\ [Next]_vars => FreezeInv'
<1> SUFFICES ASSUME TypeOK, HasPlayer, FreezeInv, [Next]_vars PROVE FreezeInv'
  OBVIOUS
<1>1. CASE Midnight \/ UNCHANGED vars \/ \E p \in Players : FinishArchive(p)
  <2>1. UNCHANGED <<played, awards, granted, frozen, counters, marks, playerLock, rowLock, pc, job, plan>>
    BY <1>1 DEF Midnight, FinishArchive, vars, ledger, locks
  <2>2. \A v \in Workers : Apart(v) /\ (pc[v] = "commit" => Same(job[v].player))
    BY <2>1 DEF Apart, Same
  <2> QED
    BY <2>1, <2>2, StaysOrderly, BooksKept DEF FreezeInv, Orderly
<1>2. ASSUME NEW w \in Workers, Upsert(w) \/ Commit(w) PROVE FreezeInv'
  <2>1. job[w].player \in Players
    BY <1>2 DEF Upsert, Commit, HasPlayer
  <2> QED
    BY <1>2, <2>1, UpsertKeeps, CommitKeeps
<1> QED
  BY <1>1, <1>2, AdmitKeeps, ChangeKeeps, LockRowKeeps, AbortKeeps, FinishKeeps, AdoptKeeps DEF Next

LEMMA FreezeCorrect == Spec => [](TypeOK /\ HasPlayer /\ FreezeInv)
<1>1. Init => TypeOK /\ HasPlayer /\ FreezeInv
  BY TypeInit, FreezeInit
<1>2. (TypeOK /\ HasPlayer /\ FreezeInv) /\ [Next]_vars => (TypeOK /\ HasPlayer /\ FreezeInv)'
  BY TypeStep, FreezeStep
<1> QED
  BY <1>1, <1>2, PTL DEF Spec

(* Nobody holds less than nothing, and only a gift lifts one above the cap.  *)
THEOREM HeldInBoundsCorrect == Spec => []HeldInBounds
<1>1. FreezeInv => HeldInBounds
  BY DEF FreezeInv
<1> QED
  BY <1>1, FreezeCorrect, PTL

(* Counters that only settlements wrote are granted milestones less covered  *)
(* days.                                                                     *)
THEOREM BooksBalanceCorrect == Spec => []BooksBalance
<1>1. FreezeInv => BooksBalance
  BY DEF FreezeInv
<1> QED
  BY <1>1, FreezeCorrect, PTL

------------------------------------------------------------------------------
(* Runs of days.                                                             *)

(* The place of a day in its run: the played days of the run up to it.       *)
Place(d, play, froz) == Cardinality(play \cap RunEndingOn(d, play \cup froz))

LEMMA DaysOf ==
    ASSUME NEW S \in SUBSET (1 .. MaxDay)
    PROVE  IsFiniteSet(S) /\ Cardinality(S) \in Nat /\ S \in SUBSET (0 .. MaxDay) /\ \A d \in S : d \in Nat
<1>1. S \in SUBSET (0 .. MaxDay) /\ MaxDay \in Nat /\ \A d \in S : d \in Nat
  BY MaxDayType
<1> QED
  BY <1>1, DaysFinite

LEMMA MoreDays ==
    ASSUME NEW T \in SUBSET (1 .. MaxDay), NEW S \in SUBSET T
    PROVE  Cardinality(S) \in Nat /\ Cardinality(S) <= Cardinality(T)
  BY DaysOf, FS_Subset

LEMMA PlaceType ==
    ASSUME NEW play \in SUBSET (1 .. MaxDay), NEW froz, NEW d
    PROVE  Place(d, play, froz) \in Nat
<1>1. play \cap RunEndingOn(d, play \cup froz) \in SUBSET (1 .. MaxDay)
  OBVIOUS
<1> QED
  BY <1>1, DaysOf DEF Place

(* A day that is not there ends a run; one that is there prolongs yesterday's. *)
LEMMA NextPlace ==
    ASSUME NEW play \in SUBSET (1 .. MaxDay), NEW froz \in SUBSET (1 .. MaxDay), NEW d \in 1 .. MaxDay
    PROVE  /\ d \notin play \cup froz => Place(d, play, froz) = 0
           /\ d \in play => Place(d, play, froz) = Place(d - 1, play, froz) + 1
           /\ d \in froz \ play => Place(d, play, froz) = Place(d - 1, play, froz)
<1> DEFINE all == play \cup froz
<1>0. all \in SUBSET (1 .. MaxDay) /\ d \in Nat /\ d - 1 \in Int /\ \A e \in all : e \in Int
  BY MaxDayType
<1> HIDE DEF all
<1>1. ASSUME d \notin all PROVE RunEndingOn(d, all) = {}
  <2>1. \A e \in all : e <= d => d \in e .. d
    BY <1>0
  <2> QED
    BY <1>1, <2>1 DEF RunEndingOn
<1>2. ASSUME d \in all PROVE RunEndingOn(d, all) = RunEndingOn(d - 1, all) \cup {d} /\ d \notin RunEndingOn(d - 1, all)
  <2>1. \A e \in Int : e <= d - 1 => e .. d = (e .. d - 1) \cup {d}
    BY <1>0
  <2>2. d .. d = {d}
    BY <1>0
  <2>3. \A e \in all : e <= d /\ e .. d \subseteq all <=> (e <= d - 1 /\ e .. d - 1 \subseteq all) \/ e = d
    <3> SUFFICES ASSUME NEW e \in all PROVE e <= d /\ e .. d \subseteq all <=> (e <= d - 1 /\ e .. d - 1 \subseteq all) \/ e = d
      OBVIOUS
    <3>1. CASE e <= d - 1
      <4>1. e .. d = (e .. d - 1) \cup {d} /\ e <= d /\ e # d
        BY <1>0, <2>1, <3>1
      <4> QED
        BY <1>2, <3>1, <4>1
    <3>2. CASE e = d
      BY <1>0, <1>2, <2>2, <3>2
    <3>3. CASE e > d
      BY <1>0, <3>3
    <3> QED
      BY <1>0, <3>1, <3>2, <3>3
  <2>4. \A e, x : e \in RunEndingOn(x, all) <=> e \in all /\ e <= x /\ e .. x \subseteq all
    BY DEF RunEndingOn
  <2>5. \A e : e \in RunEndingOn(d, all) <=> e \in RunEndingOn(d - 1, all) \/ e = d
    BY <1>2, <2>3, <2>4
  <2>6. d \notin RunEndingOn(d - 1, all)
    BY <1>0, <2>4
  <2> QED
    BY <2>5, <2>6
<1>3. ASSUME d \notin all PROVE Place(d, play, froz) = 0
  <2>1. play \cap RunEndingOn(d, all) = {}
    BY <1>1, <1>3
  <2> QED
    BY <2>1, FS_EmptySet DEF Place, all
<1>4. ASSUME d \in play PROVE Place(d, play, froz) = Place(d - 1, play, froz) + 1
  <2> DEFINE before == play \cap RunEndingOn(d - 1, all)
  <2>1. d \in all
    BY <1>4 DEF all
  <2>2. play \cap RunEndingOn(d, all) = before \cup {d} /\ d \notin before
    BY <1>2, <1>4, <2>1
  <2>3. before \in SUBSET (1 .. MaxDay) /\ IsFiniteSet(before)
    BY DaysOf
  <2>4. Cardinality(before \cup {d}) = Cardinality(before) + 1
    BY <2>2, <2>3, FS_AddElement
  <2> QED
    BY <2>2, <2>4 DEF Place, all
<1>5. ASSUME d \in froz \ play PROVE Place(d, play, froz) = Place(d - 1, play, froz)
  <2>1. d \in all
    BY <1>5 DEF all
  <2>2. play \cap RunEndingOn(d, all) = play \cap RunEndingOn(d - 1, all)
    BY <1>2, <1>5, <2>1
  <2> QED
    BY <2>2 DEF Place, all
<1> QED
  BY <1>3, <1>4, <1>5 DEF all

(* Played days come in whole groups before each milestone: no more than one in *)
(* EveryDays of them is a milestone, whatever runs there are.                  *)
LEMMA MilestonesPaid ==
    ASSUME NEW play \in SUBSET (1 .. MaxDay), NEW froz \in SUBSET (1 .. MaxDay)
    PROVE  EveryDays * Cardinality({d \in play : Place(d, play, froz) % EveryDays = 0}) <= Cardinality(play)
<1> DEFINE E == EveryDays
           At(n) == Place(n, play, froz)
           Upto(n) == {d \in play : d <= n}
           Hit(n) == {d \in play : d <= n /\ At(d) % E = 0}
           Paid(n) == (E * Cardinality(Hit(n))) + (At(n) % E) <= Cardinality(Upto(n))
           Owed == {n \in 0 .. MaxDay : ~Paid(n)}
<1>1. /\ E \in Nat \ {0} /\ MaxDay \in Nat \ {0} /\ \A n \in 0 .. MaxDay : n \in Nat
      /\ \A d \in play : d \in Nat /\ 1 <= d /\ d <= MaxDay
  BY RulesAssumption, MaxDayType DEF RulesAssumption
<1>2. /\ \A n : At(n) \in Nat /\ At(n) % E \in 0 .. E - 1
      /\ 0 % E = 0
  BY <1>1, PlaceType, NextRemainder
<1>3. \A n : /\ Upto(n) \in SUBSET (1 .. MaxDay) /\ Hit(n) \in SUBSET (1 .. MaxDay)
             /\ \A d : d \in Upto(n) <=> d \in play /\ d <= n
             /\ \A d : d \in Hit(n) <=> d \in play /\ d <= n /\ At(d) % E = 0
  OBVIOUS
<1>4. Hit(MaxDay) \subseteq {d \in play : At(d) % E = 0} /\ {d \in play : At(d) % E = 0} \subseteq Hit(MaxDay)
  BY <1>1
<1>5. At(0) = 0
  <2>1. play \cap RunEndingOn(0, play \cup froz) = {}
    BY <1>1 DEF RunEndingOn
  <2> QED
    BY <2>1, FS_EmptySet DEF Place
<1>6. \A n \in 1 .. MaxDay : /\ n \notin play \cup froz => At(n) = 0
                             /\ n \in play => At(n) = At(n - 1) + 1
                             /\ n \in froz \ play => At(n) = At(n - 1)
  BY NextPlace
<1> HIDE DEF At, Upto, Hit
<1>7. \A n : /\ Cardinality(Upto(n)) \in Nat /\ IsFiniteSet(Upto(n))
             /\ Cardinality(Hit(n)) \in Nat /\ IsFiniteSet(Hit(n)) /\ E * Cardinality(Hit(n)) \in Int
  BY <1>1, <1>3, DaysOf, Times
<1>8. Paid(0)
  <2>1. Upto(0) = {} /\ Hit(0) = {}
    BY <1>1, <1>3
  <2>2. E * 0 = 0
    BY <1>1
  <2> QED
    BY <1>2, <1>5, <2>1, <2>2, FS_EmptySet
<1>9. ASSUME NEW n \in 1 .. MaxDay, Paid(n - 1) PROVE Paid(n)
  <2>1. \A d \in play : d <= n <=> d <= n - 1 \/ d = n
    BY <1>1
  <2>2. CASE n \notin play
    <3>1. Upto(n) = Upto(n - 1) /\ Hit(n) = Hit(n - 1)
      BY <1>3, <2>1, <2>2
    <3>2. At(n) % E <= At(n - 1) % E
      BY <1>1, <1>2, <1>6, <2>2
    <3> QED
      BY <1>1, <1>2, <1>7, <1>9, <3>1, <3>2
  <2>3. CASE n \in play
    <3>1. Upto(n) = Upto(n - 1) \cup {n} /\ n \notin Upto(n - 1) /\ n \notin Hit(n - 1)
      BY <1>1, <1>3, <2>1, <2>3
    <3>2. Cardinality(Upto(n)) = Cardinality(Upto(n - 1)) + 1
      BY <1>7, <3>1, FS_AddElement
    <3>3. At(n) = At(n - 1) + 1
      BY <1>6, <2>3
    <3>4. CASE At(n - 1) % E = E - 1
      <4>1. At(n) % E = 0
        BY <1>1, <1>2, <3>3, <3>4, NextRemainder
      <4>2. Hit(n) = Hit(n - 1) \cup {n}
        BY <1>1, <1>3, <2>1, <2>3, <4>1
      <4>3. Cardinality(Hit(n)) = Cardinality(Hit(n - 1)) + 1
        BY <1>7, <3>1, <4>2, FS_AddElement
      <4>4. E * Cardinality(Hit(n)) = E * Cardinality(Hit(n - 1)) + E
        BY <1>1, <1>7, <4>3, Times
      <4> QED
        BY <1>1, <1>7, <1>9, <3>2, <3>4, <4>1, <4>4
    <3>5. CASE At(n - 1) % E # E - 1
      <4>1. At(n) % E = (At(n - 1) % E) + 1 /\ At(n) % E # 0
        <5>1. At(n - 1) \in Nat /\ At(n - 1) % E \in 0 .. E - 1
          BY <1>2
        <5>2. (At(n - 1) + 1) % E = (At(n - 1) % E) + 1
          BY <1>1, <3>5, <5>1, NextRemainder
        <5> QED
          BY <1>1, <3>3, <5>1, <5>2
      <4>2. Hit(n) = Hit(n - 1)
        <5>1. \A d : d \in Hit(n) <=> d \in Hit(n - 1)
          BY <1>3, <2>1, <4>1
        <5> QED
          BY <1>3, <5>1
      <4> QED
        BY <1>1, <1>2, <1>7, <1>9, <3>2, <4>1, <4>2
    <3> QED
      BY <3>4, <3>5
  <2> QED
    BY <2>2, <2>3
<1>10. \A n \in 0 .. MaxDay : Paid(n)
  <2> HIDE DEF Paid
  <2> SUFFICES ASSUME Owed # {} PROVE FALSE
    OBVIOUS
  <2>1. PICK n \in Owed : \A m \in Owed : n <= m
    BY <1>1, Least
  <2>2. n # 0 /\ n \in 0 .. MaxDay /\ ~Paid(n)
    BY <1>8, <2>1
  <2>3. n - 1 \in 0 .. MaxDay /\ n \in 1 .. MaxDay /\ ~(n <= n - 1)
    BY <1>1, <2>2
  <2>4. n - 1 \notin Owed
    BY <2>1, <2>3
  <2> QED
    BY <1>9, <2>2, <2>3, <2>4
<1>11. Hit(MaxDay) = {d \in play : At(d) % E = 0}
  BY <1>4
<1>12. Upto(MaxDay) = play
  BY <1>1, <1>3
<1>13. E * Cardinality(Hit(MaxDay)) <= Cardinality(Upto(MaxDay))
  BY <1>1, <1>2, <1>7, <1>10
<1> QED
  BY <1>11, <1>12, <1>13 DEF At

(* What lies after a day does not change its run or its place.             *)
LEMMA RunStable ==
    ASSUME NEW S \in SUBSET (1 .. MaxDay), NEW T \in SUBSET (1 .. MaxDay), NEW d \in Int,
           \A e \in Int : e <= d => (e \in S <=> e \in T)
    PROVE  RunEndingOn(d, S) = RunEndingOn(d, T)
<1>1. \A e \in S \cup T : e \in Int
  BY MaxDayType
<1>2. ASSUME NEW e \in Int, e <= d PROVE e .. d \subseteq S <=> e .. d \subseteq T
  <2>1. \A x \in e .. d : x \in Int /\ x <= d
    BY <1>2
  <2> QED
    BY <2>1
<1>3. \A e, X : e \in RunEndingOn(d, X) <=> e \in X /\ e <= d /\ e .. d \subseteq X
  BY DEF RunEndingOn
<1>4. \A e : e \in RunEndingOn(d, S) <=> e \in RunEndingOn(d, T)
  BY <1>1, <1>2, <1>3
<1> QED
  BY <1>4

LEMMA PlaceStable ==
    ASSUME NEW play \in SUBSET (1 .. MaxDay), NEW froz \in SUBSET (1 .. MaxDay),
           NEW play2 \in SUBSET (1 .. MaxDay), NEW froz2 \in SUBSET (1 .. MaxDay), NEW d \in Int,
           \A e \in Int : e <= d => (e \in play <=> e \in play2) /\ (e \in froz <=> e \in froz2)
    PROVE  Place(d, play, froz) = Place(d, play2, froz2)
<1>1. RunEndingOn(d, play \cup froz) = RunEndingOn(d, play2 \cup froz2)
  BY RunStable
<1>2. \A e \in RunEndingOn(d, play \cup froz) : e <= d /\ e \in Int
  BY MaxDayType DEF RunEndingOn
<1>3. play \cap RunEndingOn(d, play \cup froz) = play2 \cap RunEndingOn(d, play2 \cup froz2)
  BY <1>1, <1>2
<1> QED
  BY <1>3 DEF Place

(* The milestones of the current run have their place in it.               *)
LEMMA MilestonesPlaced ==
    ASSUME NEW play \in SUBSET (1 .. MaxDay), NEW froz \in SUBSET (1 .. MaxDay),
           NEW last \in Int, NEW m \in Milestones(play \cap RunEndingOn(last, play \cup froz))
    PROVE  m \in play /\ Place(m, play, froz) % EveryDays = 0
<1> DEFINE all == play \cup froz
           run == play \cap RunEndingOn(last, all)
<1>1. m \in run /\ Nth(m, run) % EveryDays = 0
  BY DEF Milestones
<1>2. \A e, x : e \in RunEndingOn(x, all) <=> e \in all /\ e <= x /\ e .. x \subseteq all
  BY DEF RunEndingOn
<1>3. \A e \in all : e \in Int
  BY MaxDayType
<1>4. m \in play /\ m <= last /\ m .. last \subseteq all
  BY <1>1, <1>2
<1> HIDE DEF all
<1>5. ASSUME NEW e \in play, e \in all, e \in Int, m \in Int
      PROVE  e <= last /\ e .. last \subseteq all /\ e <= m <=> e <= m /\ e .. m \subseteq all
  <2>1. CASE e <= m
    <3>1. e .. last = (e .. m) \cup (m .. last)
      BY <1>4, <1>5, <2>1
    <3> QED
      BY <1>4, <1>5, <2>1, <3>1
  <2>2. CASE ~(e <= m)
    BY <2>2
  <2> QED
    BY <2>1, <2>2
<1>6. \A e \in play : e \in all /\ e \in Int
  BY <1>3 DEF all
<1>7. {e \in run : e <= m} = play \cap RunEndingOn(m, all)
  <2>1. \A e : e \in {x \in run : x <= m} <=> e \in play /\ e \in RunEndingOn(m, all)
    BY <1>2, <1>4, <1>5, <1>6
  <2> QED
    BY <2>1
<1> QED
  BY <1>1, <1>4, <1>7 DEF Nth, Place, all

-----------------------------------------------------------------------------
(* What a settlement decides, in full.                                       *)

Present(day, play, froz) == {d \in play \cup froz : d <= day}

(* The days from the last one to yesterday can be covered.                   *)
Saves(day, last, run, auto, purse) ==
    last < day - 1 /\ auto /\ Cardinality(run) >= MinRun /\ day - 1 - last <= purse

(* A decision D on the days S, of which last is the last one and ends a run. *)
Shape(D, day, S, last, run, awarded, held, auto) ==
    /\ S # {} => last \in S /\ last \in 1 .. MaxDay /\ last <= day /\ \A d \in S : d <= last
    /\ S = {} \/ day - 1 - last > MaxBridge => D = Idle(held)
    /\ S # {} /\ day - 1 - last <= MaxBridge =>
         /\ D.awards = Milestones(run) \ awarded
         /\ D.granted = Min({Cardinality(D.awards), Room(held)})
         /\ Saves(day, last, run, auto, held + D.granted) => D.cover = last + 1 .. day - 1
         /\ ~Saves(day, last, run, auto, held + D.granted) => D.cover = {}

LEMMA SettleShape ==
    ASSUME NEW play \in SUBSET (1 .. MaxDay), NEW froz \in SUBSET (1 .. MaxDay), NEW awarded,
           NEW held \in Nat, NEW auto \in BOOLEAN, NEW day \in 0 .. MaxDay,
           NEW S, S = Present(day, play, froz)
    PROVE  Shape(SettleFreezes(day, play, froz, awarded, held, auto), day, S, Max(S),
                 play \cap RunEndingOn(Max(S), S), awarded, held, auto)
<1> DEFINE last == Max(S)
           run == play \cap RunEndingOn(last, S)
           D == SettleFreezes(day, play, froz, awarded, held, auto)
<1>0. MaxBridge \in Nat /\ MaxDay \in Nat \ {0} /\ day \in Nat
  BY RulesAssumption, MaxDayType DEF RulesAssumption
<1>1. ASSUME S # {} PROVE last \in S /\ last \in 1 .. MaxDay /\ last <= day /\ \A d \in S : d <= last
  <2>0. S \in SUBSET (1 .. MaxDay) /\ \A d \in S : d <= day
    BY DEF Present
  <2>1. S \in SUBSET (0 .. MaxDay) /\ S \in SUBSET (1 .. MaxDay) /\ \A d \in S : d <= day
    BY <2>0, DaysOf
  <2>2. last \in S /\ \A d \in S : d <= last
    BY <1>0, <1>1, <2>1, LastDay
  <2> QED
    BY <2>1, <2>2
<1> DEFINE missed == Missed(day, last)
           earned == Milestones(run) \ awarded
           given == Min({Cardinality(earned), Room(held)})
           saves == missed > 0 /\ auto /\ Cardinality(run) >= MinRun /\ missed <= held + given
<1>2. S # {} => (missed > MaxBridge <=> day - 1 - last > MaxBridge)
  BY <1>0, <1>1 DEF Missed
<1>3. D = IF S = {} \/ missed > MaxBridge THEN Idle(held)
          ELSE [awards |-> earned, granted |-> given,
                cover |-> IF saves THEN last + 1 .. last + missed ELSE {},
                after |-> held + given - (IF saves THEN missed ELSE 0)]
  BY Zenon DEF SettleFreezes, Present
<1> HIDE DEF earned, given
<1>4. ASSUME S # {}, day - 1 - last <= MaxBridge
      PROVE  /\ D.awards = earned /\ D.granted = given
             /\ Saves(day, last, run, auto, held + given) => D.cover = last + 1 .. day - 1
             /\ ~Saves(day, last, run, auto, held + given) => D.cover = {}
  <2>1. last \in Int /\ last <= day
    BY <1>0, <1>1, <1>4
  <2>2. ~(missed > MaxBridge)
    BY <1>0, <1>2, <1>4, <2>1
  <2>3. D.awards = earned /\ D.granted = given /\ D.cover = IF saves THEN last + 1 .. last + missed ELSE {}
    BY <1>3, <1>4, <2>2
  <2>4. missed > 0 <=> last < day - 1
    BY <1>0, <2>1 DEF Missed
  <2>5. last < day - 1 => missed = day - 1 - last /\ last + missed = day - 1
    BY <1>0, <2>1 DEF Missed
  <2> HIDE DEF missed
  <2>6. saves <=> Saves(day, last, run, auto, held + given)
    BY <2>4, <2>5 DEF Saves
  <2>7. saves => last + missed = day - 1
    BY <2>4, <2>5
  <2> HIDE DEF saves
  <2> QED
    BY <2>3, <2>6, <2>7
<1>5. S = {} \/ day - 1 - last > MaxBridge => D = Idle(held)
  BY <1>2, <1>3
<1> HIDE DEF D, last, run
<1>6. Shape(D, day, S, last, run, awarded, held, auto)
  BY <1>1, <1>4, <1>5 DEF earned, given, Shape
<1> QED
  BY <1>6 DEF D, last, run

-----------------------------------------------------------------------------
(* The calendar of the days played, covered and earned.                      *)

(* Nobody has played or covered a day that has not come, and a settlement    *)
(* sees no day after its own.                                                *)
Calendar ==
    /\ \A p \in Players : /\ \A d \in played[p] : d <= today
                          /\ \A d \in frozen[p] : d < today
    /\ \A w \in Workers : pc[w] \in {"lock", "commit"} =>
         /\ job[w].day <= today
         /\ \A d \in played[job[w].player] : d <= job[w].day
         /\ \A d \in frozen[job[w].player] : d < job[w].day

(* Each recorded milestone still has the place in its run it was earned for, *)
(* unless a finish was recorded after a later day's.                         *)
AwardsEarned == \A p \in Players \ (adopted \cup late) : "adopt" \notin marks[p] =>
    \A d \in awards[p] : d \in played[p] /\ Place(d, played[p], frozen[p]) % EveryDays = 0

CalendarInv == Calendar /\ AwardsEarned

(* A settlement about to be committed, with all that it looks at.            *)
LEMMA PlanShape ==
    ASSUME TypeOK, HasPlayer, FreezeInv, Calendar, NEW w \in Workers, pc[w] = "commit",
           NEW p \in Players, p = job[w].player, NEW day, day = job[w].day,
           NEW S, S = played[p] \cup frozen[p], NEW held, held = Load(p).available
    PROVE  /\ day \in 0 .. MaxDay /\ day <= today /\ held \in Nat /\ S = Present(day, played[p], frozen[p])
           /\ plan[w] = SettleFreezes(day, played[p], frozen[p], awards[p], held, Load(p).auto)
           /\ Shape(plan[w], day, S, Max(S), played[p] \cap RunEndingOn(Max(S), S), awards[p], held, Load(p).auto)
<1>1. plan[w] = Decision(p, day, Load(p)) /\ day \in 0 .. MaxDay
  BY DEF FreezeInv, Orderly, PlanFresh, TypeOK
<1>2. Load(p) \in Row /\ Load(p).available >= 0
  BY LoadType DEF FreezeInv, HeldInBounds
<1>3. Held(Load(p)) = held /\ held \in Nat /\ Load(p).auto \in BOOLEAN
  BY <1>2 DEF Held, Row
<1>4. plan[w] = SettleFreezes(day, played[p], frozen[p], awards[p], held, Load(p).auto)
  BY <1>1, <1>3 DEF Decision
<1>5. played[p] \in SUBSET (1 .. MaxDay) /\ frozen[p] \in SUBSET (1 .. MaxDay)
  BY DEF TypeOK
<1>6. day <= today /\ (\A d \in played[p] : d <= day) /\ (\A d \in frozen[p] : d < day)
  BY DEF Calendar
<1>7. S = Present(day, played[p], frozen[p])
  <2>1. \A d \in S : d <= day
    BY <1>1, <1>5, <1>6
  <2> QED
    BY <2>1 DEF Present
<1>8. Shape(SettleFreezes(day, played[p], frozen[p], awards[p], held, Load(p).auto), day, S, Max(S),
            played[p] \cap RunEndingOn(Max(S), S), awards[p], held, Load(p).auto)
  <2> DEFINE play == played[p]
             froz == frozen[p]
             awarded == awards[p]
             auto == Load(p).auto
  <2>1. play \in SUBSET (1 .. MaxDay) /\ froz \in SUBSET (1 .. MaxDay) /\ auto \in BOOLEAN
        /\ day \in 0 .. MaxDay /\ held \in Nat /\ S = Present(day, play, froz)
    BY <1>1, <1>3, <1>5, <1>7
  <2> HIDE DEF play, froz, awarded, auto
  <2>2. \A s_ : s_ = Present(day, play, froz) =>
          Shape(SettleFreezes(day, play, froz, awarded, held, auto), day, s_, Max(s_),
                play \cap RunEndingOn(Max(s_), s_), awarded, held, auto)
    BY <2>1, SettleShape, Zenon
  <2>3. Shape(SettleFreezes(day, play, froz, awarded, held, auto), day, S, Max(S),
              play \cap RunEndingOn(Max(S), S), awarded, held, auto)
    BY <2>1, <2>2
  <2> QED
    BY <2>3 DEF play, froz, awarded, auto
<1> QED
  BY <1>1, <1>3, <1>4, <1>6, <1>7, <1>8

(* What it covers lies after all that is there, and before its day.          *)
LEMMA CoverLast ==
    ASSUME TypeOK, HasPlayer, FreezeInv, Calendar, NEW w \in Workers, pc[w] = "commit",
           NEW p \in Players, p = job[w].player, NEW d \in plan[w].cover
    PROVE  /\ d \in Int /\ d < job[w].day
           /\ \A e \in played[p] \cup frozen[p] : e < d
<1> DEFINE S == played[p] \cup frozen[p]
           day == job[w].day
           last == Max(S)
<1>1. /\ day \in 0 .. MaxDay
      /\ S # {} => last \in 1 .. MaxDay /\ \A e \in S : e <= last
      /\ plan[w].cover = {} \/ (plan[w].cover = last + 1 .. day - 1 /\ S # {})
  <2>1. Idle(Load(p).available).cover = {}
    BY DEF Idle
  <2>2. /\ day \in 0 .. MaxDay
        /\ Shape(plan[w], day, S, Max(S), played[p] \cap RunEndingOn(Max(S), S), awards[p],
                 Load(p).available, Load(p).auto)
    BY PlanShape
  <2>3. S = {} \/ day - 1 - last > MaxBridge \/ day - 1 - last <= MaxBridge
    BY <2>2, RulesAssumption DEF RulesAssumption, Shape
  <2> QED
    BY <2>1, <2>2, <2>3 DEF Shape
<1>2. \A e \in S : e \in Int
  BY MaxDayType DEF TypeOK
<1> HIDE DEF S, last, day
<1>3. last \in Int /\ day \in Int /\ d \in last + 1 .. day - 1
  BY <1>1
<1>4. d \in Int /\ last < d /\ d < day
  BY <1>3
<1>5. \A e \in S : e < d
  BY <1>1, <1>2, <1>3, <1>4
<1> QED
  BY <1>4, <1>5 DEF S, day

(* What it records has the right place.                                      *)
LEMMA AwardsPlaced ==
    ASSUME TypeOK, HasPlayer, FreezeInv, Calendar, NEW w \in Workers, pc[w] = "commit",
           NEW p \in Players, p = job[w].player, NEW d \in plan[w].awards
    PROVE  d \in played[p] /\ Place(d, played[p], frozen[p]) % EveryDays = 0
<1> DEFINE S == played[p] \cup frozen[p]
<1>1. Idle(Load(p).available).awards = {}
  BY DEF Idle
<1>2. Max(S) \in Int /\ d \in Milestones(played[p] \cap RunEndingOn(Max(S), S))
  <2>1. S # {} /\ Max(S) \in 1 .. MaxDay /\ plan[w].awards = Milestones(played[p] \cap RunEndingOn(Max(S), S)) \ awards[p]
    <3> DEFINE last == Max(S)
               run == played[p] \cap RunEndingOn(last, S)
               day == job[w].day
    <3>1. day \in 0 .. MaxDay /\ Shape(plan[w], day, S, last, run, awards[p], Load(p).available, Load(p).auto)
      BY PlanShape
    <3> HIDE DEF last, run, day, S
    <3>2. S # {} /\ ~(day - 1 - last > MaxBridge)
      BY <1>1, <3>1 DEF Shape
    <3>3. last \in 1 .. MaxDay /\ day - 1 - last <= MaxBridge
      BY <3>1, <3>2, RulesAssumption DEF RulesAssumption, Shape
    <3> QED
      BY <3>1, <3>2, <3>3 DEF Shape, last, run
  <2> QED
    BY <2>1
<1>3. played[p] \in SUBSET (1 .. MaxDay) /\ frozen[p] \in SUBSET (1 .. MaxDay)
  BY DEF TypeOK
<1> DEFINE play == played[p]
           froz == frozen[p]
           last == Max(play \cup froz)
<1>4. play \in SUBSET (1 .. MaxDay) /\ froz \in SUBSET (1 .. MaxDay) /\ last \in Int
      /\ d \in Milestones(play \cap RunEndingOn(last, play \cup froz))
  BY <1>2, <1>3
<1> HIDE DEF play, froz, last
<1>5. d \in play /\ Place(d, play, froz) % EveryDays = 0
  BY <1>4, MilestonesPlaced
<1> QED
  BY <1>5 DEF play, froz

(* A step that changes no day, and lets in no settlement but for today.      *)
LEMMA DaysUnchanged ==
    ASSUME TypeOK, HasPlayer, CalendarInv, UNCHANGED <<played, frozen, awards, adopted, late>>,
           today' \in Nat, today <= today', \A p \in Players : marks[p] \subseteq marks'[p],
           \A w \in Workers : pc'[w] \in {"lock", "commit"} =>
             \/ pc[w] \in {"lock", "commit"} /\ job'[w] = job[w]
             \/ job'[w].player \in Players /\ job'[w].day = today
    PROVE  CalendarInv'
<1>1. today \in Nat /\ \A p \in Players : \A d \in played[p] \cup frozen[p] : d \in Nat
  BY MaxDayType DEF TypeOK
<1>2. \A p \in Players : (\A d \in played[p] : d <= today') /\ (\A d \in frozen[p] : d < today')
  BY <1>1 DEF CalendarInv, Calendar
<1>3. ASSUME NEW w \in Workers, pc'[w] \in {"lock", "commit"}
      PROVE  /\ job'[w].day <= today'
             /\ \A d \in played[job'[w].player] : d <= job'[w].day
             /\ \A d \in frozen[job'[w].player] : d < job'[w].day
  <2>1. CASE pc[w] \in {"lock", "commit"} /\ job'[w] = job[w]
    <3>1. job[w].day \in Nat
      BY MaxDayType DEF TypeOK
    <3>2. /\ job[w].day <= today
          /\ \A d \in played[job[w].player] : d <= job[w].day
          /\ \A d \in frozen[job[w].player] : d < job[w].day
      BY <2>1 DEF CalendarInv, Calendar
    <3> QED
      BY <1>1, <2>1, <3>1, <3>2
  <2>2. CASE job'[w].player \in Players /\ job'[w].day = today
    BY <2>2 DEF CalendarInv, Calendar
  <2> QED
    BY <1>3, <2>1, <2>2
<1>4. Calendar'
  BY <1>2, <1>3 DEF Calendar
<1>5. AwardsEarned'
  BY DEF CalendarInv, AwardsEarned
<1> QED
  BY <1>4, <1>5 DEF CalendarInv

(* Two settlements under way are of two players.                             *)
LEMMA OneSettlement ==
    ASSUME FreezeInv, NEW v \in Workers, NEW w \in Workers, v # w,
           pc[v] \in {"lock", "commit"}, pc[w] \in {"lock", "commit"}
    PROVE  job[v].player # job[w].player
  BY DEF FreezeInv, Orderly, Locking

(* A step that leaves a player's days alone, or earns what it records.       *)
LEMMA AwardsKept ==
    ASSUME AwardsEarned, adopted \subseteq adopted', late \subseteq late',
           \A q \in Players \ (adopted' \cup late') : "adopt" \notin marks'[q] =>
             \/ /\ "adopt" \notin marks[q]
                /\ awards'[q] = awards[q] /\ played'[q] = played[q] /\ frozen'[q] = frozen[q]
             \/ \A d \in awards'[q] : d \in played'[q] /\ Place(d, played'[q], frozen'[q]) % EveryDays = 0
    PROVE  AwardsEarned'
<1> SUFFICES ASSUME NEW q \in Players \ (adopted' \cup late'), "adopt" \notin marks'[q], NEW d \in awards'[q]
             PROVE  d \in played'[q] /\ Place(d, played'[q], frozen'[q]) % EveryDays = 0
  BY DEF AwardsEarned
<1>1. CASE /\ "adopt" \notin marks[q]
           /\ awards'[q] = awards[q] /\ played'[q] = played[q] /\ frozen'[q] = frozen[q]
  <2>1. d \in played[q] /\ Place(d, played[q], frozen[q]) % EveryDays = 0
    BY <1>1 DEF AwardsEarned
  <2> QED
    BY <1>1, <2>1
<1> QED
  BY <1>1

LEMMA CalendarInit == Init => CalendarInv
  BY DEF Init, CalendarInv, Calendar, AwardsEarned

LEMMA CommitCalendar ==
    ASSUME TypeOK, HasPlayer, FreezeInv, CalendarInv, NEW w \in Workers, Commit(w),
           NEW p \in Players, p = job[w].player
    PROVE  CalendarInv'
<1>1. /\ pc[w] = "commit" /\ UNCHANGED <<played, adopted, late, today, marks>>
      /\ awards' = [awards EXCEPT ![p] = @ \cup plan[w].awards]
      /\ frozen' = [frozen EXCEPT ![p] = @ \cup plan[w].cover]
      /\ pc' = [pc EXCEPT ![w] = "idle"] /\ job' = [job EXCEPT ![w] = NoJob]
  BY DEF Commit, Recorded, Leave
<1>2. /\ \A q \in Players \ {p} : awards'[q] = awards[q] /\ frozen'[q] = frozen[q]
      /\ awards'[p] = awards[p] \cup plan[w].awards /\ frozen'[p] = frozen[p] \cup plan[w].cover
      /\ \A v \in Workers \ {w} : pc'[v] = pc[v] /\ job'[v] = job[v]
      /\ pc'[w] = "idle"
  BY <1>1 DEF TypeOK
<1>3. Calendar
  BY DEF CalendarInv
<1>4. /\ \A d \in plan[w].cover : d \in Int /\ d < job[w].day /\ \A e \in played[p] \cup frozen[p] : e < d
      /\ job[w].day <= today /\ job[w].day \in Int /\ today \in Int
  <2>1. \A d \in plan[w].cover : d \in Int /\ d < job[w].day /\ \A e \in played[p] \cup frozen[p] : e < d
    BY <1>1, <1>3, CoverLast
  <2>2. job[w].day <= today
    BY <1>1, <1>3 DEF Calendar
  <2> QED
    BY <2>1, <2>2, MaxDayType DEF TypeOK
<1>5. Calendar'
  <2>1. \A q \in Players : (\A d \in played[q] : d <= today) /\ (\A d \in frozen'[q] : d < today)
    BY <1>2, <1>3, <1>4 DEF Calendar
  <2>2. ASSUME NEW v \in Workers, pc'[v] \in {"lock", "commit"}
        PROVE  /\ job'[v].day <= today
               /\ \A d \in played[job'[v].player] : d <= job'[v].day
               /\ \A d \in frozen'[job'[v].player] : d < job'[v].day
    <3>1. v # w /\ pc[v] \in {"lock", "commit"} /\ job'[v] = job[v]
      BY <1>2, <2>2
    <3>2. job[v].player \in Players \ {p}
      BY <1>1, <3>1, OneSettlement DEF HasPlayer
    <3> QED
      BY <1>2, <1>3, <3>1, <3>2 DEF Calendar
  <2> QED
    BY <1>1, <2>1, <2>2 DEF Calendar
<1>6. AwardsEarned'
  <2> SUFFICES ASSUME p \notin adopted \cup late, "adopt" \notin marks[p], NEW d \in awards'[p]
               PROVE  d \in played[p] /\ Place(d, played[p], frozen'[p]) % EveryDays = 0
    <3>1. \A q \in Players \ {p} : marks'[q] = marks[q] /\ played'[q] = played[q] /\ awards'[q] = awards[q] /\ frozen'[q] = frozen[q]
      BY <1>1, <1>2
    <3>2. adopted' = adopted /\ late' = late /\ played' = played /\ marks' = marks /\ AwardsEarned
      BY <1>1 DEF CalendarInv
    <3> QED
      BY <3>1, <3>2, AwardsKept
  <2>1. d \in played[p] /\ Place(d, played[p], frozen[p]) % EveryDays = 0
    BY <1>1, <1>2, <1>3, AwardsPlaced DEF CalendarInv, AwardsEarned
  <2> DEFINE play == played[p]
             froz == frozen[p]
             more == frozen'[p]
  <2>2. /\ play \in SUBSET (1 .. MaxDay) /\ froz \in SUBSET (1 .. MaxDay) /\ more \in SUBSET (1 .. MaxDay)
        /\ d \in Int
    <3>1. plan[w].cover \in SUBSET (1 .. MaxDay)
      BY GrantedType
    <3> QED
      BY <1>2, <2>1, <3>1, MaxDayType DEF TypeOK
  <2>3. \A e \in Int : e <= d => (e \in froz <=> e \in more)
    BY <1>2, <1>4, <2>1, <2>2
  <2>4. d \in play /\ Place(d, play, froz) % EveryDays = 0
    BY <2>1
  <2> HIDE DEF play, froz, more
  <2>5. Place(d, play, froz) = Place(d, play, more)
    BY <2>2, <2>3, PlaceStable
  <2>6. d \in play /\ Place(d, play, more) % EveryDays = 0
    BY <2>4, <2>5
  <2> QED
    BY <2>6 DEF play, more
<1> QED
  BY <1>5, <1>6 DEF CalendarInv

(* A finish recorded after no later day's comes after every milestone.       *)
LEMMA FinishCalendar ==
    ASSUME TypeOK, HasPlayer, FreezeInv, CalendarInv, NEW p \in Players, Finish(p)
    PROVE  CalendarInv'
<1>1. PICK day \in 1 .. today \ played[p] :
        /\ played' = [played EXCEPT ![p] = @ \cup {day}]
        /\ late' = IF \E e \in played[p] : e > day THEN late \cup {p} ELSE late
  BY DEF Finish
<1>2. playerLock[p] = None /\ UNCHANGED <<awards, frozen, marks, adopted, today, pc, job>>
  BY DEF Finish
<1>3. played'[p] = played[p] \cup {day} /\ \A q \in Players \ {p} : played'[q] = played[q]
  BY <1>1 DEF TypeOK
<1>4. day \in 1 .. MaxDay /\ day \in Int /\ day <= today /\ day \notin played[p]
  BY MaxDayType DEF TypeOK
<1>5. Calendar'
  <2>1. \A w \in Workers : pc[w] \in {"lock", "commit"} => job[w].player \in Players \ {p}
    BY <1>2, RowFacts DEF HasPlayer, FreezeInv, Orderly, Locking
  <2> QED
    BY <1>2, <1>3, <1>4, <2>1 DEF CalendarInv, Calendar
<1>6. late \subseteq late'
  BY <1>1
<1>7. AwardsEarned'
  <2> SUFFICES ASSUME p \notin adopted \cup late', "adopt" \notin marks[p], NEW d \in awards[p]
               PROVE  d \in played'[p] /\ Place(d, played'[p], frozen[p]) % EveryDays = 0
    <3>1. \A q \in Players \ {p} : marks'[q] = marks[q] /\ played'[q] = played[q] /\ awards'[q] = awards[q] /\ frozen'[q] = frozen[q]
      BY <1>2, <1>3
    <3>2. adopted' = adopted /\ frozen' = frozen /\ marks' = marks /\ awards' = awards /\ AwardsEarned
      BY <1>2 DEF CalendarInv
    <3> QED
      BY <1>6, <3>1, <3>2, AwardsKept
  <2> DEFINE play == played[p]
             more == played'[p]
             froz == frozen[p]
  <2>1. d \in play /\ Place(d, play, froz) % EveryDays = 0
    BY <1>6 DEF CalendarInv, AwardsEarned
  <2>2. /\ play \in SUBSET (1 .. MaxDay) /\ froz \in SUBSET (1 .. MaxDay) /\ more \in SUBSET (1 .. MaxDay)
        /\ d \in Int
    BY <1>3, <1>4, <2>1, MaxDayType DEF TypeOK
  <2>3. more = play \cup {day} /\ ~(d > day) /\ d # day
    BY <1>1, <1>3, <1>4, <2>1
  <2> HIDE DEF play, froz, more
  <2>4. \A e \in Int : e <= d => (e \in play <=> e \in more)
    BY <1>4, <2>2, <2>3
  <2>5. Place(d, play, froz) = Place(d, more, froz)
    BY <2>2, <2>4, PlaceStable
  <2>6. d \in more /\ Place(d, more, froz) % EveryDays = 0
    BY <2>1, <2>3, <2>5
  <2> QED
    BY <2>6 DEF more, froz
<1> QED
  BY <1>5, <1>7 DEF CalendarInv

LEMMA AdoptCalendar ==
    ASSUME TypeOK, HasPlayer, FreezeInv, CalendarInv, NEW g \in Guests, NEW a \in Accounts, Adopt(g, a)
    PROVE  CalendarInv'
<1>0. g \in Players /\ a \in Players /\ g # a
  BY PartiesAssumption DEF PartiesAssumption, Players
<1>1. /\ playerLock[g] = None /\ playerLock[a] = None /\ adopted' = adopted \cup {g}
      /\ frozen' = [frozen EXCEPT ![a] = frozen[a] \cup frozen[g]]
      /\ awards' = [awards EXCEPT ![a] = @ \cup awards[g]]
      /\ marks' = [marks EXCEPT ![a] = @ \cup {"adopt"}]
      /\ UNCHANGED <<late, today, pc, job>>
  BY DEF Adopt, MergedUses
<1>6. PICK stay \in SUBSET played[g], unmoved \in SUBSET played[g] :
        played' = [played EXCEPT ![a] = @ \cup (played[g] \ unmoved), ![g] = stay]
  BY DEF Adopt
<1>7. /\ played'[a] \subseteq played[a] \cup played[g] /\ played'[g] \subseteq played[g]
      /\ \A q \in Players \ {a, g} : played'[q] = played[q]
  BY <1>0, <1>6 DEF TypeOK
<1>2. /\ played'[a] \subseteq played[a] \cup played[g] /\ played'[g] \subseteq played[g]
      /\ frozen'[a] = frozen[a] \cup frozen[g] /\ frozen'[g] = frozen[g]
      /\ "adopt" \in marks'[a] /\ g \in adopted'
      /\ \A q \in Players \ {a, g} : /\ played'[q] = played[q] /\ frozen'[q] = frozen[q]
                                     /\ awards'[q] = awards[q] /\ marks'[q] = marks[q]
  BY <1>0, <1>1, <1>7 DEF TypeOK
<1>3. \A w \in Workers : pc[w] \in {"lock", "commit"} => job[w].player \in Players \ {a, g}
  BY <1>1, RowFacts DEF HasPlayer, FreezeInv, Orderly, Locking
<1>4. Calendar'
  <2>1. \A q \in Players : (\A d \in played'[q] : d <= today) /\ (\A d \in frozen'[q] : d < today)
    BY <1>0, <1>2 DEF CalendarInv, Calendar
  <2>2. \A w \in Workers : pc[w] \in {"lock", "commit"} =>
          /\ job[w].day <= today
          /\ \A d \in played'[job[w].player] : d <= job[w].day
          /\ \A d \in frozen'[job[w].player] : d < job[w].day
    BY <1>2, <1>3 DEF CalendarInv, Calendar
  <2> QED
    BY <1>1, <2>1, <2>2 DEF Calendar
<1>5. AwardsEarned'
  <2>1. \A q \in Players \ (adopted' \cup late') : "adopt" \notin marks'[q] =>
          /\ "adopt" \notin marks[q]
          /\ awards'[q] = awards[q] /\ played'[q] = played[q] /\ frozen'[q] = frozen[q]
    BY <1>2
  <2> QED
    BY <1>1, <2>1, AwardsKept DEF CalendarInv
<1> QED
  BY <1>4, <1>5 DEF CalendarInv

LEMMA CalendarStep == TypeOK /\ HasPlayer /\ FreezeInv /\ CalendarInv /\ [Next]_vars => CalendarInv'
<1> SUFFICES ASSUME TypeOK, HasPlayer, FreezeInv, CalendarInv, [Next]_vars PROVE CalendarInv'
  OBVIOUS
<1>0. today \in Nat
  BY MaxDayType DEF TypeOK
<1>1. ASSUME NEW w \in Workers, NEW p \in Players, Admit(w, p) PROVE CalendarInv'
  <2>1. UNCHANGED <<played, frozen, awards, adopted, late, marks, today>>
    BY <1>1 DEF Admit, ledger
  <2>2. \A v \in Workers : pc'[v] \in {"lock", "commit"} =>
             \/ pc[v] \in {"lock", "commit"} /\ job'[v] = job[v]
             \/ job'[v].player \in Players /\ job'[v].day = today
    BY <1>1 DEF Admit, Leave, TypeOK
  <2> QED
    BY <1>0, <2>1, <2>2, DaysUnchanged
<1>5. ASSUME NEW w \in Workers, NEW p \in Players,
             (\E on \in BOOLEAN : Toggle(w, p, on)) \/ (\E n \in Gifts : Add(w, p, n))
      PROVE  CalendarInv'
  <2>0. \A x : job' = [job EXCEPT ![w] = x] => \A v \in Workers \ {w} : job'[v] = job[v]
    BY DEF TypeOK
  <2>1. UNCHANGED <<played, frozen, awards, adopted, late, marks, today>>
    BY <1>5, Zenon DEF Toggle, Add, ledger
  <2>2. pc' = [pc EXCEPT ![w] = "write"] /\ \A v \in Workers \ {w} : job'[v] = job[v]
    BY <1>5, <2>0, Zenon DEF Toggle, Add
  <2>3. \A v \in Workers : pc'[v] \in {"lock", "commit"} => pc[v] \in {"lock", "commit"} /\ job'[v] = job[v]
    BY <2>2 DEF TypeOK
  <2> QED
    BY <1>0, <2>1, <2>3, DaysUnchanged
<1>2. ASSUME NEW w \in Workers, Upsert(w) \/ LockRow(w) \/ Abort(w) PROVE CalendarInv'
  <2>1. UNCHANGED <<played, frozen, awards, adopted, late, today>> /\ \A p \in Players : marks[p] \subseteq marks'[p]
    <3>1. CASE Upsert(w)
      BY <3>1 DEF Upsert, TypeOK
    <3>2. CASE LockRow(w) \/ Abort(w)
      BY <3>2 DEF LockRow, Abort, ledger
    <3> QED
      BY <1>2, <3>1, <3>2
  <2>2. \A v \in Workers : pc'[v] \in {"lock", "commit"} => pc[v] \in {"lock", "commit"} /\ job'[v] = job[v]
    BY <1>2 DEF Upsert, LockRow, Abort, Leave, TypeOK
  <2> QED
    BY <1>0, <2>1, <2>2, DaysUnchanged
<1>3. CASE Midnight \/ UNCHANGED vars \/ \E p \in Players : FinishArchive(p)
  <2>1. UNCHANGED <<played, frozen, awards, adopted, late, marks, pc, job>> /\ today' \in Nat /\ today <= today'
    BY <1>0, <1>3 DEF Midnight, FinishArchive, vars, ledger
  <2> QED
    BY <2>1, DaysUnchanged
<1>4. ASSUME NEW w \in Workers, Commit(w) PROVE CalendarInv'
  BY <1>4, CommitCalendar DEF HasPlayer, Commit
<1> QED
  BY <1>1, <1>2, <1>3, <1>4, <1>5, FinishCalendar, AdoptCalendar DEF Next

LEMMA CalendarCorrect == Spec => [](TypeOK /\ HasPlayer /\ FreezeInv /\ CalendarInv)
<1>1. Init => TypeOK /\ HasPlayer /\ FreezeInv /\ CalendarInv
  BY TypeInit, FreezeInit, CalendarInit
<1>2. (TypeOK /\ HasPlayer /\ FreezeInv /\ CalendarInv) /\ [Next]_vars => (TypeOK /\ HasPlayer /\ FreezeInv /\ CalendarInv)'
  BY TypeStep, FreezeStep, CalendarStep
<1> QED
  BY <1>1, <1>2, PTL DEF Spec

(* streak.rs, settle_freezes: a player with only finishes of their own,       *)
(* recorded in the order of their days, has earned at most one milestone for  *)
(* every EveryDays played days: a run then grows at its end only, so no day   *)
(* is counted towards two milestones.                                        *)
THEOREM EarnedByPlayCorrect == Spec => []EarnedByPlay
<1>1. TypeOK /\ CalendarInv => EarnedByPlay
  <2> SUFFICES ASSUME TypeOK, CalendarInv, NEW p \in Players \ (adopted \cup late), "adopt" \notin marks[p]
               PROVE  EveryDays * Cardinality(awards[p]) <= Cardinality(played[p])
    BY DEF EarnedByPlay
  <2> DEFINE play == played[p]
             froz == frozen[p]
             hits == {d \in play : Place(d, play, froz) % EveryDays = 0}
  <2>1. play \in SUBSET (1 .. MaxDay) /\ froz \in SUBSET (1 .. MaxDay)
    BY DEF TypeOK
  <2>2. awards[p] \subseteq hits
    BY DEF CalendarInv, AwardsEarned
  <2> HIDE DEF play, froz
  <2>3. EveryDays * Cardinality(hits) <= Cardinality(play)
    BY <2>1, MilestonesPaid
  <2>4. hits \in SUBSET (1 .. MaxDay)
    BY <2>1
  <2> HIDE DEF hits
  <2>5. /\ Cardinality(awards[p]) \in Nat /\ Cardinality(awards[p]) <= Cardinality(hits)
        /\ Cardinality(hits) \in Nat /\ Cardinality(play) \in Nat
    BY <2>1, <2>2, <2>4, MoreDays, DaysOf
  <2>6. EveryDays \in Nat \ {0}
    BY RulesAssumption DEF RulesAssumption
  <2>7. \A i, j \in Nat : i <= j => EveryDays * i <= EveryDays * j
    BY <2>6
  <2>8. EveryDays * Cardinality(awards[p]) <= EveryDays * Cardinality(hits)
    BY <2>5, <2>7
  <2>9. EveryDays * Cardinality(awards[p]) \in Int /\ EveryDays * Cardinality(hits) \in Int
    BY <2>5, <2>6
  <2>10. EveryDays * Cardinality(awards[p]) <= Cardinality(play)
    BY <2>3, <2>5, <2>8, <2>9
  <2> QED
    BY <2>10 DEF play
<1> QED
  BY <1>1, CalendarCorrect, PTL

-----------------------------------------------------------------------------
(* A settlement and an adoption, as steps.                                   *)

(* Covering up to yesterday prolongs the run and adds no played day to it.   *)
LEMMA BridgedRun ==
    ASSUME NEW S \in SUBSET (1 .. MaxDay), NEW play \in SUBSET S, NEW last \in Int, NEW end \in Int,
           last <= end, \A e \in S : e <= last
    PROVE  play \cap RunEndingOn(end, S \cup (last + 1 .. end)) = play \cap RunEndingOn(last, S)
<1> DEFINE T == S \cup (last + 1 .. end)
<1>1. \A e \in S : e \in Int /\ e <= last
  BY MaxDayType
<1>2. \A e, x, X : e \in RunEndingOn(x, X) <=> e \in X /\ e <= x /\ e .. x \subseteq X
  BY DEF RunEndingOn
<1>3. play \subseteq S /\ play \subseteq T
  OBVIOUS
<1>4. ASSUME NEW e \in S, e \in Int, e <= last PROVE e .. end \subseteq T <=> e .. last \subseteq S
  <2>1. e .. end = (e .. last) \cup (last + 1 .. end)
    BY <1>4
  <2>2. \A x \in e .. last : x \notin last + 1 .. end
    OBVIOUS
  <2> QED
    BY <2>1, <2>2
<1> HIDE DEF T
<1>5. \A e \in play : e \in RunEndingOn(end, T) <=> e \in RunEndingOn(last, S)
  <2> SUFFICES ASSUME NEW e \in play PROVE e \in RunEndingOn(end, T) <=> e \in RunEndingOn(last, S)
    OBVIOUS
  <2>1. e \in S /\ e \in T /\ e \in Int /\ e <= last /\ e <= end
    BY <1>1, <1>3
  <2> QED
    BY <1>2, <1>4, <2>1
<1> QED
  BY <1>5 DEF T

LEMMA SetMax ==
    ASSUME NEW S, NEW x \in S, x \in Int, \A y \in S : y \in Int /\ y <= x
    PROVE  Max(S) = x
<1>1. \A y \in S : x >= y
  OBVIOUS
<1>2. Max(S) \in S /\ \A y \in S : Max(S) >= y
  BY <1>1 DEF Max
<1>3. Max(S) \in Int /\ Max(S) <= x /\ Max(S) >= x
  BY <1>2
<1> QED
  BY <1>3

(* Only a settlement's commit and an adoption cover days.                    *)
LEMMA WhoCovers ==
    ASSUME TypeOK, HasPlayer, [Next]_vars, adopted' = adopted, frozen' # frozen
    PROVE  \E w \in Workers : Commit(w)
<1>1. ASSUME NEW w \in Workers, NEW p \in Players, Admit(w, p) PROVE FALSE
  BY <1>1 DEF Admit, ledger
<1>2. ASSUME NEW w \in Workers, NEW p \in Players, NEW on \in BOOLEAN, Toggle(w, p, on) PROVE FALSE
  BY <1>2, Zenon DEF Toggle, ledger
<1>3. ASSUME NEW w \in Workers, NEW p \in Players, NEW n \in Gifts, Add(w, p, n) PROVE FALSE
  BY <1>3, Zenon DEF Add, ledger
<1>4. ASSUME NEW w \in Workers, Upsert(w) \/ LockRow(w) \/ Abort(w) PROVE FALSE
  BY <1>4 DEF Upsert, LockRow, Abort, ledger
<1>5. ASSUME NEW p \in Players, Finish(p) \/ FinishArchive(p) PROVE FALSE
  BY <1>5 DEF Finish, FinishArchive
<1>6. ASSUME NEW g \in Guests, NEW a \in Accounts, Adopt(g, a) PROVE FALSE
  BY <1>6 DEF Adopt
<1>7. ~Midnight /\ ~UNCHANGED vars
  BY DEF Midnight, vars, ledger
<1> QED
  BY <1>1, <1>2, <1>3, <1>4, <1>5, <1>6, <1>7 DEF Next

LEMMA CoverStep ==
    ASSUME TypeOK, HasPlayer, FreezeInv, CalendarInv, NEW w \in Workers, Commit(w), NEW p \in Players,
           NEW new, new = frozen'[p] \ frozen[p], new # {}
    PROVE  /\ Load(p).auto /\ new \cap played[p] = {} /\ Cardinality(new) <= MaxBridge
           /\ Streak(Max(new) + 1, played[p], frozen'[p]) >= MinRun
<1>1. pc[w] = "commit" /\ job[w].player \in Players /\ Calendar
      /\ frozen' = [frozen EXCEPT ![job[w].player] = @ \cup plan[w].cover]
  BY DEF Commit, HasPlayer, CalendarInv
<1>2. p = job[w].player /\ frozen'[p] = frozen[p] \cup plan[w].cover
  BY <1>1 DEF TypeOK
<1> DEFINE day == job[w].day
           S == played[p] \cup frozen[p]
           last == Max(S)
           run == played[p] \cap RunEndingOn(last, S)
           purse == Load(p).available + plan[w].granted
<1>3. /\ day \in 0 .. MaxDay
      /\ Shape(plan[w], day, S, last, run, awards[p], Load(p).available, Load(p).auto)
  BY <1>1, <1>2, PlanShape
<1>4. \A d \in plan[w].cover : \A e \in S : e \in Int /\ d \in Int /\ e < d
  BY <1>1, <1>2, CoverLast, MaxDayType DEF TypeOK
<1>5. new = plan[w].cover
  BY <1>2, <1>4
<1>6. played[p] \in SUBSET (1 .. MaxDay) /\ frozen[p] \in SUBSET (1 .. MaxDay)
  BY DEF TypeOK
<1>7. S # {} /\ day - 1 - last <= MaxBridge /\ Saves(day, last, run, Load(p).auto, purse)
      /\ new = last + 1 .. day - 1 /\ last \in 1 .. MaxDay /\ \A e \in S : e <= last
  <2>1. Idle(Load(p).available).cover = {}
    BY DEF Idle
  <2> HIDE DEF last, run, day, S, purse
  <2>2. S # {} /\ ~(day - 1 - last > MaxBridge)
    BY <1>3, <1>5, <2>1 DEF Shape
  <2>3. last \in 1 .. MaxDay /\ day - 1 - last <= MaxBridge
    BY <1>3, <2>2, RulesAssumption DEF RulesAssumption, Shape
  <2>4. Saves(day, last, run, Load(p).auto, purse)
    BY <1>3, <1>5, <2>2, <2>3 DEF Shape, purse
  <2> QED
    BY <1>3, <1>5, <2>2, <2>3, <2>4 DEF Shape, purse
<1>8. new \cap played[p] = {}
  BY <1>4, <1>5
<1> HIDE DEF last, day, run
<1>9. last \in Nat /\ day \in Nat /\ last < day - 1 /\ Load(p).auto /\ Cardinality(run) >= MinRun
  BY <1>3, <1>7, MaxDayType DEF Saves
<1>10. Cardinality(new) <= MaxBridge
  <2> DEFINE k == day - 1 - last
  <2>1. k \in Nat /\ last + k = day - 1
    BY <1>9
  <2> HIDE DEF k
  <2>2. Cardinality(last + 1 .. last + k) = k
    BY <1>9, <2>1, DaysCovered
  <2> QED
    BY <1>7, <2>1, <2>2 DEF k
<1>11. Max(new) = day - 1
  <2>1. day - 1 \in new /\ day - 1 \in Int /\ \A y \in new : y \in Int /\ y <= day - 1
    BY <1>7, <1>9
  <2> QED
    BY <2>1, SetMax
<1>12. Streak(day, played[p], frozen'[p]) = Cardinality(run)
  <2>1. day \notin played[p]
    BY <1>7, <1>9
  <2>2. Streak(day, played[p], frozen'[p]) = Cardinality(played[p] \cap RunEndingOn(day - 1, played[p] \cup frozen'[p]))
    BY <2>1 DEF Streak
  <2>3. played[p] \cup frozen'[p] = S \cup (last + 1 .. day - 1)
    BY <1>2, <1>5, <1>7
  <2>4. played[p] \cap RunEndingOn(day - 1, S \cup (last + 1 .. day - 1)) = played[p] \cap RunEndingOn(last, S)
    <3> DEFINE play == played[p]
               end == day - 1
    <3>1. /\ S \in SUBSET (1 .. MaxDay) /\ play \in SUBSET S
          /\ last \in Int /\ end \in Int /\ last <= end /\ \A e \in S : e <= last
      BY <1>6, <1>7, <1>9
    <3> HIDE DEF play, end, S
    <3>2. play \cap RunEndingOn(end, S \cup (last + 1 .. end)) = play \cap RunEndingOn(last, S)
      BY <3>1, BridgedRun
    <3> QED
      BY <3>2 DEF play, end
  <2> QED
    BY <2>2, <2>3, <2>4 DEF run
<1>13. Max(new) + 1 = day
  BY <1>9, <1>11
<1> QED
  BY <1>8, <1>9, <1>10, <1>12, <1>13

(* streak.rs, settle_freezes: days are covered only while the setting is on,  *)
(* only missed ones, and only when that saves a run worth protecting.        *)
THEOREM CoverSavesRunCorrect == Spec => CoverSavesRun
<1> DEFINE Covered ==
      \A p \in Players :
        LET new == frozen'[p] \ frozen[p] IN
        adopted' = adopted /\ new # {} =>
          /\ Load(p).auto
          /\ new \cap played[p] = {}
          /\ Cardinality(new) <= MaxBridge
          /\ Streak(Max(new) + 1, played[p], frozen'[p]) >= MinRun
<1>1. TypeOK /\ HasPlayer /\ FreezeInv /\ CalendarInv /\ [Next]_vars => [Covered]_vars
  <2> SUFFICES ASSUME TypeOK, HasPlayer, FreezeInv, CalendarInv, [Next]_vars,
                      NEW p \in Players, adopted' = adopted, frozen'[p] \ frozen[p] # {}
               PROVE  /\ Load(p).auto
                      /\ (frozen'[p] \ frozen[p]) \cap played[p] = {}
                      /\ Cardinality(frozen'[p] \ frozen[p]) <= MaxBridge
                      /\ Streak(Max(frozen'[p] \ frozen[p]) + 1, played[p], frozen'[p]) >= MinRun
    BY Zenon
  <2>1. PICK w \in Workers : Commit(w)
    BY WhoCovers
  <2> QED
    BY <2>1, CoverStep, Zenon
<1> QED
  BY <1>1, CalendarCorrect, PTL DEF CoverSavesRun, Spec

(* Who changes the counters of a player whose settlement is to be committed. *)
LEMMA WhoSettles ==
    ASSUME TypeOK, HasPlayer, FreezeInv, [Next]_vars, NEW w \in Workers, pc[w] = "commit",
           NEW p \in Players, p = job[w].player, counters'[p] # counters[p]
    PROVE  Commit(w)
<1>0. rowLock[p] = w /\ playerLock[p] = w /\ w # None
  BY RowFacts DEF FreezeInv, Orderly, Locking
<1>1. ASSUME NEW v \in Workers, NEW q \in Players, Admit(v, q) PROVE FALSE
  BY <1>1 DEF Admit, ledger
<1>2. ASSUME NEW v \in Workers, NEW q \in Players, NEW on \in BOOLEAN, Toggle(v, q, on) PROVE FALSE
  BY <1>2, Zenon DEF Toggle, ledger
<1>3. ASSUME NEW v \in Workers, NEW q \in Players, NEW n \in Gifts, Add(v, q, n) PROVE FALSE
  BY <1>3, Zenon DEF Add, ledger
<1>4. ASSUME NEW v \in Workers, LockRow(v) \/ Abort(v) PROVE FALSE
  BY <1>4 DEF LockRow, Abort, ledger
<1>5. ASSUME NEW v \in Workers, Upsert(v) PROVE FALSE
  BY <1>0, <1>5 DEF Upsert, TypeOK
<1>6. ASSUME NEW v \in Workers, v # w, Commit(v) PROVE FALSE
  <2>1. job[v].player # p /\ counters' = [counters EXCEPT ![job[v].player] = counters'[job[v].player]]
    BY <1>6, OneSettlement DEF Commit, HasPlayer, TypeOK
  <2> QED
    BY <2>1 DEF TypeOK
<1>7. ASSUME NEW q \in Players, Finish(q) \/ FinishArchive(q) PROVE FALSE
  BY <1>7 DEF Finish, FinishArchive
<1>8. ASSUME NEW g \in Guests, NEW a \in Accounts, Adopt(g, a) PROVE FALSE
  BY <1>0, <1>8 DEF Adopt, TypeOK
<1>9. ~Midnight /\ ~UNCHANGED vars
  BY DEF Midnight, vars, ledger
<1> QED
  BY <1>1, <1>2, <1>3, <1>4, <1>5, <1>6, <1>7, <1>8, <1>9 DEF Next

(* A decision D, and D2, the decision on what D leaves: S2 are the days then. *)
Again(day, auto, D, S, last, run, awarded, held, D2, S2, last2, run2, awarded2, held2) ==
    /\ day \in Nat /\ auto \in BOOLEAN /\ held \in Nat /\ held2 \in Nat
    /\ D.granted \in Nat /\ (D2.granted = 0 \/ D2.awards # {})
    /\ Shape(D, day, S, last, run, awarded, held, auto)
    /\ Shape(D2, day, S2, last2, run2, awarded2, held2, auto)
    /\ S # {} => last \in Nat /\ last2 \in Nat /\ last <= last2 /\ run2 = run
    /\ S2 = {} <=> S = {}
    /\ awarded2 = awarded \cup D.awards
    /\ D.cover = {} => last2 = last /\ held2 = held + D.granted
    /\ D.cover # {} => last2 = day - 1

(* The same settlement on what it left behind decides nothing.               *)
LEMMA NothingLeft ==
    ASSUME NEW day, NEW auto, NEW D, NEW S, NEW last, NEW run, NEW awarded, NEW held,
           NEW D2, NEW S2, NEW last2, NEW run2, NEW awarded2, NEW held2,
           Again(day, auto, D, S, last, run, awarded, held, D2, S2, last2, run2, awarded2, held2)
    PROVE  Nothing(D2)
<1> USE DEF Again
<1>0. MaxBridge \in Nat
  BY RulesAssumption DEF RulesAssumption
<1>1. \A h : Nothing(Idle(h)) /\ Idle(h).cover = {} /\ Idle(h).awards = {}
  BY DEF Nothing, Idle
<1>2. CASE S = {}
  BY <1>1, <1>2 DEF Shape
<1>3. CASE S # {} /\ day - 1 - last > MaxBridge
  <2>1. D = Idle(held)
    BY <1>3 DEF Shape
  <2>2. last2 = last
    BY <1>1, <2>1
  <2>3. D2 = Idle(held2)
    BY <1>3, <2>2 DEF Shape
  <2> QED
    BY <1>1, <2>3
<1>4. CASE S # {} /\ day - 1 - last <= MaxBridge
  <2>1. /\ D.awards = Milestones(run) \ awarded
        /\ Saves(day, last, run, auto, held + D.granted) => D.cover = last + 1 .. day - 1
        /\ ~Saves(day, last, run, auto, held + D.granted) => D.cover = {}
    BY <1>4 DEF Shape
  <2>2. day - 1 - last2 <= MaxBridge
    BY <1>0, <1>4
  <2>3. /\ D2.awards = Milestones(run) \ awarded2
        /\ ~Saves(day, last2, run, auto, held2 + D2.granted) => D2.cover = {}
    BY <1>4, <2>2 DEF Shape
  <2>4. D2.awards = {}
    BY <2>1, <2>3
  <2>5. ~Saves(day, last2, run, auto, held2 + D2.granted)
    <3>1. D2.granted = 0
      BY <2>4
    <3>2. CASE D.cover = {}
      <4>1. ~Saves(day, last, run, auto, held + D.granted)
        <5>1. ASSUME last < day - 1 PROVE day - 1 \in last + 1 .. day - 1
          BY <1>4, <5>1
        <5> QED
          BY <2>1, <3>2, <5>1 DEF Saves
      <4>2. held2 + D2.granted = held + D.granted
        BY <3>1, <3>2
      <4> QED
        BY <3>2, <4>1, <4>2
    <3>3. CASE D.cover # {}
      BY <3>3 DEF Saves
    <3> QED
      BY <3>2, <3>3
  <2> QED
    BY <2>3, <2>4, <2>5 DEF Nothing
<1> QED
  BY <1>0, <1>2, <1>3, <1>4

(* After a commit the same settlement finds nothing to do.                   *)
LEMMA SettledStep ==
    ASSUME TypeOK, HasPlayer, FreezeInv, CalendarInv, NEW w \in Workers, Commit(w),
           NEW p \in Players, p = job[w].player
    PROVE  Nothing(SettleFreezes(job[w].day, played[p], frozen'[p], awards'[p],
                                 Held(counters'[p]), counters'[p].auto))
<1> DEFINE day == job[w].day
           play == played[p]
           S == play \cup frozen[p]
           last == Max(S)
           run == play \cap RunEndingOn(last, S)
           froz2 == frozen'[p]
           S2 == play \cup froz2
           last2 == Max(S2)
           run2 == play \cap RunEndingOn(last2, S2)
           held == Load(p).available
           auto == Load(p).auto
           held2 == Held(counters'[p])
           awarded2 == awards'[p]
           D == plan[w]
           D2 == SettleFreezes(day, play, froz2, awarded2, held2, auto)
           gain == Cardinality(Granted(w, p))
           loss == Cardinality(plan[w].cover)
<1>1. /\ pc[w] = "commit" /\ Calendar
      /\ awards' = [awards EXCEPT ![p] = @ \cup plan[w].awards]
      /\ frozen' = [frozen EXCEPT ![p] = @ \cup plan[w].cover]
      /\ counters' = [counters EXCEPT ![p] = Counted(Load(p), gain, loss)]
  BY DEF Commit, Recorded, CalendarInv
<1>2. awarded2 = awards[p] \cup D.awards /\ froz2 = frozen[p] \cup D.cover
      /\ counters'[p] = Counted(Load(p), gain, loss)
  BY <1>1 DEF TypeOK
<1>3. /\ play \in SUBSET (1 .. MaxDay) /\ frozen[p] \in SUBSET (1 .. MaxDay) /\ S \in SUBSET (1 .. MaxDay)
      /\ froz2 \in SUBSET (1 .. MaxDay) /\ S2 \in SUBSET (1 .. MaxDay)
      /\ \A e \in S2 : e \in Nat
  BY <1>2, GrantedType, MaxDayType DEF TypeOK
<1>4. Load(p) \in Row /\ auto \in BOOLEAN
  BY LoadType DEF Row
<1>5. /\ day \in 0 .. MaxDay /\ day \in Nat /\ held \in Nat
      /\ Shape(D, day, S, last, run, awards[p], held, auto)
      /\ S = Present(day, play, frozen[p])
  <2>1. pc[w] = "commit" /\ Calendar
    BY <1>1
  <2>2. /\ day \in 0 .. MaxDay
        /\ Shape(plan[w], day, S, last, run, awards[p], Load(p).available, Load(p).auto)
    BY <2>1, PlanShape
  <2>3. held \in Nat
    BY <1>4 DEF FreezeInv, HeldInBounds, Row
  <2>4. day \in Nat
    BY <2>2, MaxDayType
  <2>5. S = Present(day, play, frozen[p])
    <3>1. \A e \in S : e <= job[w].day
      BY <2>1, <2>2, MaxDayType DEF Calendar, TypeOK
    <3> QED
      BY <3>1 DEF Present
  <2> QED
    BY <2>2, <2>3, <2>4, <2>5
<1>6. D.granted \in Nat /\ gain = D.granted /\ loss \in Nat /\ loss <= held + gain
  BY <1>1, CommitBooks
<1>7. counters'[p].auto = auto /\ held2 = held + gain - loss /\ held2 \in Nat
  <2>1. counters'[p].available = held + gain - loss
    <3>1. counters'[p] = Counted(Load(p), gain, loss) /\ gain \in Nat /\ loss \in Nat
      BY <1>2, <1>6
    <3> HIDE DEF gain, loss
    <3>2. Counted(Load(p), gain, loss).available = Load(p).available + gain - loss
      BY <1>4, <3>1, CountedType
    <3> QED
      BY <3>1, <3>2
  <2>2. counters'[p].auto = auto
    BY <1>2, <1>4 DEF Counted, Row
  <2>3. held + gain - loss \in Nat
    BY <1>5, <1>6
  <2> HIDE DEF held, gain, loss, auto
  <2>4. held2 = held + gain - loss
    BY <2>1, <2>3 DEF Held
  <2> QED
    BY <2>2, <2>3, <2>4
<1>8. \A d \in D.cover : d < day /\ d \in Int
  BY <1>1, CoverLast
<1>9. S2 = Present(day, play, froz2)
  <2>1. \A e \in S2 : e <= day
    BY <1>2, <1>3, <1>5, <1>8 DEF Present
  <2> QED
    BY <2>1 DEF Present
<1>10. Shape(D2, day, S2, last2, run2, awarded2, held2, auto)
  <2> HIDE DEF play, froz2, awarded2, held2, auto, day, S2
  <2>1. \A s_ : s_ = Present(day, play, froz2) =>
          Shape(SettleFreezes(day, play, froz2, awarded2, held2, auto), day, s_, Max(s_),
                play \cap RunEndingOn(Max(s_), s_), awarded2, held2, auto)
    <3>1. play \in SUBSET (1 .. MaxDay) /\ froz2 \in SUBSET (1 .. MaxDay) /\ auto \in BOOLEAN
          /\ day \in 0 .. MaxDay /\ held2 \in Nat
      BY <1>3, <1>5, <1>4, <1>7
    <3> QED
      BY <3>1, SettleShape, Zenon
  <2>2. Shape(SettleFreezes(day, play, froz2, awarded2, held2, auto), day, S2, Max(S2),
              play \cap RunEndingOn(Max(S2), S2), awarded2, held2, auto)
    BY <1>9, <2>1
  <2> QED
    BY <2>2
<1>11. D.cover = {} => S2 = S /\ last2 = last /\ run2 = run /\ held2 = held + D.granted
  <2> SUFFICES ASSUME D.cover = {} PROVE S2 = S /\ held2 = held + D.granted
    OBVIOUS
  <2>1. S2 = S
    BY <1>2
  <2>2. loss = 0
    BY FS_EmptySet
  <2> QED
    BY <1>5, <1>6, <1>7, <2>1, <2>2
<1>12. S # {} => last \in Nat /\ \A e \in S : e <= last
  <2> HIDE DEF S, last, run, day, held, auto, D
  <2>1. S # {} => last \in 1 .. MaxDay /\ \A e \in S : e <= last
    BY <1>5 DEF Shape
  <2> QED
    BY <2>1
<1>13. D.cover # {} => S # {} /\ D.cover = last + 1 .. day - 1
  <2>1. \A h : Idle(h).cover = {}
    BY DEF Idle
  <2> HIDE DEF last, run, day, S, held, auto, D
  <2>2. S # {} /\ ~(day - 1 - last > MaxBridge) => day - 1 - last <= MaxBridge
    BY <1>5, <1>12, RulesAssumption DEF RulesAssumption
  <2> QED
    BY <1>5, <2>1, <2>2 DEF Shape
<1>14. D.cover # {} => S2 # {} /\ last2 = day - 1 /\ last <= last2 /\ last2 \in Nat /\ run2 = run
  <2> SUFFICES ASSUME D.cover # {} PROVE S2 # {} /\ last2 = day - 1 /\ last <= last2 /\ last2 \in Nat /\ run2 = run
    OBVIOUS
  <2> HIDE DEF last, day, D
  <2>1. last \in Nat /\ day \in Nat /\ last + 1 <= day - 1 /\ S2 = S \cup (last + 1 .. day - 1)
    BY <1>2, <1>5, <1>12, <1>13
  <2>2. day - 1 \in S2 /\ day - 1 \in Int /\ \A y \in S2 : y \in Int /\ y <= day - 1
    BY <1>3, <1>12, <1>13, <2>1
  <2> HIDE DEF S2
  <2>3. last2 = day - 1
    BY <2>2, SetMax
  <2> HIDE DEF last2
  <2>4. run2 = run
    <3> DEFINE end == day - 1
    <3>1. /\ S \in SUBSET (1 .. MaxDay) /\ play \in SUBSET S
          /\ last \in Int /\ end \in Int /\ last <= end /\ \A e \in S : e <= last
      BY <1>3, <1>12, <1>13, <2>1
    <3> HIDE DEF play, end, S
    <3>2. play \cap RunEndingOn(end, S \cup (last + 1 .. end)) = play \cap RunEndingOn(last, S)
      BY <3>1, BridgedRun
    <3>3. S2 = S \cup (last + 1 .. end) /\ last2 = end
      BY <2>1, <2>3 DEF end
    <3> QED
      BY <3>2, <3>3
  <2> HIDE DEF run, run2, S
  <2>5. S2 # {}
    BY <2>2
  <2>6. last <= last2 /\ last2 \in Nat
    BY <2>1, <2>3
  <2> QED
    BY <2>3, <2>4, <2>5, <2>6
<1>15. D2.granted = 0 \/ D2.awards # {}
  <2> SUFFICES ASSUME D2.awards = {} PROVE D2.granted = 0
    OBVIOUS
  <2>1. \A h : Idle(h).granted = 0
    BY DEF Idle
  <2>2. Room(held2) \in Nat /\ Cardinality({}) = 0
    BY <1>7, RowFacts, FS_EmptySet DEF Room
  <2>3. Min({0, Room(held2)}) = 0
    <3>1. Min({0, Room(held2)}) \in {0, Room(held2)} /\ Min({0, Room(held2)}) <= 0
      BY <2>2, TwoMin
    <3> QED
      BY <2>2, <3>1
  <2>4. S2 # {} => last2 \in Nat
    <3> HIDE DEF S2, last2, D2, run2
    <3> QED
      BY <1>3, <1>10 DEF Shape
  <2> HIDE DEF S2, last2, D2, run2, day, held2
  <2>5. S2 # {} /\ ~(day - 1 - last2 > MaxBridge) => day - 1 - last2 <= MaxBridge
    BY <1>5, <2>4, RulesAssumption DEF RulesAssumption
  <2> QED
    BY <1>10, <2>1, <2>2, <2>3, <2>5 DEF Shape
<1>16. /\ S # {} => last \in Nat /\ last2 \in Nat /\ last <= last2
       /\ S2 = {} <=> S = {}
       /\ run2 = run
       /\ D.cover = {} => last2 = last /\ held2 = held + D.granted
       /\ D.cover # {} => last2 = day - 1
  <2> HIDE DEF S, S2, last, last2, run, run2, D, held, held2, day
  <2> QED
    BY <1>11, <1>12, <1>13, <1>14
<1> HIDE DEF day, play, S, last, run, froz2, S2, last2, run2, held, auto, held2, awarded2, D, D2
<1>17. Nothing(D2)
  <2> DEFINE aw == awards[p]
  <2>1. awarded2 = aw \cup D.awards /\ Shape(D, day, S, last, run, aw, held, auto)
    BY <1>2, <1>5
  <2> HIDE DEF aw
  <2>2. day \in Nat /\ held \in Nat /\ auto \in BOOLEAN /\ held2 \in Nat /\ D.granted \in Nat
    BY <1>5, <1>6, <1>4, <1>7
  <2>3. /\ Shape(D2, day, S2, last2, run2, awarded2, held2, auto)
        /\ D2.granted = 0 \/ D2.awards # {}
    BY <1>10, <1>15
  <2>4. /\ S # {} => last \in Nat /\ last2 \in Nat /\ last <= last2
        /\ S2 = {} <=> S = {}
        /\ S # {} => run2 = run
        /\ D.cover = {} => last2 = last /\ held2 = held + D.granted
        /\ D.cover # {} => last2 = day - 1
    BY <1>16
  <2>5. Again(day, auto, D, S, last, run, aw, held, D2, S2, last2, run2, awarded2, held2)
    BY <2>1, <2>2, <2>3, <2>4 DEF Again
  <2> QED
    BY <2>5, NothingLeft
<1> QED
  BY <1>7, <1>17 DEF D2, day, play, froz2, awarded2, held2


(* streak.rs, settle_freezes and persist: right after a settlement the same  *)
(* settlement earns nothing more and covers nothing twice.                   *)
THEOREM SettledOnceCorrect == Spec => SettledOnce
<1> DEFINE Settled ==
      \A w \in Workers :
        LET p == job[w].player IN
        pc[w] = "commit" /\ counters'[p] # counters[p] =>
          Nothing(SettleFreezes(job[w].day, played[p], frozen'[p], awards'[p],
                                Held(counters'[p]), counters'[p].auto))
<1>1. TypeOK /\ HasPlayer /\ FreezeInv /\ CalendarInv /\ [Next]_vars => [Settled]_vars
  <2> SUFFICES ASSUME TypeOK, HasPlayer, FreezeInv, CalendarInv, [Next]_vars, NEW w \in Workers,
                      pc[w] = "commit", counters'[job[w].player] # counters[job[w].player]
               PROVE  Nothing(SettleFreezes(job[w].day, played[job[w].player], frozen'[job[w].player],
                                            awards'[job[w].player], Held(counters'[job[w].player]),
                                            counters'[job[w].player].auto))
    BY Zenon
  <2>1. job[w].player \in Players
    BY DEF HasPlayer
  <2>2. Commit(w)
    BY <2>1, WhoSettles
  <2> QED
    BY <2>1, <2>2, SettledStep
<1> QED
  BY <1>1, CalendarCorrect, PTL DEF SettledOnce, Spec

-----------------------------------------------------------------------------
(* More played and covered days never make a streak shorter.                 *)
LEMMA StreakGrows ==
    ASSUME NEW play \in SUBSET (1 .. MaxDay), NEW play2 \in SUBSET (1 .. MaxDay),
           NEW froz \in SUBSET (1 .. MaxDay), NEW froz2 \in SUBSET (1 .. MaxDay),
           NEW day \in Nat, play \subseteq play2, froz \subseteq froz2
    PROVE  /\ Streak(day, play, froz) <= Streak(day, play2, froz2)
           /\ Streak(day, play, froz) \in Nat /\ Streak(day, play2, froz2) \in Nat
<1> DEFINE end == IF day \in play THEN day ELSE day - 1
           end2 == IF day \in play2 THEN day ELSE day - 1
           run == play \cap RunEndingOn(end, play \cup froz)
           run2 == play2 \cap RunEndingOn(end2, play2 \cup froz2)
<1>1. Streak(day, play, froz) = Cardinality(run) /\ Streak(day, play2, froz2) = Cardinality(run2)
  BY DEF Streak
<1>2. run \subseteq run2
  <2> SUFFICES ASSUME NEW d \in run PROVE d \in run2
    OBVIOUS
  <2>1. d \in play /\ d \in Nat /\ d <= end /\ \A e \in d .. end : e \in play \cup froz
    BY MaxDayType DEF RunEndingOn
  <2>2. d \in play2 \cup froz2 /\ d <= end2
    BY <2>1
  <2>3. ASSUME NEW e \in d .. end2 PROVE e \in play2 \cup froz2
    <3>1. CASE e \in d .. end
      BY <2>1, <3>1
    <3>2. CASE e \notin d .. end
      BY <2>1, <2>3, <3>2
    <3> QED
      BY <3>1, <3>2
  <2> QED
    BY <2>1, <2>2, <2>3 DEF RunEndingOn
<1>3. run2 \in SUBSET (1 .. MaxDay) /\ run \in SUBSET (1 .. MaxDay)
  OBVIOUS
<1> HIDE DEF run, run2
<1> QED
  BY <1>1, <1>2, <1>3, DaysOf, MoreDays

(* An adoption leaves the account every day it had, and gives it those of the *)
(* guest whose puzzle it has not finished from the archive.                  *)
LEMMA AdoptDays ==
    ASSUME TypeOK, [Next]_vars, NEW g \in Guests, NEW a \in Accounts,
           adopted' = adopted \cup {g}, g \notin adopted,
           <<played'[a], frozen'[a], marks'[a]>> # <<played[a], frozen[a], marks[a]>>
    PROVE  /\ played[a] \subseteq played'[a] /\ played[g] \ archive[a] \subseteq played'[a]
           /\ played'[a] \subseteq played[a] \cup played[g]
           /\ frozen'[a] = frozen[a] \cup frozen[g]
<1>0. g \in Players /\ a \in Players /\ g # a
  BY PartiesAssumption DEF PartiesAssumption, Players
<1>1. PICK h \in Guests, b \in Accounts : Adopt(h, b)
  <2>1. adopted' # adopted
    OBVIOUS
  <2>2. ASSUME NEW v \in Workers, NEW q \in Players, Admit(v, q) PROVE FALSE
    BY <2>1, <2>2 DEF Admit
  <2>3. ASSUME NEW v \in Workers, NEW q \in Players, NEW on \in BOOLEAN, Toggle(v, q, on) PROVE FALSE
    BY <2>1, <2>3, Zenon DEF Toggle
  <2>4. ASSUME NEW v \in Workers, NEW q \in Players, NEW n \in Gifts, Add(v, q, n) PROVE FALSE
    BY <2>1, <2>4, Zenon DEF Add
  <2>5. ASSUME NEW v \in Workers, Upsert(v) \/ LockRow(v) \/ Commit(v) \/ Abort(v) PROVE FALSE
    BY <2>1, <2>5 DEF Upsert, LockRow, Commit, Abort
  <2>6. ASSUME NEW q \in Players, Finish(q) \/ FinishArchive(q) PROVE FALSE
    BY <2>1, <2>6 DEF Finish, FinishArchive
  <2>7. ~Midnight /\ ~UNCHANGED vars
    BY <2>1 DEF Midnight, vars
  <2> QED
    BY <2>2, <2>3, <2>4, <2>5, <2>6, <2>7 DEF Next
<1>2. /\ h \notin adopted /\ adopted' = adopted \cup {h}
      /\ \E stay \in SUBSET played[h], unmoved \in SUBSET (played[h] \cap archive[b]) :
           played' = [played EXCEPT ![b] = @ \cup (played[h] \ unmoved), ![h] = stay]
      /\ frozen' = [frozen EXCEPT ![b] = frozen[b] \cup frozen[h]]
      /\ marks' = [marks EXCEPT ![b] = @ \cup {"adopt"}]
  BY <1>1 DEF Adopt, MergedUses
<1>3. h = g
  BY <1>2
<1>4. b \in Players /\ b # g
  BY PartiesAssumption DEF PartiesAssumption, Players
<1>5. a # b => played'[a] = played[a] /\ frozen'[a] = frozen[a] /\ marks'[a] = marks[a]
  BY <1>0, <1>2, <1>3, <1>4 DEF TypeOK
<1>6. a = b
  BY <1>5
<1> QED
  BY <1>0, <1>2, <1>3, <1>6 DEF TypeOK

(* freezes_db.rs, adopt_guest_freezes, and game_sessions_db.rs,               *)
(* ADOPT_GUEST_REASSIGN_SQL: signing in costs a player no streak but for days *)
(* whose puzzle the account has finished from the archive.                   *)
THEOREM StreakSurvivesAdoptionCorrect == Spec => StreakSurvivesAdoption
<1> DEFINE Survives ==
      \A g \in Guests, a \in Accounts :
        /\ adopted' = adopted \cup {g} /\ g \notin adopted
        /\ <<played'[a], frozen'[a], marks'[a]>> # <<played[a], frozen[a], marks[a]>>
        => Streak(today, played'[a], frozen'[a])
             >= Max({Streak(today, played[g] \ archive[a], frozen[g]),
                     Streak(today, played[a], frozen[a])})
<1>1. TypeOK /\ [Next]_vars => [Survives]_vars
  <2> SUFFICES ASSUME TypeOK, [Next]_vars, NEW g \in Guests, NEW a \in Accounts,
                      adopted' = adopted \cup {g}, g \notin adopted,
                      <<played'[a], frozen'[a], marks'[a]>> # <<played[a], frozen[a], marks[a]>>
               PROVE  Streak(today, played'[a], frozen'[a])
                        >= Max({Streak(today, played[g] \ archive[a], frozen[g]),
                                Streak(today, played[a], frozen[a])})
    BY Zenon
  <2> DEFINE after == Streak(today, played'[a], frozen'[a])
             guest == Streak(today, played[g] \ archive[a], frozen[g])
             own == Streak(today, played[a], frozen[a])
  <2>1. /\ played[a] \subseteq played'[a] /\ played[g] \ archive[a] \subseteq played'[a]
        /\ played'[a] \subseteq played[a] \cup played[g]
        /\ frozen'[a] = frozen[a] \cup frozen[g]
    BY AdoptDays, Zenon
  <2>2. /\ played[a] \in SUBSET (1 .. MaxDay) /\ frozen[a] \in SUBSET (1 .. MaxDay)
        /\ played[g] \in SUBSET (1 .. MaxDay) /\ frozen[g] \in SUBSET (1 .. MaxDay)
        /\ played[g] \ archive[a] \in SUBSET (1 .. MaxDay) /\ today \in Nat
    BY MaxDayType DEF TypeOK, Players
  <2>3. played'[a] \in SUBSET (1 .. MaxDay) /\ frozen'[a] \in SUBSET (1 .. MaxDay)
    BY <2>1, <2>2
  <2>4. guest <= after /\ guest \in Nat /\ after \in Nat
    BY <2>1, <2>2, <2>3, StreakGrows
  <2>5. own <= after /\ own \in Nat
    BY <2>1, <2>2, <2>3, StreakGrows
  <2> HIDE DEF after, guest, own
  <2>6. Max({guest, own}) <= after
    <3>1. CASE guest <= own
      BY <2>4, <2>5, <3>1, SetMax
    <3>2. CASE own <= guest
      BY <2>4, <2>5, <3>2, SetMax
    <3> QED
      BY <2>4, <2>5, <3>1, <3>2
  <2> QED
    BY <2>4, <2>6 DEF after, guest, own
<1> QED
  BY <1>1, TypeCorrect, FreezeCorrect, PTL DEF StreakSurvivesAdoption, Spec
=============================================================================
