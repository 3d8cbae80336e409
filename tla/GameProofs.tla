------------------------------ MODULE GameProofs ------------------------------
(***************************************************************************)
(* Puzzle pages that judge the board themselves, with boards of any size:  *)
(* what no sequence of touches and resets can break. The names of the      *)
(* instances are those of MCGames.                                         *)
(***************************************************************************)
EXTENDS GameBoard, TLAPS, FiniteSetTheorems, WellFoundedInduction

(* The renders of every page, see GameBoard.                               *)
LEMMA Render ==
    ASSUME NEW S, sent \in Seq(S), ended = FALSE, NEW s, NEW over \in BOOLEAN, NEW data,
           over => data \in S, Shows(s, over, data)
    PROVE  /\ state' = s /\ ended' = over /\ sent' \in Seq(S)
           /\ over => sent' # <<>> /\ Last(sent') = data
<1>1. CASE over
  <2>1. state' = s /\ ended' = TRUE /\ sent' = Append(sent, data)
    BY <1>1 DEF Shows
  <2> QED
    BY <1>1, <2>1 DEF Last
<1>2. CASE ~over
  BY <1>2 DEF Shows
<1> QED
  BY <1>1, <1>2

(* HandsOverTheFirst of a board that is over or not, with data on show,    *)
(* after the finishes handed over so far.                                  *)
GivenOnce(over, replay, data, ref, finishes) ==
    /\ ref <=> (over \/ replay)
    /\ Len(finishes) = IF ref THEN 1 ELSE 0
    /\ over /\ ~replay => finishes = <<data>>

(* A render of a page whose finish ref stays set.                          *)
LEMMA RenderAgain ==
    ASSUME NEW S, sent \in Seq(S), NEW replay \in BOOLEAN, ended = replay,
           Len(sent) = IF ended THEN 1 ELSE 0, NEW s, NEW over \in BOOLEAN, NEW data,
           over => data \in S, Shows(s, over, data)
    PROVE  /\ state' = s /\ ended' \in BOOLEAN /\ sent' \in Seq(S)
           /\ GivenOnce(over, replay, data, ended', sent')
<1>2. CASE over /\ ~ended
  <2>1. state' = s /\ ended' = TRUE /\ sent' = Append(sent, data)
    BY <1>2 DEF Shows
  <2>2. sent' = <<data>> /\ sent' \in Seq(S)
    BY <1>2, <2>1
  <2> QED
    BY <1>2, <2>1, <2>2 DEF GivenOnce
<1>3. CASE ~(over /\ ~ended)
  <2>1. state' = s /\ ended' = ended /\ sent' = sent
    BY <1>3 DEF Shows
  <2>2. ended <=> (over \/ replay)
    BY <1>3
  <2> QED
    BY <1>3, <2>1, <2>2 DEF GivenOnce
<1> QED
  BY <1>2, <1>3

(* A sequence of distinct members of a finite set has them all when it is  *)
(* as long as the set is large.                                            *)
LEMMA AllFound ==
    ASSUME NEW C, IsFiniteSet(C), NEW S, NEW found \in Seq(S), IsInjective(found), Range(found) \subseteq C
    PROVE  Len(found) = Cardinality(C) <=> Range(found) = C
<1> DEFINE D == 1..Len(found)
<1>1. DOMAIN found = D /\ Len(found) \in Nat
  OBVIOUS
<1>2. IsFiniteSet(D) /\ Cardinality(D) = Len(found)
  BY <1>1, FS_Interval, SMTT(30)
<1> HIDE DEF D
<1>3. found \in [D -> C]
  BY <1>1 DEF Range
<1>4. found \in Injection(D, C)
  BY <1>1, <1>3 DEF Injection, IsInjective
<1>5. Cardinality(D) = Cardinality(C) <=> found \in Surjection(D, C)
  BY <1>2, <1>4, FS_Injection
<1>6. found \in Surjection(D, C) <=> Range(found) = C
  BY <1>1, <1>3 DEF Surjection, Range
<1> QED
  BY <1>2, <1>5, <1>6

LEMMA AppendedRange ==
    ASSUME NEW S, NEW h \in Seq(S), NEW g \in S
    PROVE  /\ Append(h, g) \in Seq(S) /\ Len(Append(h, g)) = Len(h) + 1
           /\ Range(Append(h, g)) = Range(h) \cup {g}
           /\ IsInjective(h) /\ g \notin Range(h) => IsInjective(Append(h, g))
<1> DEFINE q == Append(h, g)
<1>1. q \in Seq(S) /\ Len(q) = Len(h) + 1 /\ DOMAIN q = 1..(Len(h) + 1) /\ q[Len(h) + 1] = g
      /\ Len(h) \in Nat /\ DOMAIN h = 1..Len(h) /\ \A i \in 1..Len(h) : q[i] = h[i]
  OBVIOUS
<1> HIDE DEF q
<1>2. Range(q) = Range(h) \cup {g}
  BY <1>1 DEF Range
<1>3. IsInjective(h) /\ g \notin Range(h) => IsInjective(q)
  BY <1>1 DEF Range, IsInjective
<1> QED
  BY <1>1, <1>2, <1>3 DEF q

(* One element is taken out: the others keep their order.                  *)
LEMMA Removed ==
    ASSUME NEW S, NEW s \in Seq(S), NEW k \in DOMAIN s
    PROVE  /\ RemoveAt(s, k) \in Seq(S) /\ Len(RemoveAt(s, k)) = Len(s) - 1
           /\ DOMAIN RemoveAt(s, k) = 1..(Len(s) - 1)
           /\ \A j \in 1..(Len(s) - 1) : RemoveAt(s, k)[j] = IF j < k THEN s[j] ELSE s[j + 1]
<1> DEFINE a == SubSeq(s, 1, k - 1)
           b == SubSeq(s, k + 1, Len(s))
<1>1. k \in 1..Len(s) /\ Len(s) \in Nat
  OBVIOUS
<1>2. a \in Seq(S) /\ Len(a) = k - 1 /\ \A j \in 1..(k - 1) : a[j] = s[j]
  BY <1>1
<1>3. b \in Seq(S) /\ Len(b) = Len(s) - k /\ \A j \in 1..(Len(s) - k) : b[j] = s[k + j]
  BY <1>1
<1>4. RemoveAt(s, k) = a \o b
  BY DEF RemoveAt
<1> HIDE DEF a, b
<1>5. a \o b \in Seq(S) /\ Len(a \o b) = Len(s) - 1 /\ DOMAIN (a \o b) = 1..(Len(s) - 1)
  BY <1>1, <1>2, <1>3
<1>6. ASSUME NEW j \in 1..(Len(s) - 1) PROVE (a \o b)[j] = IF j < k THEN s[j] ELSE s[j + 1]
  <2>1. CASE j < k
    BY <1>1, <1>2, <1>3, <2>1
  <2>2. CASE ~(j < k)
    <3>1. j \in 1..(Len(a) + Len(b)) /\ ~(j <= Len(a)) /\ Len(a) \in Nat /\ Len(b) \in Nat
      BY <1>1, <1>2, <1>3, <2>2
    <3>2. (a \o b)[j] = b[j - Len(a)]
      <4>1. a \in Seq(S) /\ b \in Seq(S)
        BY <1>2, <1>3
      <4> QED
        BY <3>1, <4>1
    <3>3. j - Len(a) = j - k + 1 /\ j - k + 1 \in 1..(Len(s) - k) /\ k + (j - k + 1) = j + 1
      BY <1>1, <1>2, <2>2
    <3> QED
      BY <1>3, <2>2, <3>2, <3>3
  <2> QED
    BY <2>1, <2>2
<1> QED
  BY <1>4, <1>5, <1>6

(* Pairs of one index each: as many as indices.                            *)
LEMMA AsMany ==
    ASSUME NEW S, NEW T, IsFiniteSet(S), NEW f \in [S -> T], \A a, b \in S : f[a] = f[b] => a = b,
           \A t \in T : \E s \in S : f[s] = t
    PROVE  Cardinality(T) = Cardinality(S)
<1>1. f \in Injection(S, T)
  BY DEF Injection, IsInjective
<1>2. f \in Surjection(S, T)
  BY DEF Surjection
<1>3. IsFiniteSet(T)
  BY <1>2, FS_Surjection
<1> QED
  BY <1>1, <1>2, <1>3, FS_Injection

LEMMA Onto ==
    ASSUME NEW S, NEW T, IsFiniteSet(T), Cardinality(S) = Cardinality(T), NEW f \in [S -> T],
           \A a, b \in S : f[a] = f[b] => a = b
    PROVE  \A t \in T : \E s \in S : f[s] = t
<1>1. f \in Injection(S, T)
  BY DEF Injection, IsInjective
<1>2. f \in Surjection(S, T)
  BY <1>1, FS_Injection
<1> QED
  BY <1>2 DEF Surjection

LEMMA FirstNumbers == ASSUME NEW n \in Nat PROVE IsFiniteSet(1..n) /\ Cardinality(1..n) = n
  BY FS_Interval

LEMMA Smallest == ASSUME NEW S \in SUBSET Nat, S # {} PROVE \E x \in S : \A y \in S : x <= y
<1> DEFINE R == {ss \in Nat \X Nat : ss[1] < ss[2]}
<1>1. IsWellFoundedOn(R, Nat)
  BY NatLessThanWellFounded, Zenon DEF OpToRel
<1> HIDE DEF R
<1>2. PICK x \in S : \A y \in S : ~ (<<y, x>> \in R)
  BY <1>1, WFMin
<1>3. \A y \in S : ~ (y < x)
  BY <1>2 DEF R
<1> QED
  BY <1>3

(* Induction on numbers, for a set of numbers.                             *)
LEMMA OneByOne ==
    ASSUME NEW Good \in SUBSET Nat, 0 \in Good, \A n \in Good : n + 1 \in Good PROVE Good = Nat
<1> SUFFICES ASSUME Nat \ Good # {} PROVE FALSE
  OBVIOUS
<1>1. PICK m \in Nat \ Good : \A n \in Nat \ Good : m <= n
  BY Smallest
<1>2. m # 0 /\ m - 1 \in Nat /\ ~(m <= m - 1)
  BY <1>1
<1>3. m - 1 \in Good
  BY <1>1, <1>2
<1>4. (m - 1) + 1 \in Good
  BY <1>3
<1> QED
  BY <1>1, <1>4

(* Induction on the parts of a finite set.                                 *)
LEMMA PartByPart ==
    ASSUME NEW S, IsFiniteSet(S), NEW Good \in SUBSET SUBSET S, {} \in Good,
           \A s \in SUBSET S : s # {} /\ (\A x \in s : s \ {x} \in Good) => s \in Good
    PROVE  Good = SUBSET S
<1> DEFINE Sizes == {n \in Nat : \A s \in SUBSET S : Cardinality(s) = n => s \in Good}
<1>1. \A s \in SUBSET S : IsFiniteSet(s) /\ Cardinality(s) \in Nat /\ (Cardinality(s) = 0 <=> s = {})
  BY FS_Subset, FS_CardinalityType, FS_EmptySet
<1>2. 0 \in Sizes
  BY <1>1
<1>3. ASSUME NEW n \in Sizes PROVE n + 1 \in Sizes
  <2>1. ASSUME NEW s \in SUBSET S, Cardinality(s) = n + 1 PROVE s \in Good
    <3>1. \A x \in s : s \ {x} \in SUBSET S /\ Cardinality(s \ {x}) = Cardinality(s) - 1
      BY <1>1, FS_RemoveElement
    <3>2. n \in Nat /\ Cardinality(s) # 0 /\ Cardinality(s) - 1 = n
      BY <2>1
    <3>3. s # {} /\ \A x \in s : s \ {x} \in Good
      BY <1>1, <3>1, <3>2
    <3> QED
      BY <3>3
  <2> QED
    BY <2>1
<1> HIDE DEF Sizes
<1>4. Sizes = Nat
  <2>1. Sizes \in SUBSET Nat
    BY DEF Sizes
  <2> QED
    BY <1>2, <1>3, <2>1, OneByOne
<1>5. ASSUME NEW s \in SUBSET S PROVE s \in Good
  BY <1>1, <1>4, <1>5 DEF Sizes
<1> QED
  BY <1>5

(* A fold: a function on the parts of a finite set that takes the picked   *)
(* element off.                                                            *)
IsFold(g, S, V, base, step, pick) ==
    /\ g \in [SUBSET S -> V]
    /\ \A s \in SUBSET S : g[s] = IF s = {} THEN base ELSE step[<<pick[s], g[s \ {pick[s]}]>>]

(* It exists.                                                              *)
LEMMA FoldExists ==
    ASSUME NEW S, IsFiniteSet(S), NEW V, NEW base \in V, NEW step \in [S \X V -> V],
           NEW pick, \A s \in SUBSET S : s # {} => pick[s] \in s
    PROVE  \E g : IsFold(g, S, V, base, step, pick)
<1> DEFINE Folds(g, s) == g[s] = IF s = {} THEN base ELSE step[<<pick[s], g[s \ {pick[s]}]>>]
           UpTo(n) == \E g \in [SUBSET S -> V] : \A s \in SUBSET S : Cardinality(s) =< n => Folds(g, s)
           Good == {n \in Nat : UpTo(n)}
<1>1. \A s \in SUBSET S : IsFiniteSet(s) /\ Cardinality(s) \in Nat /\ (Cardinality(s) = 0 <=> s = {})
  BY FS_Subset, FS_CardinalityType, FS_EmptySet
<1>2. \A s \in SUBSET S : s # {} => s \ {pick[s]} \in SUBSET S /\ Cardinality(s \ {pick[s]}) = Cardinality(s) - 1
  BY <1>1, FS_RemoveElement
<1>3. UpTo(0)
  <2> DEFINE g == [s \in SUBSET S |-> base]
  <2>1. g \in [SUBSET S -> V] /\ g[{}] = base
    OBVIOUS
  <2>2. \A s \in SUBSET S : Cardinality(s) =< 0 => s = {}
    BY <1>1
  <2> HIDE DEF g
  <2>3. \A s \in SUBSET S : Cardinality(s) =< 0 => Folds(g, s)
    BY <2>1, <2>2
  <2> HIDE DEF Folds
  <2> QED
    BY <2>1, <2>3
<1>4. ASSUME NEW n \in Nat, UpTo(n) PROVE UpTo(n + 1)
  <2>1. PICK g \in [SUBSET S -> V] : \A s \in SUBSET S : Cardinality(s) =< n => Folds(g, s)
    BY <1>4
  <2> DEFINE h == [s \in SUBSET S |-> IF Cardinality(s) = n + 1 THEN step[<<pick[s], g[s \ {pick[s]}]>>] ELSE g[s]]
  <2>2. ASSUME NEW s \in SUBSET S, s # {} PROVE step[<<pick[s], g[s \ {pick[s]}]>>] \in V
    <3>1. g[s \ {pick[s]}] \in V /\ pick[s] \in S
      BY <1>2, <2>2
    <3> QED
      BY <3>1
  <2>3. h \in [SUBSET S -> V]
    <3>1. \A s \in SUBSET S : Cardinality(s) = n + 1 => s # {}
      BY <1>1
    <3> QED
      BY <2>2, <3>1
  <2>4. \A s \in SUBSET S : h[s] = IF Cardinality(s) = n + 1 THEN step[<<pick[s], g[s \ {pick[s]}]>>] ELSE g[s]
    OBVIOUS
  <2> HIDE DEF h
  <2>5. ASSUME NEW s \in SUBSET S, Cardinality(s) =< n + 1 PROVE Folds(h, s)
    <3>1. CASE s = {}
      <4>1. Cardinality(s) = 0 /\ 0 =< n /\ 0 # n + 1
        BY <1>1, <3>1
      <4>2. g[s] = base /\ h[s] = g[s]
        BY <2>1, <2>4, <3>1, <4>1
      <4> QED
        BY <3>1, <4>2
    <3>2. CASE s # {}
      <4> DEFINE t == s \ {pick[s]}
      <4>1. t \in SUBSET S /\ Cardinality(t) # n + 1
        BY <1>1, <1>2, <3>2, <2>5
      <4>2. h[t] = g[t]
        BY <2>4, <4>1
      <4>3. h[s] = step[<<pick[s], g[t]>>]
        <5>1. CASE Cardinality(s) = n + 1
          BY <2>4, <5>1
        <5>2. CASE Cardinality(s) # n + 1
          <6>1. Cardinality(s) =< n
            BY <1>1, <2>5, <5>2
          <6>2. g[s] = step[<<pick[s], g[t]>>]
            BY <2>1, <3>2, <6>1
          <6> QED
            BY <2>4, <5>2, <6>2
        <5> QED
          BY <5>1, <5>2
      <4> QED
        BY <3>2, <4>2, <4>3
    <3> QED
      BY <3>1, <3>2
  <2> HIDE DEF Folds
  <2> QED
    BY <2>3, <2>5
<1> HIDE DEF UpTo
<1>5. Good = Nat
  <2>1. Good \in SUBSET Nat /\ 0 \in Good /\ \A n \in Good : n + 1 \in Good
    BY <1>3, <1>4
  <2> HIDE DEF Good
  <2> QED
    BY <2>1, OneByOne
<1>6. UpTo(Cardinality(S))
  BY <1>1, <1>5
<1>7. \A s \in SUBSET S : Cardinality(s) =< Cardinality(S)
  BY FS_Subset
<1> HIDE DEF Folds
<1>8. \E g \in [SUBSET S -> V] : \A s \in SUBSET S : Folds(g, s)
  BY <1>6, <1>7 DEF UpTo
<1> QED
  BY <1>8 DEF Folds, IsFold

(* What satisfies a fold's equation stays within its values.               *)
LEMMA FoldStays ==
    ASSUME NEW S, IsFiniteSet(S), NEW V, NEW F, F[{}] \in V,
           \A s \in SUBSET S : s # {} => \E x \in s : F[s \ {x}] \in V => F[s] \in V
    PROVE  \A s \in SUBSET S : F[s] \in V
<1> DEFINE Good == {s \in SUBSET S : F[s] \in V}
<1>1. {} \in Good /\ Good \in SUBSET SUBSET S
  OBVIOUS
<1>2. ASSUME NEW s \in SUBSET S, s # {}, \A x \in s : s \ {x} \in Good PROVE s \in Good
  BY <1>2
<1> HIDE DEF Good
<1>3. Good = SUBSET S
  BY <1>1, <1>2, PartByPart
<1> QED
  BY <1>3 DEF Good

(* F adds up d over the parts of S.                                        *)
Adds(F, S, d) ==
    /\ IsFiniteSet(S) /\ d \in [S -> Int]
    /\ F[{}] = 0 /\ \A s \in SUBSET S : F[s] \in Int
    /\ \A s \in SUBSET S : s # {} => \E x \in s : F[s] = d[x] + F[s \ {x}]

(* In which order does not matter.                                         *)
LEMMA AnyOrder ==
    ASSUME NEW F, NEW S, NEW d, Adds(F, S, d)
    PROVE  \A s \in SUBSET S : \A x \in s : F[s] = d[x] + F[s \ {x}]
<1> DEFINE Good == {s \in SUBSET S : \A x \in s : F[s] = d[x] + F[s \ {x}]}
<1>1. {} \in Good /\ Good \in SUBSET SUBSET S
  OBVIOUS
<1>2. ASSUME NEW s \in SUBSET S, s # {}, \A x \in s : s \ {x} \in Good PROVE s \in Good
  <2>1. PICK p \in s : F[s] = d[p] + F[s \ {p}]
    BY <1>2 DEF Adds
  <2>2. ASSUME NEW x \in s, x # p PROVE F[s] = d[x] + F[s \ {x}]
    <3>1. F[s \ {p}] = d[x] + F[(s \ {p}) \ {x}]
      BY <1>2, <2>2
    <3>2. F[s \ {x}] = d[p] + F[(s \ {x}) \ {p}]
      BY <1>2, <2>2
    <3>3. (s \ {p}) \ {x} = (s \ {x}) \ {p}
      OBVIOUS
    <3>4. d[x] \in Int /\ d[p] \in Int /\ F[(s \ {x}) \ {p}] \in Int
      BY DEF Adds
    <3> HIDE DEF Good
    <3> DEFINE r == F[(s \ {x}) \ {p}]
    <3>5. F[s] = d[p] + (d[x] + r)
      BY <2>1, <3>1, <3>3
    <3>6. F[s \ {x}] = d[p] + r /\ r \in Int
      BY <3>2, <3>4
    <3> QED
      <4> HIDE DEF r
      <4> QED
        BY <3>4, <3>5, <3>6
  <2> QED
    BY <2>1, <2>2
<1> HIDE DEF Good
<1>3. Good = SUBSET S
  <2>1. IsFiniteSet(S)
    BY DEF Adds
  <2> QED
    BY <1>1, <1>2, <2>1, PartByPart
<1> QED
  BY <1>3 DEF Good

(* Sums of the same numbers are the same.                                  *)
LEMMA SumsAgree ==
    ASSUME NEW F, NEW S, NEW d, Adds(F, S, d), NEW G, NEW T, NEW e, Adds(G, T, e),
           NEW U \in SUBSET (S \cap T), \A x \in U : d[x] = e[x]
    PROVE  F[U] = G[U]
<1> DEFINE Good == {s \in SUBSET U : F[s] = G[s]}
<1>1. {} \in Good /\ Good \in SUBSET SUBSET U
  BY DEF Adds
<1>2. ASSUME NEW s \in SUBSET U, s # {}, \A x \in s : s \ {x} \in Good PROVE s \in Good
  <2>1. PICK x \in s : x \in s
    BY <1>2
  <2>2. F[s] = d[x] + F[s \ {x}] /\ G[s] = e[x] + G[s \ {x}]
    BY AnyOrder
  <2> QED
    BY <1>2, <2>2
<1> HIDE DEF Good
<1>3. Good = SUBSET U
  <2>1. IsFiniteSet(U)
    BY FS_Subset DEF Adds
  <2>2. {} \in Good /\ Good \in SUBSET SUBSET U /\ \A s \in SUBSET U : s # {} /\ (\A x \in s : s \ {x} \in Good) => s \in Good
    BY <1>1, <1>2
  <2> QED
    BY <2>1, <2>2, PartByPart
<1> QED
  BY <1>3 DEF Good

(* One summand changes.                                                    *)
LEMMA OneSummand ==
    ASSUME NEW F, NEW S, NEW d, Adds(F, S, d), NEW G, NEW e, Adds(G, S, e),
           NEW b \in S, \A x \in S \ {b} : d[x] = e[x]
    PROVE  G[S] - F[S] = e[b] - d[b]
<1>1. F[S \ {b}] = G[S \ {b}]
  BY SumsAgree
<1>2. F[S] = d[b] + F[S \ {b}] /\ G[S] = e[b] + G[S \ {b}]
  BY AnyOrder
<1>3. d[b] \in Int /\ e[b] \in Int /\ F[S \ {b}] \in Int
  BY DEF Adds
<1> QED
  BY <1>1, <1>2, <1>3

LEMMA NothingToAdd ==
    ASSUME NEW F, NEW S, NEW d, Adds(F, S, d), \A x \in S : d[x] = 0 PROVE F[S] = 0
<1> DEFINE G == [s \in SUBSET S |-> 0]
<1>1. Adds(G, S, d)
  <2>1. \A s \in SUBSET S : s # {} => \E x \in s : G[s] = d[x] + G[s \ {x}]
    OBVIOUS
  <2> QED
    BY <2>1 DEF Adds
<1>2. G[S] = 0
  OBVIOUS
<1> HIDE DEF G
<1> QED
  BY <1>1, <1>2, SumsAgree

(* The sums of the folds of FiniteSetsExt, which choose what to take off.  *)
Chosen(s) == CHOOSE x \in s : TRUE

IsSum(g, S, d) ==
    /\ g \in [SUBSET S -> Int]
    /\ \A s \in SUBSET S : g[s] = IF s = {} THEN 0 ELSE d[Chosen(s)] + g[s \ {Chosen(s)}]

LEMMA SumExists == ASSUME NEW S, IsFiniteSet(S), NEW d \in [S -> Int] PROVE \E g : IsSum(g, S, d)
<1> DEFINE pick == [s \in SUBSET S |-> Chosen(s)]
           step == [p \in S \X Int |-> d[p[1]] + p[2]]
<1>1. \A s \in SUBSET S : pick[s] = Chosen(s) /\ (s # {} => Chosen(s) \in s)
  BY DEF Chosen
<1>2. \A b \in S, n \in Int : step[<<b, n>>] = d[b] + n
  OBVIOUS
<1>3. 0 \in Int /\ step \in [S \X Int -> Int]
  OBVIOUS
<1> HIDE DEF pick, step
<1>4. \A s \in SUBSET S : s # {} => pick[s] \in s
  BY <1>1
<1>5. PICK g : IsFold(g, S, Int, 0, step, pick)
  BY <1>3, <1>4, FoldExists
<1>6. ASSUME NEW s \in SUBSET S, s # {} PROVE g[s] = d[Chosen(s)] + g[s \ {Chosen(s)}]
  <2>1. Chosen(s) \in S /\ g[s \ {Chosen(s)}] \in Int
    BY <1>1, <1>5, <1>6 DEF IsFold
  <2>2. g[s] = step[<<Chosen(s), g[s \ {Chosen(s)}]>>]
    BY <1>1, <1>5, <1>6 DEF IsFold
  <2> QED
    BY <1>2, <2>1, <2>2
<1>7. g \in [SUBSET S -> Int] /\ g[{}] = 0
  BY <1>5 DEF IsFold
<1> QED
  BY <1>6, <1>7 DEF IsSum

LEMMA SumIs ==
    ASSUME NEW S, IsFiniteSet(S), NEW d \in [S -> Int], NEW F, F[{}] = 0,
           \A s \in SUBSET S : s # {} => F[s] = d[Chosen(s)] + F[s \ {Chosen(s)}]
    PROVE  Adds(F, S, d)
<1>1. \A s \in SUBSET S : s # {} => Chosen(s) \in s
  BY DEF Chosen
<1>2. \A s \in SUBSET S : F[s] \in Int
  <2>1. ASSUME NEW s \in SUBSET S, s # {}, F[s \ {Chosen(s)}] \in Int PROVE F[s] \in Int
    BY <1>1, <2>1
  <2>2. \A s \in SUBSET S : s # {} => \E x \in s : F[s \ {x}] \in Int => F[s] \in Int
    BY <1>1, <2>1
  <2>3. F[{}] \in Int
    OBVIOUS
  <2> QED
    BY <2>2, <2>3, FoldStays, Zenon
<1> QED
  BY <1>1, <1>2 DEF Adds

LEMMA SumIsBackwards ==
    ASSUME NEW S, IsFiniteSet(S), NEW d \in [S -> Int], NEW F, F[{}] = 0,
           \A s \in SUBSET S : s # {} => F[s] = F[s \ {Chosen(s)}] + d[Chosen(s)]
    PROVE  Adds(F, S, d)
<1>1. \A s \in SUBSET S : s # {} => Chosen(s) \in s
  BY DEF Chosen
<1>2. \A s \in SUBSET S : F[s] \in Int
  <2>1. ASSUME NEW s \in SUBSET S, s # {}, F[s \ {Chosen(s)}] \in Int PROVE F[s] \in Int
    BY <1>1, <2>1
  <2>2. \A s \in SUBSET S : s # {} => \E x \in s : F[s \ {x}] \in Int => F[s] \in Int
    BY <1>1, <2>1
  <2>3. F[{}] \in Int
    OBVIOUS
  <2> QED
    BY <2>2, <2>3, FoldStays, Zenon
<1>3. ASSUME NEW s \in SUBSET S, s # {} PROVE F[s] = d[Chosen(s)] + F[s \ {Chosen(s)}]
  <2>1. Chosen(s) \in S /\ F[s \ {Chosen(s)}] \in Int /\ d[Chosen(s)] \in Int
    BY <1>1, <1>2, <1>3
  <2> QED
    BY <1>3, <2>1
<1> QED
  BY <1>1, <1>2, <1>3 DEF Adds

------------------------------------------------------------------------------
(* Nonogram.                                                               *)
CONSTANTS RowClues, ColClues
Picture == INSTANCE Nonogram

PictureGrids == [Picture!Cells -> {"empty", "filled", "marked"}]
Blank == [c \in Picture!Cells |-> "empty"]

(* Clues are numbers, and the picture has something to fill.               *)
PicturePuzzle ==
    /\ RowClues \in Seq(Seq(Nat)) /\ ColClues \in Seq(Seq(Nat))
    /\ \E row \in Picture!Rows : RowClues[row] # <<0>>

(* The lines of a finish, counted as the page counts them, are the clues.  *)
CountedRight(f) ==
    /\ \A row \in Picture!Rows :
          Picture!LineRuns([col \in Picture!Cols |-> f.finalGrid[<<row, col>>]]) = RowClues[row]
    /\ \A col \in Picture!Cols :
          Picture!LineRuns([row \in Picture!Rows |-> f.finalGrid[<<row, col>>]]) = ColClues[col]

(* The runs after each cell of a line, as LineRuns folds them.             *)
Counting(filled, runs, i) ==
    IF ~filled[i] THEN runs
    ELSE IF i > 1 /\ filled[i - 1] THEN [runs EXCEPT ![Len(runs)] = @ + 1]
    ELSE Append(runs, 1)

LEMMA CountingIsTyped ==
    ASSUME NEW filled, NEW i, NEW runs \in Seq(Nat) PROVE Counting(filled, runs, i) \in Seq(Nat)
<1>1. Len(runs) \in Nat /\ runs \in [1..Len(runs) -> Nat] /\ Append(runs, 1) \in Seq(Nat)
  OBVIOUS
<1>2. [runs EXCEPT ![Len(runs)] = @ + 1] \in Seq(Nat)
  <2> DEFINE more == [runs EXCEPT ![Len(runs)] = @ + 1]
  <2>1. more = [j \in 1..Len(runs) |-> IF j = Len(runs) THEN runs[j] + 1 ELSE runs[j]]
    BY <1>1
  <2>2. \A j \in 1..Len(runs) : runs[j] \in Nat /\ runs[j] + 1 \in Nat
    BY <1>1, SMTT(30)
  <2>3. more \in [1..Len(runs) -> Nat]
    BY <2>1, <2>2
  <2> QED
    BY <1>1, <2>3, SMTT(30)
<1> QED
  BY <1>1, <1>2 DEF Counting

LEMMA GreatestOf ==
    ASSUME NEW n \in Nat, NEW s \in SUBSET (1..n), s # {}
    PROVE  Picture!Max(s) \in s /\ \A x \in s : Picture!Max(s) >= x
<1> DEFINE T == {m \in Nat : \E x \in s : m = n - x}
<1>1. T \in SUBSET Nat /\ T # {}
  <2>1. PICK x \in s : x \in 1..n
    OBVIOUS
  <2>2. n - x \in Nat
    BY <2>1
  <2>3. n - x \in T
    BY <2>1, <2>2
  <2> QED
    BY <2>3
<1>2. PICK m \in T : \A y \in T : m =< y
  BY <1>1, Smallest
<1>3. PICK x \in s : m = n - x
  BY <1>2
<1>4. \A y \in s : x >= y
  <2> SUFFICES ASSUME NEW y \in s PROVE x >= y
    OBVIOUS
  <2>1. n - y \in T /\ y \in Nat /\ x \in Nat
    OBVIOUS
  <2> QED
    BY <1>2, <1>3, <2>1, SMTT(30)
<1>5. Picture!Max(s) = CHOOSE z \in s : \A y \in s : z >= y
  BY DEF Picture!Max
<1> HIDE DEF T
<1> QED
  BY <1>4, <1>5

IsCount(R, n, filled) ==
    /\ R[0] = <<>> /\ \A k \in 0..n : R[k] \in Seq(Nat)
    /\ \A k \in 1..n : R[k] = Counting(filled, R[k - 1], k)

LEMMA LineRunsAreCounted ==
    ASSUME NEW n \in Nat, NEW filled, DOMAIN filled = 1..n
    PROVE  \E R : IsCount(R, n, filled) /\ Picture!LineRuns(filled) = IF R[n] = <<>> THEN <<0>> ELSE R[n]
<1> DEFINE D == 1..n
           last == [s \in SUBSET D |-> Picture!Max(s)]
           count == [p \in D \X Seq(Nat) |-> Counting(filled, p[2], p[1])]
           Is(g) == g = [s \in SUBSET D |->
                           IF s = {} THEN <<>>
                           ELSE Counting(filled, g[s \ {Picture!Max(s)}], [i \in D |-> i][Picture!Max(s)])]
           F == CHOOSE g : Is(g)
<1>1. Picture!LineRuns(filled) = IF F[D] = <<>> THEN <<0>> ELSE F[D]
  BY DEF Picture!LineRuns, Picture!FoldLeft, Picture!MapThenFoldSet, Counting
<1>2. IsFiniteSet(D) /\ <<>> \in Seq(Nat)
  BY FirstNumbers
<1>3. \A s \in SUBSET D : last[s] = Picture!Max(s) /\ (s # {} => last[s] \in s)
  BY GreatestOf
<1>4. count \in [D \X Seq(Nat) -> Seq(Nat)] /\ \A i \in D, runs \in Seq(Nat) : count[<<i, runs>>] = Counting(filled, runs, i)
  BY CountingIsTyped
<1> HIDE DEF last, count, D
<1>5. PICK g : IsFold(g, D, Seq(Nat), <<>>, count, last)
  <2>1. \A s \in SUBSET D : s # {} => last[s] \in s
    BY <1>3
  <2> QED
    BY <1>2, <1>4, <2>1, FoldExists
<1>6. Is(g)
  <2>1. ASSUME NEW s \in SUBSET D, s # {}
        PROVE  g[s] = Counting(filled, g[s \ {Picture!Max(s)}], [i \in D |-> i][Picture!Max(s)])
    <3>1. Picture!Max(s) \in D /\ g[s \ {Picture!Max(s)}] \in Seq(Nat)
      BY <1>3, <1>5, <2>1 DEF IsFold
    <3>2. g[s] = count[<<Picture!Max(s), g[s \ {Picture!Max(s)}]>>]
      BY <1>3, <1>5, <2>1 DEF IsFold
    <3>3. g[s] = Counting(filled, g[s \ {Picture!Max(s)}], Picture!Max(s))
      BY <1>4, <3>1, <3>2
    <3>4. [i \in D |-> i][Picture!Max(s)] = Picture!Max(s)
      BY <3>1
    <3> QED
      BY <3>3, <3>4
  <2>2. g \in [SUBSET D -> Seq(Nat)] /\ g[{}] = <<>>
    BY <1>5 DEF IsFold
  <2> QED
    BY <2>1, <2>2
<1>7. Is(F)
  BY <1>6
<1> HIDE DEF F
<1>8. F[{}] = <<>>
  BY <1>7
<1>9. ASSUME NEW s \in SUBSET D, s # {} PROVE F[s] = Counting(filled, F[s \ {Picture!Max(s)}], Picture!Max(s))
  <2>1. F[s] = Counting(filled, F[s \ {Picture!Max(s)}], [i \in D |-> i][Picture!Max(s)])
    BY <1>7, <1>9
  <2>2. [i \in D |-> i][Picture!Max(s)] = Picture!Max(s)
    BY <1>3, <1>9
  <2> QED
    BY <2>1, <2>2
<1> HIDE DEF Is
<1> DEFINE R == [k \in 0..n |-> F[1..k]]
<1>10. ASSUME NEW k \in 1..n PROVE R[k] = Counting(filled, R[k - 1], k)
  <2> DEFINE s == 1..k
  <2>1. s \in SUBSET D /\ k \in s /\ (\A x \in s : x =< k) /\ s \ {k} = 1..(k - 1) /\ k - 1 \in 0..n /\ k \in 0..n
    BY DEF D
  <2> HIDE DEF s
  <2>2. Picture!Max(s) \in s /\ Picture!Max(s) >= k
    BY <2>1, GreatestOf DEF D
  <2>3. Picture!Max(s) = k
    BY <2>1, <2>2 DEF s
  <2>4. F[s] = Counting(filled, F[1..(k - 1)], k)
    BY <1>9, <2>1, <2>3
  <2> QED
    BY <2>1, <2>4 DEF s
<1>11. R[0] = <<>> /\ R[n] = F[D]
  <2>1. 1..0 = {} /\ 0 \in 0..n /\ n \in 0..n
    OBVIOUS
  <2> QED
    BY <1>8, <2>1 DEF D
<1> HIDE DEF R
<1>12. \A k \in 0..n : R[k] \in Seq(Nat)
  <2> DEFINE Good == {k \in Nat : k =< n => R[k] \in Seq(Nat)}
  <2>1. 0 \in Good
    BY <1>2, <1>11
  <2>2. ASSUME NEW k \in Good PROVE k + 1 \in Good
    <3> SUFFICES ASSUME k + 1 =< n PROVE R[k + 1] \in Seq(Nat)
      OBVIOUS
    <3>1. k + 1 \in 1..n /\ (k + 1) - 1 = k /\ R[k] \in Seq(Nat)
      OBVIOUS
    <3>2. R[k + 1] = Counting(filled, R[k], k + 1)
      BY <1>10, <3>1
    <3> QED
      BY <3>1, <3>2, CountingIsTyped
  <2>3. Good \in SUBSET Nat
    OBVIOUS
  <2> HIDE DEF Good
  <2>4. Good = Nat
    BY <2>1, <2>2, <2>3, OneByOne
  <2> QED
    BY <2>4 DEF Good
<1>13. IsCount(R, n, filled)
  BY <1>10, <1>11, <1>12 DEF IsCount
<1> QED
  BY <1>1, <1>11, <1>13

(* Where runs start, which run of the line a cell belongs to, and how far  *)
(* a run goes.                                                             *)
StartsTo(filled, k) == {i \in 1..k : filled[i] /\ (i = 1 \/ ~filled[i - 1])}
RunsTo(filled, k) == Cardinality(StartsTo(filled, k))
Stretch(filled, i, k) == {j \in i..k : \A m \in i..j : filled[m]}

LEMMA StartsAreFinite ==
    ASSUME NEW filled, NEW k \in Nat PROVE IsFiniteSet(StartsTo(filled, k)) /\ RunsTo(filled, k) \in Nat
<1>1. IsFiniteSet(1..k) /\ StartsTo(filled, k) \in SUBSET (1..k)
  BY FirstNumbers DEF StartsTo
<1>2. IsFiniteSet(StartsTo(filled, k))
  BY <1>1, FS_Subset
<1> QED
  BY <1>2, FS_CardinalityType DEF RunsTo

LEMMA NextStart ==
    ASSUME NEW filled, NEW k \in Nat \ {0}
    PROVE  IF k \in StartsTo(filled, k)
           THEN StartsTo(filled, k) = StartsTo(filled, k - 1) \cup {k} /\ RunsTo(filled, k) = RunsTo(filled, k - 1) + 1
           ELSE StartsTo(filled, k) = StartsTo(filled, k - 1) /\ RunsTo(filled, k) = RunsTo(filled, k - 1)
<1>1. k - 1 \in Nat /\ k \notin StartsTo(filled, k - 1)
  BY DEF StartsTo
<1>2. CASE k \in StartsTo(filled, k)
  <2>1. StartsTo(filled, k) = StartsTo(filled, k - 1) \cup {k}
    <3>1. filled[k] /\ (k = 1 \/ ~filled[k - 1])
      BY <1>2 DEF StartsTo
    <3>2. 1..k = (1..(k - 1)) \cup {k}
      OBVIOUS
    <3> QED
      BY <3>1, <3>2 DEF StartsTo
  <2> QED
    BY <1>1, <1>2, <2>1, StartsAreFinite, FS_AddElement DEF RunsTo
<1>3. CASE k \notin StartsTo(filled, k)
  <2>1. StartsTo(filled, k) = StartsTo(filled, k - 1)
    <3>1. ~(filled[k] /\ (k = 1 \/ ~filled[k - 1]))
      BY <1>3 DEF StartsTo
    <3>2. 1..k = (1..(k - 1)) \cup {k}
      OBVIOUS
    <3> QED
      BY <3>1, <3>2 DEF StartsTo
  <2> QED
    BY <1>3, <2>1 DEF RunsTo
<1> QED
  BY <1>2, <1>3

(* Later starts have later numbers.                                        *)
LEMMA StartsInOrder ==
    ASSUME NEW filled, NEW k \in Nat, NEW i \in 0..k
    PROVE  /\ RunsTo(filled, i) =< RunsTo(filled, k)
           /\ i < k /\ k \in StartsTo(filled, k) => RunsTo(filled, i) < RunsTo(filled, k)
<1>1. StartsTo(filled, i) \subseteq StartsTo(filled, k)
  BY DEF StartsTo
<1>2. RunsTo(filled, i) =< RunsTo(filled, k) /\ RunsTo(filled, i) \in Nat /\ RunsTo(filled, k) \in Nat
  BY <1>1, StartsAreFinite, FS_Subset DEF RunsTo
<1>3. ASSUME i < k, k \in StartsTo(filled, k) PROVE RunsTo(filled, i) < RunsTo(filled, k)
  <2>1. k - 1 \in Nat /\ k \in Nat \ {0} /\ i \in 0..(k - 1)
    BY <1>3
  <2>2. StartsTo(filled, i) \subseteq StartsTo(filled, k - 1)
    BY <2>1 DEF StartsTo
  <2>3. RunsTo(filled, i) =< RunsTo(filled, k - 1)
    BY <2>1, <2>2, StartsAreFinite, FS_Subset DEF RunsTo
  <2>4. RunsTo(filled, k) = RunsTo(filled, k - 1) + 1 /\ RunsTo(filled, k - 1) \in Nat
    BY <1>3, <2>1, NextStart, StartsAreFinite
  <2> QED
    BY <1>2, <2>3, <2>4
<1> QED
  BY <1>2, <1>3

(* A filled cell belongs to the run that started last.                     *)
LEMMA RunUnderWay ==
    ASSUME NEW filled, NEW k \in Nat \ {0}, filled[k]
    PROVE  \E i \in StartsTo(filled, k) : (\A m \in i..k : filled[m]) /\ RunsTo(filled, i) = RunsTo(filled, k)
<1> DEFINE T == {i \in 1..k : \A m \in i..k : filled[m]}
<1>1. k \in T /\ T \in SUBSET Nat
  OBVIOUS
<1>2. PICK i \in T : \A j \in T : i =< j
  BY <1>1, Smallest
<1>3. i \in 1..k /\ \A m \in i..k : filled[m]
  OBVIOUS
<1>4. i = 1 \/ ~filled[i - 1]
  <2> SUFFICES ASSUME i # 1, filled[i - 1] PROVE FALSE
    OBVIOUS
  <2>1. i - 1 \in 1..k /\ (i - 1)..k = (i..k) \cup {i - 1}
    BY <1>3
  <2>2. i - 1 \in T
    BY <1>3, <2>1
  <2> QED
    BY <1>2, <1>3, <2>2
<1>5. i \in StartsTo(filled, k)
  BY <1>3, <1>4 DEF StartsTo
<1>6. StartsTo(filled, k) = StartsTo(filled, i)
  <2>1. ASSUME NEW j \in StartsTo(filled, k) PROVE j \in StartsTo(filled, i)
    <3>1. j \in 1..k /\ filled[j] /\ (j = 1 \/ ~filled[j - 1])
      BY DEF StartsTo
    <3>2. j =< i
      <4> SUFFICES ASSUME j > i PROVE FALSE
        BY <1>3, <3>1
      <4>1. j - 1 \in i..k /\ j # 1
        BY <1>3, <3>1
      <4> QED
        BY <1>3, <3>1, <4>1
    <3> QED
      BY <1>3, <3>1, <3>2 DEF StartsTo
  <2>2. StartsTo(filled, i) \subseteq StartsTo(filled, k)
    BY <1>3 DEF StartsTo
  <2> QED
    BY <2>1, <2>2
<1> QED
  BY <1>3, <1>5, <1>6 DEF RunsTo

LEMMA StretchesAreFinite ==
    ASSUME NEW filled, NEW i \in Nat, NEW k \in Nat
    PROVE  IsFiniteSet(Stretch(filled, i, k)) /\ Cardinality(Stretch(filled, i, k)) \in Nat
<1>1. IsFiniteSet(0..k)
  BY FS_Interval
<1>2. Stretch(filled, i, k) \in SUBSET (0..k)
  BY DEF Stretch
<1>3. IsFiniteSet(Stretch(filled, i, k))
  BY <1>1, <1>2, FS_Subset
<1> QED
  BY <1>3, FS_CardinalityType

(* One cell more of a line: the stretch of a run grows if it reaches it.   *)
LEMMA StretchGrows ==
    ASSUME NEW filled, NEW k \in Nat \ {0}, NEW i \in 1..(k - 1)
    PROVE  IF \A m \in i..k : filled[m]
           THEN Cardinality(Stretch(filled, i, k)) = Cardinality(Stretch(filled, i, k - 1)) + 1
           ELSE Stretch(filled, i, k) = Stretch(filled, i, k - 1)
<1>1. i..k = (i..(k - 1)) \cup {k} /\ k \notin i..(k - 1) /\ k - 1 \in Nat /\ i \in Nat
  OBVIOUS
<1>2. CASE \A m \in i..k : filled[m]
  <2>1. Stretch(filled, i, k) = Stretch(filled, i, k - 1) \cup {k} /\ k \notin Stretch(filled, i, k - 1)
    BY <1>1, <1>2 DEF Stretch
  <2> QED
    BY <1>1, <1>2, <2>1, StretchesAreFinite, FS_AddElement
<1>3. CASE ~\A m \in i..k : filled[m]
  <2>1. k \notin Stretch(filled, i, k)
    BY <1>3 DEF Stretch
  <2>2. Stretch(filled, i, k) = Stretch(filled, i, k - 1)
    BY <1>1, <2>1 DEF Stretch
  <2> QED
    BY <1>3, <2>2
<1> QED
  BY <1>2, <1>3

(* The first of the runs of a line, up to a cell: as many as have started, *)
(* each as long as it is so far.                                           *)
CountedTo(filled, k, runs) ==
    /\ runs \in Seq(Nat) /\ Len(runs) = RunsTo(filled, k)
    /\ \A i \in StartsTo(filled, k) : runs[RunsTo(filled, i)] = Cardinality(Stretch(filled, i, k))

LEMMA StartNumbers ==
    ASSUME NEW filled, NEW k \in Nat, NEW i \in StartsTo(filled, k)
    PROVE  /\ i \in 1..k /\ i \in StartsTo(filled, i) /\ RunsTo(filled, i) \in 1..RunsTo(filled, k)
           /\ \A j \in StartsTo(filled, k) : i # j => RunsTo(filled, i) # RunsTo(filled, j)
<1>1. i \in 1..k /\ i \in Nat \ {0} /\ i \in StartsTo(filled, i)
  BY DEF StartsTo
<1>2. RunsTo(filled, i) = RunsTo(filled, i - 1) + 1 /\ RunsTo(filled, i - 1) \in Nat
  <2>1. i - 1 \in Nat
    BY <1>1
  <2> QED
    BY <1>1, <2>1, NextStart, StartsAreFinite
<1>3. RunsTo(filled, i) =< RunsTo(filled, k) /\ RunsTo(filled, k) \in Nat
  BY <1>1, StartsInOrder, StartsAreFinite
<1>4. ASSUME NEW j \in StartsTo(filled, k), i # j PROVE RunsTo(filled, i) # RunsTo(filled, j)
  <2>1. j \in 1..k /\ j \in StartsTo(filled, j) /\ j \in Nat
    BY DEF StartsTo
  <2>2. RunsTo(filled, i) \in Nat /\ RunsTo(filled, j) \in Nat
    BY <1>1, <2>1, StartsAreFinite
  <2>3. CASE i < j
    <3>1. i \in 0..j
      BY <1>1, <2>1, <2>3
    <3>2. RunsTo(filled, i) < RunsTo(filled, j)
      BY <2>1, <2>3, <3>1, StartsInOrder
    <3> QED
      BY <2>2, <3>2
  <2>4. CASE j < i
    <3>1. j \in 0..i
      BY <1>1, <2>1, <2>4
    <3>2. RunsTo(filled, j) < RunsTo(filled, i)
      BY <1>1, <2>4, <3>1, StartsInOrder
    <3> QED
      BY <2>2, <3>2
  <2> QED
    BY <1>1, <1>4, <2>1, <2>3, <2>4
<1> QED
  BY <1>1, <1>2, <1>3, <1>4

LEMMA OneCellMore ==
    ASSUME NEW filled, NEW k \in Nat \ {0}, NEW runs, CountedTo(filled, k - 1, runs)
    PROVE  CountedTo(filled, k, Counting(filled, runs, k))
<1> DEFINE more == Counting(filled, runs, k)
           c == RunsTo(filled, k)
<1>1. /\ k - 1 \in Nat /\ runs \in Seq(Nat) /\ Len(runs) = RunsTo(filled, k - 1) /\ Len(runs) \in Nat
      /\ more \in Seq(Nat) /\ c \in Nat
      /\ \A i \in StartsTo(filled, k - 1) : runs[RunsTo(filled, i)] = Cardinality(Stretch(filled, i, k - 1))
  BY StartsAreFinite, CountingIsTyped DEF CountedTo
<1>2. \A i \in StartsTo(filled, k - 1) : i \in 1..(k - 1) /\ RunsTo(filled, i) \in 1..Len(runs)
  BY <1>1, StartNumbers
<1> HIDE DEF more, c
<1>3. CASE ~filled[k]
  <2>1. more = runs
    BY <1>3 DEF more, Counting
  <2>2. StartsTo(filled, k) = StartsTo(filled, k - 1) /\ c = RunsTo(filled, k - 1)
    BY <1>3, NextStart DEF StartsTo, c
  <2>3. ASSUME NEW i \in StartsTo(filled, k) PROVE more[RunsTo(filled, i)] = Cardinality(Stretch(filled, i, k))
    <3>1. i \in 1..(k - 1) /\ ~\A m \in i..k : filled[m]
      BY <1>2, <1>3, <2>2
    <3>2. Stretch(filled, i, k) = Stretch(filled, i, k - 1)
      BY <3>1, StretchGrows
    <3> QED
      BY <1>1, <2>1, <2>2, <3>2
  <2> QED
    BY <1>1, <2>1, <2>2, <2>3 DEF CountedTo, more, c
<1>4. CASE filled[k] /\ k > 1 /\ filled[k - 1]
  <2>1. more = [runs EXCEPT ![Len(runs)] = @ + 1]
    BY <1>4 DEF more, Counting
  <2>2. StartsTo(filled, k) = StartsTo(filled, k - 1) /\ c = RunsTo(filled, k - 1)
    <3>1. k \notin StartsTo(filled, k)
      BY <1>4 DEF StartsTo
    <3> QED
      BY <3>1, NextStart DEF c
  <2>3. PICK p \in StartsTo(filled, k - 1) :
            (\A m \in p..(k - 1) : filled[m]) /\ RunsTo(filled, p) = RunsTo(filled, k - 1)
    <3>1. k - 1 \in Nat \ {0}
      BY <1>1, <1>4
    <3> QED
      BY <1>4, <3>1, RunUnderWay
  <2>4. Len(more) = Len(runs) /\ \A j \in 1..Len(runs) : more[j] = IF j = Len(runs) THEN runs[j] + 1 ELSE runs[j]
    BY <1>1, <2>1
  <2>5. ASSUME NEW i \in StartsTo(filled, k) PROVE more[RunsTo(filled, i)] = Cardinality(Stretch(filled, i, k))
    <3>1. i \in 1..(k - 1) /\ RunsTo(filled, i) \in 1..Len(runs) /\ i \in StartsTo(filled, k - 1)
      BY <1>2, <2>2
    <3>2. CASE i = p
      <4>1. RunsTo(filled, i) = Len(runs)
        BY <1>1, <2>3, <3>2
      <4>2. \A m \in i..k : filled[m]
        <5>1. i..k = (i..(k - 1)) \cup {k}
          BY <3>1
        <5> QED
          BY <1>4, <2>3, <3>2, <5>1
      <4>3. Cardinality(Stretch(filled, i, k)) = Cardinality(Stretch(filled, i, k - 1)) + 1
        BY <3>1, <4>2, StretchGrows
      <4> QED
        BY <1>1, <2>4, <3>1, <4>1, <4>3
    <3>3. CASE i # p
      <4>1. RunsTo(filled, i) # Len(runs)
        BY <1>1, <2>3, <3>1, <3>3, StartNumbers
      <4>2. ~\A m \in i..k : filled[m]
        <5>1. p \in 1..(k - 1) /\ p \in StartsTo(filled, p) /\ i \in StartsTo(filled, i)
          BY <1>1, <3>1, StartNumbers
        <5>2. i < p
          <6> SUFFICES ASSUME p < i PROVE FALSE
            BY <3>1, <3>3, <5>1
          <6>1. filled[i - 1] /\ i # 1
            BY <2>3, <3>1, <5>1
          <6> QED
            BY <5>1, <6>1 DEF StartsTo
        <5>3. p # 1 /\ ~filled[p - 1]
          BY <3>1, <5>1, <5>2 DEF StartsTo
        <5>4. p - 1 \in i..k
          BY <3>1, <5>1, <5>2
        <5> QED
          BY <5>3, <5>4
      <4>3. Stretch(filled, i, k) = Stretch(filled, i, k - 1)
        BY <3>1, <4>2, StretchGrows
      <4> QED
        BY <1>1, <2>4, <3>1, <4>1, <4>3
    <3> QED
      BY <3>2, <3>3
  <2> QED
    BY <1>1, <2>2, <2>4, <2>5 DEF CountedTo, more, c
<1>5. CASE filled[k] /\ ~(k > 1 /\ filled[k - 1])
  <2>1. more = Append(runs, 1)
    BY <1>5 DEF more, Counting
  <2>2. k = 1 \/ ~filled[k - 1]
    BY <1>5
  <2>3. k \in StartsTo(filled, k)
    BY <1>5, <2>2 DEF StartsTo
  <2>4. StartsTo(filled, k) = StartsTo(filled, k - 1) \cup {k} /\ c = Len(runs) + 1
    BY <1>1, <2>3, NextStart DEF c
  <2>5. Len(more) = c /\ more[c] = 1 /\ \A j \in 1..Len(runs) : more[j] = runs[j]
    BY <1>1, <2>1, <2>4
  <2>6. ASSUME NEW i \in StartsTo(filled, k - 1) PROVE more[RunsTo(filled, i)] = Cardinality(Stretch(filled, i, k))
    <3>1. i \in 1..(k - 1) /\ RunsTo(filled, i) \in 1..Len(runs)
      BY <1>2
    <3>2. k # 1 /\ k - 1 \in i..k
      BY <3>1
    <3>3. ~\A m \in i..k : filled[m]
      BY <2>2, <3>2
    <3>4. Stretch(filled, i, k) = Stretch(filled, i, k - 1)
      BY <3>1, <3>3, StretchGrows
    <3> QED
      BY <1>1, <2>5, <3>1, <3>4
  <2>7. more[RunsTo(filled, k)] = Cardinality(Stretch(filled, k, k))
    <3>1. Stretch(filled, k, k) = {k}
      BY <1>5 DEF Stretch
    <3>2. Cardinality({k}) = 1
      BY FS_Singleton
    <3> QED
      BY <2>5, <3>1, <3>2 DEF c
  <2>8. \A i \in StartsTo(filled, k) : more[RunsTo(filled, i)] = Cardinality(Stretch(filled, i, k))
    BY <2>4, <2>6, <2>7
  <2> QED
    BY <1>1, <2>5, <2>8 DEF CountedTo, more, c
<1> QED
  BY <1>3, <1>4, <1>5

LEMMA LineIsCounted ==
    ASSUME NEW n \in Nat, NEW filled, DOMAIN filled = 1..n
    PROVE  \E runs : CountedTo(filled, n, runs) /\ Picture!LineRuns(filled) = IF runs = <<>> THEN <<0>> ELSE runs
<1>1. PICK R : IsCount(R, n, filled) /\ Picture!LineRuns(filled) = IF R[n] = <<>> THEN <<0>> ELSE R[n]
  BY LineRunsAreCounted
<1>2. CountedTo(filled, n, R[n])
  <2> DEFINE Good == {k \in Nat : k =< n => CountedTo(filled, k, R[k])}
  <2>1. 0 \in Good
    <3>1. StartsTo(filled, 0) = {} /\ RunsTo(filled, 0) = 0
      <4>1. StartsTo(filled, 0) = {}
        BY DEF StartsTo
      <4> QED
        BY <4>1, FS_EmptySet DEF RunsTo
    <3>2. R[0] = <<>>
      BY <1>1 DEF IsCount
    <3>3. <<>> \in Seq(Nat) /\ Len(<<>>) = 0
      OBVIOUS
    <3> QED
      BY <3>1, <3>2, <3>3 DEF CountedTo
  <2>2. ASSUME NEW k \in Good PROVE k + 1 \in Good
    <3> SUFFICES ASSUME k + 1 =< n PROVE CountedTo(filled, k + 1, R[k + 1])
      OBVIOUS
    <3>1. k + 1 \in 1..n /\ k + 1 \in Nat \ {0} /\ (k + 1) - 1 = k /\ CountedTo(filled, k, R[k])
      OBVIOUS
    <3>2. R[k + 1] = Counting(filled, R[k], k + 1)
      BY <1>1, <3>1 DEF IsCount
    <3> QED
      BY <3>1, <3>2, OneCellMore
  <2>3. Good \in SUBSET Nat
    OBVIOUS
  <2> HIDE DEF Good
  <2>4. Good = Nat
    BY <2>1, <2>2, <2>3, OneByOne
  <2>5. n \in Good
    BY <2>4
  <2> QED
    BY <2>5 DEF Good
<1> QED
  BY <1>1, <1>2

(* A line that is counted as its clue meets it.                            *)
LEMMA CountedMeets ==
    ASSUME NEW n \in Nat, NEW filled, DOMAIN filled = 1..n, NEW clue, Picture!LineRuns(filled) = clue
    PROVE  Picture!Meets(filled, clue)
<1>1. PICK runs : CountedTo(filled, n, runs) /\ Picture!LineRuns(filled) = IF runs = <<>> THEN <<0>> ELSE runs
  BY LineIsCounted
<1> DEFINE starts == StartsTo(filled, n)
           Length(i) == Cardinality(Stretch(filled, i, n))
<1>3. /\ runs \in Seq(Nat) /\ Len(runs) = Cardinality(starts) /\ IsFiniteSet(starts)
      /\ \A i \in starts : runs[RunsTo(filled, i)] = Length(i)
  BY <1>1, StartsAreFinite DEF CountedTo, RunsTo
<1>4. \A S : Picture!Cardinality(S) = Cardinality(S)
  BY DEF Picture!Cardinality, Cardinality
<1>5. /\ starts = {i \in DOMAIN filled : filled[i] /\ (i = 1 \/ ~filled[i - 1])}
      /\ \A i \in starts : Stretch(filled, i, n) = {j \in DOMAIN filled : j >= i /\ \A m \in i..j : filled[m]}
      /\ \A i \in starts : StartsTo(filled, i) = {j \in starts : j =< i}
  <2>1. starts = {i \in DOMAIN filled : filled[i] /\ (i = 1 \/ ~filled[i - 1])}
    BY DEF StartsTo
  <2>2. ASSUME NEW i \in starts PROVE i \in 1..n
    BY DEF StartsTo
  <2>3. ASSUME NEW i \in starts PROVE Stretch(filled, i, n) = {j \in DOMAIN filled : j >= i /\ \A m \in i..j : filled[m]}
    BY <2>2 DEF Stretch
  <2>4. ASSUME NEW i \in starts PROVE StartsTo(filled, i) = {j \in starts : j =< i}
    BY <2>2 DEF StartsTo
  <2> QED
    BY <2>1, <2>3, <2>4
<1>6. ASSUME NEW i \in starts PROVE RunsTo(filled, i) \in 1..Len(runs) /\ Length(i) # 0
  <2>1. i \in 1..n /\ i \in StartsTo(filled, i) /\ RunsTo(filled, i) \in 1..RunsTo(filled, n)
    BY StartNumbers
  <2>2. i \in Stretch(filled, i, n)
    BY <2>1 DEF Stretch, StartsTo
  <2>3. Stretch(filled, i, n) # {} /\ IsFiniteSet(Stretch(filled, i, n))
    BY <2>1, <2>2, StretchesAreFinite
  <2>4. Length(i) # 0
    BY <2>3, FS_EmptySet
  <2> QED
    BY <1>3, <2>1, <2>4 DEF RunsTo
<1> HIDE DEF starts, Length
<1>7. CASE clue = <<0>>
  <2>1. starts = {}
    <3> SUFFICES ASSUME NEW i \in starts PROVE FALSE
      OBVIOUS
    <3>1. runs # <<>>
      BY <1>3, <1>6
    <3>2. runs = <<0>>
      BY <1>1, <1>7, <3>1
    <3>3. RunsTo(filled, i) = 1
      BY <1>6, <3>2
    <3> QED
      BY <1>3, <1>6, <3>2, <3>3
  <2> QED
    BY <1>5, <1>7, <2>1 DEF Picture!Meets
<1>8. CASE clue # <<0>>
  <2>1. runs = clue
    BY <1>1, <1>8
  <2>2. Cardinality(starts) = Len(clue) /\ \A i \in starts : Length(i) = clue[Cardinality({j \in starts : j =< i})]
    BY <1>3, <1>5, <2>1 DEF RunsTo
  <2>3. \A i \in starts : Length(i) = Cardinality({j \in DOMAIN filled : j >= i /\ \A m \in i..j : filled[m]})
    BY <1>5 DEF Length
  <2> QED
    BY <1>4, <1>5, <1>8, <2>2, <2>3 DEF Picture!Meets
<1> QED
  BY <1>7, <1>8

LEMMA EmptyLine ==
    ASSUME NEW n \in Nat, NEW filled, DOMAIN filled = 1..n, \A i \in 1..n : ~filled[i]
    PROVE  Picture!LineRuns(filled) = <<0>>
<1>1. PICK runs : CountedTo(filled, n, runs) /\ Picture!LineRuns(filled) = IF runs = <<>> THEN <<0>> ELSE runs
  BY LineIsCounted
<1>2. StartsTo(filled, n) = {}
  BY DEF StartsTo
<1>3. RunsTo(filled, n) = 0
  BY <1>2, FS_EmptySet DEF RunsTo
<1>4. runs \in Seq(Nat) /\ Len(runs) = 0
  BY <1>1, <1>3 DEF CountedTo
<1>5. runs = <<>>
  BY <1>4
<1> QED
  BY <1>1, <1>5

LEMMA LinesOfPicture ==
    ASSUME PicturePuzzle
    PROVE  /\ Len(RowClues) \in Nat /\ Picture!Rows = 1..Len(RowClues)
           /\ Len(ColClues) \in Nat /\ Picture!Cols = 1..Len(ColClues)
  BY DEF PicturePuzzle, Picture!Rows, Picture!Cols

LEMMA BlankLines ==
    ASSUME PicturePuzzle
    PROVE  /\ \A row \in Picture!Rows : Picture!IsRowClueMet(Blank, row) => RowClues[row] = <<0>>
           /\ \A col \in Picture!Cols : Picture!IsColClueMet(Blank, col) => ColClues[col] = <<0>>
<1>1. ASSUME NEW row \in Picture!Rows, Picture!IsRowClueMet(Blank, row) PROVE RowClues[row] = <<0>>
  <2> DEFINE line == [col \in Picture!Cols |-> Blank[<<row, col>>] = "filled"]
  <2>1. DOMAIN line = 1..Len(ColClues) /\ \A i \in 1..Len(ColClues) : ~line[i]
    BY LinesOfPicture DEF Blank, Picture!Cells
  <2>2. Picture!LineRuns(line) = RowClues[row]
    BY <1>1 DEF Picture!IsRowClueMet
  <2> HIDE DEF line
  <2> QED
    BY <2>1, <2>2, LinesOfPicture, EmptyLine
<1>2. ASSUME NEW col \in Picture!Cols, Picture!IsColClueMet(Blank, col) PROVE ColClues[col] = <<0>>
  <2> DEFINE line == [row \in Picture!Rows |-> Blank[<<row, col>>] = "filled"]
  <2>1. DOMAIN line = 1..Len(RowClues) /\ \A i \in 1..Len(RowClues) : ~line[i]
    BY LinesOfPicture DEF Blank, Picture!Cells
  <2>2. Picture!LineRuns(line) = ColClues[col]
    BY <1>2 DEF Picture!IsColClueMet
  <2> HIDE DEF line
  <2> QED
    BY <2>1, <2>2, LinesOfPicture, EmptyLine
<1> QED
  BY <1>1, <1>2

LEMMA CountedIsRight ==
    ASSUME PicturePuzzle, NEW f, CountedRight(f) PROVE Picture!Right(f)
<1>1. ASSUME NEW row \in Picture!Rows
      PROVE  Picture!Meets([col \in Picture!Cols |-> f.finalGrid[<<row, col>>]], RowClues[row])
  <2> DEFINE line == [col \in Picture!Cols |-> f.finalGrid[<<row, col>>]]
  <2>1. DOMAIN line = 1..Len(ColClues)
    BY LinesOfPicture
  <2>2. Picture!LineRuns(line) = RowClues[row]
    BY DEF CountedRight
  <2> HIDE DEF line
  <2>3. Picture!Meets(line, RowClues[row])
    BY <2>1, <2>2, LinesOfPicture, CountedMeets
  <2> QED
    BY <2>3 DEF line
<1>2. ASSUME NEW col \in Picture!Cols
      PROVE  Picture!Meets([row \in Picture!Rows |-> f.finalGrid[<<row, col>>]], ColClues[col])
  <2> DEFINE line == [row \in Picture!Rows |-> f.finalGrid[<<row, col>>]]
  <2>1. DOMAIN line = 1..Len(RowClues)
    BY LinesOfPicture
  <2>2. Picture!LineRuns(line) = ColClues[col]
    BY DEF CountedRight
  <2> HIDE DEF line
  <2>3. Picture!Meets(line, ColClues[col])
    BY <2>1, <2>2, LinesOfPicture, CountedMeets
  <2> QED
    BY <2>3 DEF line
<1> QED
  BY <1>1, <1>2 DEF Picture!Right

PictureFinishes == {f \in [finalGrid : [Picture!Cells -> BOOLEAN]] : CountedRight(f)}

PictureState ==
    [userGrid : PictureGrids, isComplete : BOOLEAN, fillMode : {"fill", "mark"},
     completedRows : SUBSET Picture!Rows, completedCols : SUBSET Picture!Cols]

(* The lines shown as done: they meet their clues, and a line that meets a *)
(* clue with something to fill is among them.                              *)
ShownDone(grid, rows, cols) ==
    /\ \A row \in Picture!Rows :
          /\ row \in rows => Picture!IsRowClueMet(grid, row)
          /\ Picture!IsRowClueMet(grid, row) /\ RowClues[row] # <<0>> => row \in rows
    /\ \A col \in Picture!Cols :
          /\ col \in cols => Picture!IsColClueMet(grid, col)
          /\ Picture!IsColClueMet(grid, col) /\ ColClues[col] # <<0>> => col \in cols

PictureBoard(s, over, finishes) ==
    /\ s \in PictureState /\ ShownDone(s.userGrid, s.completedRows, s.completedCols)
    /\ s.isComplete <=> Picture!IsGridClueComplete(s.userGrid)
    /\ over \in BOOLEAN /\ (over <=> s.isComplete)
    /\ finishes \in Seq(PictureFinishes)
    /\ over => finishes # <<>> /\ finishes[Len(finishes)] = Picture!Finish(s)

PictureInv == PictureBoard(state, ended, sent)

LEMMA PictureFields ==
    ASSUME PictureInv
    PROVE  /\ state \in PictureState /\ ShownDone(state.userGrid, state.completedRows, state.completedCols)
           /\ state.isComplete <=> Picture!IsGridClueComplete(state.userGrid)
           /\ ended \in BOOLEAN /\ (ended <=> state.isComplete)
           /\ sent \in Seq(PictureFinishes)
           /\ ended => sent # <<>> /\ sent[Len(sent)] = Picture!Finish(state)
  BY DEF PictureInv, PictureBoard

(* A painted cell changes the judgement of the two lines through it only.  *)
LEMMA OtherLines ==
    ASSUME NEW grid \in PictureGrids, NEW c \in Picture!Cells, NEW cell
    PROVE  LET next == [grid EXCEPT ![c] = cell]
           IN /\ \A row \in Picture!Rows \ {c[1]} : Picture!IsRowClueMet(next, row) <=> Picture!IsRowClueMet(grid, row)
              /\ \A col \in Picture!Cols \ {c[2]} : Picture!IsColClueMet(next, col) <=> Picture!IsColClueMet(grid, col)
<1> DEFINE next == [grid EXCEPT ![c] = cell]
<1>1. \A e \in Picture!Cells : e # c => next[e] = grid[e]
  BY DEF PictureGrids
<1> HIDE DEF next
<1>2. ASSUME NEW row \in Picture!Rows \ {c[1]}
      PROVE  Picture!IsRowClueMet(next, row) <=> Picture!IsRowClueMet(grid, row)
  <2> DEFINE a == [col \in Picture!Cols |-> next[<<row, col>>] = "filled"]
             b == [col \in Picture!Cols |-> grid[<<row, col>>] = "filled"]
  <2>1. \A col \in Picture!Cols : next[<<row, col>>] = grid[<<row, col>>]
    BY <1>1 DEF Picture!Cells
  <2>2. a = b
    BY <2>1
  <2>3. Picture!IsRowClueMet(next, row) <=> Picture!LineRuns(a) = RowClues[row]
    BY DEF Picture!IsRowClueMet
  <2>4. Picture!IsRowClueMet(grid, row) <=> Picture!LineRuns(b) = RowClues[row]
    BY DEF Picture!IsRowClueMet
  <2> HIDE DEF a, b
  <2> QED
    BY <2>2, <2>3, <2>4
<1>3. ASSUME NEW col \in Picture!Cols \ {c[2]}
      PROVE  Picture!IsColClueMet(next, col) <=> Picture!IsColClueMet(grid, col)
  <2> DEFINE a == [row \in Picture!Rows |-> next[<<row, col>>] = "filled"]
             b == [row \in Picture!Rows |-> grid[<<row, col>>] = "filled"]
  <2>1. \A row \in Picture!Rows : next[<<row, col>>] = grid[<<row, col>>]
    BY <1>1 DEF Picture!Cells
  <2>2. a = b
    BY <2>1
  <2>3. Picture!IsColClueMet(next, col) <=> Picture!LineRuns(a) = ColClues[col]
    BY DEF Picture!IsColClueMet
  <2>4. Picture!IsColClueMet(grid, col) <=> Picture!LineRuns(b) = ColClues[col]
    BY DEF Picture!IsColClueMet
  <2> HIDE DEF a, b
  <2> QED
    BY <2>2, <2>3, <2>4
<1> QED
  BY <1>2, <1>3 DEF next

LEMMA CompleteIsCounted ==
    ASSUME NEW s \in PictureState, Picture!IsGridClueComplete(s.userGrid)
    PROVE  Picture!Finish(s) \in PictureFinishes
<1> DEFINE g == [c \in Picture!Cells |-> s.userGrid[c] = "filled"]
           f == [finalGrid |-> g]
<1>1. Picture!Finish(s) = f /\ f.finalGrid = g
  BY DEF Picture!Finish
<1>2. \A c \in Picture!Cells : f.finalGrid[c] = (s.userGrid[c] = "filled")
  BY <1>1
<1>3. f \in [finalGrid : [Picture!Cells -> BOOLEAN]]
  OBVIOUS
<1> HIDE DEF f
<1>4. ASSUME NEW row \in Picture!Rows
      PROVE  Picture!LineRuns([col \in Picture!Cols |-> f.finalGrid[<<row, col>>]]) = RowClues[row]
  <2> DEFINE a == [col \in Picture!Cols |-> f.finalGrid[<<row, col>>]]
             b == [col \in Picture!Cols |-> s.userGrid[<<row, col>>] = "filled"]
  <2>1. a = b
    BY <1>2 DEF Picture!Cells
  <2>2. Picture!LineRuns(b) = RowClues[row]
    BY DEF Picture!IsGridClueComplete, Picture!IsRowClueMet
  <2> HIDE DEF a, b
  <2>3. Picture!LineRuns(a) = RowClues[row]
    BY <2>1, <2>2
  <2> QED
    BY <2>3 DEF a
<1>5. ASSUME NEW col \in Picture!Cols
      PROVE  Picture!LineRuns([row \in Picture!Rows |-> f.finalGrid[<<row, col>>]]) = ColClues[col]
  <2> DEFINE a == [row \in Picture!Rows |-> f.finalGrid[<<row, col>>]]
             b == [row \in Picture!Rows |-> s.userGrid[<<row, col>>] = "filled"]
  <2>1. a = b
    BY <1>2 DEF Picture!Cells
  <2>2. Picture!LineRuns(b) = ColClues[col]
    BY DEF Picture!IsGridClueComplete, Picture!IsColClueMet
  <2> HIDE DEF a, b
  <2>3. Picture!LineRuns(a) = ColClues[col]
    BY <2>1, <2>2
  <2> QED
    BY <2>3 DEF a
<1>6. CountedRight(f)
  BY <1>4, <1>5 DEF CountedRight
<1> QED
  BY <1>1, <1>3, <1>6 DEF PictureFinishes

LEMMA Painted ==
    ASSUME PictureInv, NEW c \in Picture!Cells, NEW cell \in {"empty", "filled", "marked"}, Picture!Paints(c, cell)
    PROVE  PictureInv'
<1> DEFINE grid == [state.userGrid EXCEPT ![c] = cell]
           complete == Picture!IsGridClueComplete(grid)
           rows == IF Picture!IsRowClueMet(grid, c[1]) THEN state.completedRows \cup {c[1]}
                                                       ELSE state.completedRows \ {c[1]}
           cols == IF Picture!IsColClueMet(grid, c[2]) THEN state.completedCols \cup {c[2]}
                                                       ELSE state.completedCols \ {c[2]}
           next == [state EXCEPT !.userGrid = grid, !.isComplete = complete,
                                 !.completedRows = rows, !.completedCols = cols]
<1>1. /\ state \in PictureState /\ ShownDone(state.userGrid, state.completedRows, state.completedCols)
      /\ ~state.isComplete /\ ended = FALSE /\ sent \in Seq(PictureFinishes)
  <2>1. ~state.isComplete
    BY DEF Picture!Paints
  <2> QED
    BY <2>1, PictureFields
<1>2. Picture!Shows(next, next.isComplete, Picture!Finish(next))
  BY DEF Picture!Paints
<1>3. state.userGrid \in PictureGrids /\ c[1] \in Picture!Rows /\ c[2] \in Picture!Cols
  BY <1>1 DEF PictureState, Picture!Cells
<1>4. grid \in PictureGrids /\ complete \in BOOLEAN /\ rows \in SUBSET Picture!Rows /\ cols \in SUBSET Picture!Cols
  <2>1. grid \in PictureGrids
    BY <1>3 DEF PictureGrids
  <2>2. complete \in BOOLEAN
    BY DEF Picture!IsGridClueComplete
  <2>3. rows \in SUBSET Picture!Rows /\ cols \in SUBSET Picture!Cols
    <3>1. state.completedRows \in SUBSET Picture!Rows /\ state.completedCols \in SUBSET Picture!Cols
      BY <1>1 DEF PictureState
    <3> HIDE DEF grid
    <3> QED
      BY <1>3, <3>1
  <2> QED
    BY <2>1, <2>2, <2>3
<1>5. /\ \A row \in Picture!Rows \ {c[1]} :
           Picture!IsRowClueMet(grid, row) <=> Picture!IsRowClueMet(state.userGrid, row)
      /\ \A col \in Picture!Cols \ {c[2]} :
           Picture!IsColClueMet(grid, col) <=> Picture!IsColClueMet(state.userGrid, col)
  BY <1>3, OtherLines
<1> HIDE DEF grid
<1>6. ShownDone(grid, rows, cols)
  <2>1. ASSUME NEW row \in Picture!Rows
        PROVE  /\ row \in rows => Picture!IsRowClueMet(grid, row)
               /\ Picture!IsRowClueMet(grid, row) /\ RowClues[row] # <<0>> => row \in rows
    BY <1>1, <1>5 DEF ShownDone
  <2>2. ASSUME NEW col \in Picture!Cols
        PROVE  /\ col \in cols => Picture!IsColClueMet(grid, col)
               /\ Picture!IsColClueMet(grid, col) /\ ColClues[col] # <<0>> => col \in cols
    BY <1>1, <1>5 DEF ShownDone
  <2> HIDE DEF rows, cols
  <2> QED
    BY <2>1, <2>2 DEF ShownDone
<1> HIDE DEF rows, cols, complete
<1>7. /\ next \in PictureState /\ next.userGrid = grid /\ next.isComplete = complete
      /\ next.completedRows = rows /\ next.completedCols = cols
  BY <1>1, <1>4 DEF PictureState
<1> HIDE DEF next
<1>8. complete => Picture!Finish(next) \in PictureFinishes
  BY <1>7, CompleteIsCounted DEF complete
<1>9. /\ state' = next /\ ended' = complete /\ sent' \in Seq(PictureFinishes)
      /\ complete => sent' # <<>> /\ sent'[Len(sent')] = Picture!Finish(next)
  <2>1. CASE complete
    <3>1. state' = next /\ ended' = TRUE /\ sent' = Append(sent, Picture!Finish(next))
      BY <1>1, <1>2, <1>7, <2>1 DEF Picture!Shows
    <3>2. sent' \in Seq(PictureFinishes) /\ sent' # <<>> /\ sent'[Len(sent')] = Picture!Finish(next)
      BY <1>1, <1>8, <2>1, <3>1
    <3>3. complete = TRUE
      BY <1>4, <2>1
    <3> QED
      BY <3>1, <3>2, <3>3
  <2>2. CASE ~complete
    <3>1. state' = next /\ ended' = ended /\ sent' = sent
      BY <1>2, <1>7, <2>2 DEF Picture!Shows
    <3>2. complete = FALSE
      BY <1>4, <2>2
    <3> QED
      BY <1>1, <3>1, <3>2
  <2> QED
    BY <2>1, <2>2
<1>10. PictureBoard(next, complete, sent')
  BY <1>4, <1>6, <1>7, <1>9 DEF PictureBoard, complete
<1> QED
  BY <1>9, <1>10 DEF PictureInv

LEMMA PictureStep == PictureInv /\ [Picture!Next]_boardVars => PictureInv'
<1> SUFFICES ASSUME PictureInv, [Picture!Next]_boardVars PROVE PictureInv'
  OBVIOUS
<1>1. \A c \in Picture!Cells : state.userGrid[c] \in {"empty", "filled", "marked"}
  BY PictureFields DEF PictureState, PictureGrids
<1>2. CASE Picture!ToggleCell
  <2>1. PICK c \in Picture!Cells : Picture!Paints(c, Picture!Toggled(state.userGrid[c], Picture!Primary))
    BY <1>2 DEF Picture!ToggleCell
  <2>2. Picture!Toggled(state.userGrid[c], Picture!Primary) \in {"empty", "filled", "marked"}
    BY <1>1, <2>1 DEF Picture!Toggled, Picture!Primary
  <2> QED
    BY <2>1, <2>2, Painted
<1>3. CASE Picture!SetCell
  <2>1. PICK c \in Picture!Cells : Picture!Paints(c, Picture!Toggled(state.userGrid[c], Picture!Secondary))
    BY <1>3 DEF Picture!SetCell
  <2>2. Picture!Toggled(state.userGrid[c], Picture!Secondary) \in {"empty", "filled", "marked"}
    BY <1>1, <2>1 DEF Picture!Toggled, Picture!Secondary
  <2> QED
    BY <2>1, <2>2, Painted
<1>4. CASE Picture!ToggleMode
  <2>1. /\ state' = [state EXCEPT !.fillMode = IF @ = "fill" THEN "mark" ELSE "fill"]
        /\ ended' = ended /\ sent' = sent
    BY <1>4 DEF Picture!ToggleMode, Picture!Plays
  <2>2. /\ state' \in PictureState /\ state'.userGrid = state.userGrid /\ state'.isComplete = state.isComplete
        /\ state'.completedRows = state.completedRows /\ state'.completedCols = state.completedCols
    BY <2>1, PictureFields DEF PictureState
  <2>3. Picture!Finish(state') = Picture!Finish(state)
    BY <2>2 DEF Picture!Finish
  <2> QED
    BY <2>1, <2>2, <2>3 DEF PictureInv, PictureBoard
<1>5. CASE UNCHANGED boardVars
  <2>1. state' = state /\ ended' = ended /\ sent' = sent
    BY <1>5 DEF boardVars
  <2> QED
    BY <2>1 DEF PictureInv
<1> QED
  BY <1>2, <1>3, <1>4, <1>5 DEF Picture!Next

(* Nonogram: judging only the lines through the painted cell is enough. A  *)
(* line shown as done meets its clue, one with something to fill that      *)
(* meets it is shown, the picture is complete exactly when every line      *)
(* meets its clue, a complete picture is handed over at once and is what   *)
(* was handed over last, and what is handed over meets every clue.         *)
THEOREM NonogramCorrect ==
    ASSUME PicturePuzzle
    PROVE  Picture!Init /\ [][Picture!Next]_boardVars =>
               [](/\ Picture!Legal /\ Picture!Explained /\ Picture!Finished
                  /\ \A i \in DOMAIN sent : Picture!Right(sent[i]))
<1>1. Picture!Init => PictureInv
  <2> SUFFICES ASSUME Picture!Init PROVE PictureInv
    OBVIOUS
  <2>1. /\ state = [userGrid |-> Blank, isComplete |-> FALSE, fillMode |-> "fill", completedRows |-> {},
                    completedCols |-> {}]
        /\ ended = FALSE /\ sent = <<>>
    BY DEF Picture!Init, Picture!Starts, Picture!InitialState, Blank
  <2>2. Blank \in PictureGrids
    BY DEF Blank, PictureGrids
  <2>3. <<>> \in Seq(PictureFinishes)
    OBVIOUS
  <2>4. ShownDone(Blank, {}, {})
    BY BlankLines DEF ShownDone
  <2>5. ~Picture!IsGridClueComplete(Blank)
    BY BlankLines DEF Picture!IsGridClueComplete, PicturePuzzle
  <2>6. state \in PictureState
    BY <2>1, <2>2 DEF PictureState
  <2> QED
    BY <2>1, <2>3, <2>4, <2>5, <2>6 DEF PictureInv, PictureBoard
<1>2. PictureInv /\ [Picture!Next]_boardVars => PictureInv'
  BY PictureStep
<1>3. PictureInv => /\ Picture!Legal /\ Picture!Explained /\ Picture!Finished
                    /\ \A i \in DOMAIN sent : Picture!Right(sent[i])
  <2> SUFFICES ASSUME PictureInv
               PROVE  /\ Picture!Legal /\ Picture!Explained /\ Picture!Finished
                      /\ \A i \in DOMAIN sent : Picture!Right(sent[i])
    OBVIOUS
  <2>1. state.completedRows \in SUBSET Picture!Rows /\ state.completedCols \in SUBSET Picture!Cols
    BY PictureFields DEF PictureState
  <2>2. Picture!Legal
    BY <2>1, PictureFields DEF Picture!Legal, ShownDone
  <2>3. Picture!Explained
    BY PictureFields DEF Picture!Explained, ShownDone
  <2>4. Picture!Finished
    BY PictureFields DEF Picture!Finished, Picture!Last
  <2>5. \A i \in DOMAIN sent : Picture!Right(sent[i])
    <3>1. \A i \in DOMAIN sent : sent[i] \in PictureFinishes
      BY PictureFields
    <3> QED
      BY <3>1, CountedIsRight DEF PictureFinishes
  <2> QED
    BY <2>2, <2>3, <2>4, <2>5
<1> QED
  BY <1>1, <1>2, <1>3, PTL

------------------------------------------------------------------------------
(* Pip Place.                                                              *)
CONSTANTS MaxPip, Rows, Cols, RegionOf, SpotRegions, MaxPast
Spots == INSTANCE PipPlace WITH Regions <- SpotRegions

SpotsPuzzle ==
    /\ MaxPip \in Nat
    /\ \A c \in Spots!Cells : RegionOf[c] \in DOMAIN SpotRegions

Pips == 0..MaxPip
TileFaces == [pa : Pips, pb : Pips]
Tiles == [a : Spots!Cells, b : Spots!Cells, pa : Pips, pb : Pips]
PairsOf(s) == {Spots!SortedPair(s[i]) : i \in DOMAIN s}

(* Tiles lie on neighbouring cells and not over one another.               *)
LaidOut(placed) ==
    /\ placed \in Seq(Tiles)
    /\ \A i \in DOMAIN placed : Spots!IsOrthogonalNeighbor(placed[i].a, placed[i].b)
    /\ \A i, j \in DOMAIN placed : {placed[i].a, placed[i].b} \cap {placed[j].a, placed[j].b} # {} => i = j

(* Board and tray together are the set of tiles.                           *)
WholeSet(placed, tray) ==
    /\ LaidOut(placed) /\ tray \in Seq(TileFaces)
    /\ Len(placed) + Len(tray) = Cardinality(Spots!DoubleSet)
    /\ PairsOf(placed) \cup PairsOf(tray) = Spots!DoubleSet

Unsolved(placed, tray) == WholeSet(placed, tray) /\ ~Spots!IsSolved(placed)

Untouched(placed, tray) == placed = <<>> /\ tray = Spots!InitialTray

Snapshots == {p \in [placed : Seq(Tiles), tray : Seq(TileFaces)] : Unsolved(p.placed, p.tray)}

(* The history begins at the untouched board.                              *)
HistoryOf(past, placed, tray) ==
    /\ past \in Seq(Snapshots)
    /\ past = <<>> => Untouched(placed, tray)
    /\ past # <<>> => Untouched(past[1].placed, past[1].tray)

SpotsFields == {"placed", "tray", "selectedTrayIndex", "pending", "gameStatus", "past"}

SpotsFinishes == {f \in [tiles : Seq(Tiles)] : Spots!Right(f)}

SpotsBoard(s, over, finishes) ==
    /\ DOMAIN s = SpotsFields
    /\ WholeSet(s.placed, s.tray) /\ HistoryOf(s.past, s.placed, s.tray)
    /\ s.selectedTrayIndex \in 0..Len(s.tray)
    /\ s.pending \in {<<>>} \cup Spots!Cells
    /\ s.pending # <<>> => s.selectedTrayIndex # 0 /\ Spots!OccupyingTile(s.placed, s.pending) = {}
    /\ s.gameStatus \in {"playing", "won"} /\ (s.gameStatus = "won" <=> Spots!IsSolved(s.placed))
    /\ over = (s.gameStatus = "won")
    /\ finishes \in Seq(SpotsFinishes)
    /\ over => finishes # <<>> /\ Last(finishes) = [tiles |-> s.placed]

SpotsInv == SpotsBoard(state, ended, sent)

LEMMA SpotsCounts == ASSUME NEW S PROVE Spots!Cardinality(S) = Cardinality(S)
  BY DEF Spots!Cardinality, Cardinality

LEMMA SetOfTiles ==
    ASSUME SpotsPuzzle
    PROVE  /\ IsFiniteSet(Spots!DoubleSet) /\ Cardinality(Spots!DoubleSet) \in Nat
           /\ Cardinality(Spots!DoubleSet) # 0
           /\ \A p \in Spots!DoubleSet : p = <<p[1], p[2]>> /\ p[1] \in Pips /\ p[2] \in Pips /\ p[1] =< p[2]
<1>1. IsFiniteSet(0..MaxPip)
  BY FS_Interval DEF SpotsPuzzle
<1>2. IsFiniteSet((0..MaxPip) \X (0..MaxPip))
  BY <1>1, FS_Product
<1>3. IsFiniteSet(Spots!DoubleSet)
  BY <1>2, FS_Subset DEF Spots!DoubleSet
<1>4. <<0, 0>> \in Spots!DoubleSet
  BY DEF Spots!DoubleSet, SpotsPuzzle
<1>5. Cardinality(Spots!DoubleSet) # 0
  BY <1>3, <1>4, FS_EmptySet
<1>6. \A p \in Spots!DoubleSet : p = <<p[1], p[2]>> /\ p[1] \in Pips /\ p[2] \in Pips /\ p[1] =< p[2]
  BY DEF Spots!DoubleSet, Pips
<1> QED
  BY <1>3, <1>5, <1>6, FS_CardinalityType

(* The pairs up to a pair, in the order of the set.                        *)
UpTo(p) == {q \in Spots!DoubleSet : q[1] < p[1] \/ (q[1] = p[1] /\ q[2] =< p[2])}

LEMMA FewerUpTo ==
    ASSUME SpotsPuzzle, NEW p \in Spots!DoubleSet, NEW q \in Spots!DoubleSet, p # q,
           p[1] < q[1] \/ (p[1] = q[1] /\ p[2] =< q[2])
    PROVE  Cardinality(UpTo(p)) # Cardinality(UpTo(q))
<1>1. \A r \in Spots!DoubleSet : r = <<r[1], r[2]>> /\ r[1] \in Nat /\ r[2] \in Nat
  BY SetOfTiles DEF Pips, SpotsPuzzle
<1>2. UpTo(p) \subseteq UpTo(q)
  BY <1>1 DEF UpTo
<1>3. q \in UpTo(q)
  BY <1>1 DEF UpTo
<1>4. q \notin UpTo(p)
  <2>1. p[1] # q[1] \/ p[2] # q[2]
    BY <1>1
  <2> QED
    BY <1>1, <2>1 DEF UpTo
<1>5. IsFiniteSet(UpTo(q))
  BY SetOfTiles, FS_Subset DEF UpTo
<1> QED
  BY <1>2, <1>3, <1>4, <1>5, FS_Subset

(* The tray starts with every tile of the set, each once.                  *)
LEMMA FullTray ==
    ASSUME SpotsPuzzle
    PROVE  /\ Spots!InitialTray \in Seq(TileFaces) /\ Len(Spots!InitialTray) = Cardinality(Spots!DoubleSet)
           /\ PairsOf(Spots!InitialTray) = Spots!DoubleSet
<1> DEFINE D == Spots!DoubleSet
           n == Cardinality(D)
           place == [p \in D |-> Cardinality(UpTo(p))]
           Pair(i) == CHOOSE p \in D : Cardinality(UpTo(p)) = i
           tray == [i \in 1..n |-> [pa |-> Pair(i)[1], pb |-> Pair(i)[2]]]
<1>1. n \in Nat /\ IsFiniteSet(D) /\ n # 0
  BY SetOfTiles
<1>2. \A p \in D : p = <<p[1], p[2]>> /\ p[1] \in Pips /\ p[2] \in Pips /\ p[1] =< p[2] /\ p[1] \in Nat /\ p[2] \in Nat
  BY SetOfTiles DEF Pips, SpotsPuzzle
<1>3. Spots!InitialTray = tray
  <2>1. \A S : Spots!Cardinality(S) = Cardinality(S)
    BY SpotsCounts
  <2> QED
    BY <2>1 DEF Spots!InitialTray, UpTo
<1>4. \A p \in D : place[p] \in 1..n
  <2> TAKE p \in D
  <2>1. p \in UpTo(p) /\ UpTo(p) \subseteq D
    BY <1>2 DEF UpTo
  <2>2. IsFiniteSet(UpTo(p)) /\ Cardinality(UpTo(p)) =< n
    BY <1>1, <2>1, FS_Subset
  <2>3. Cardinality(UpTo(p)) \in Nat /\ Cardinality(UpTo(p)) # 0
    BY <2>1, <2>2, FS_CardinalityType, FS_EmptySet
  <2> QED
    BY <1>1, <2>2, <2>3
<1>5. \A p, q \in D : place[p] = place[q] => p = q
  <2> SUFFICES ASSUME NEW p \in D, NEW q \in D, p # q PROVE Cardinality(UpTo(p)) # Cardinality(UpTo(q))
    OBVIOUS
  <2>1. (p[1] < q[1] \/ (p[1] = q[1] /\ p[2] =< q[2])) \/ (q[1] < p[1] \/ (q[1] = p[1] /\ q[2] =< p[2]))
    BY <1>2
  <2> QED
    BY <2>1, FewerUpTo
<1>6. IsFiniteSet(1..n) /\ Cardinality(1..n) = n
  BY <1>1, FirstNumbers
<1>7. \A i \in 1..n : \E p \in D : place[p] = i
  <2>1. place \in [D -> 1..n]
    BY <1>4
  <2> DEFINE T == 1..n
  <2>2. place \in [D -> T] /\ Cardinality(D) = Cardinality(T) /\ IsFiniteSet(T)
    BY <1>6, <2>1
  <2> HIDE DEF place, n, D, T
  <2>3. \A t \in T : \E p \in D : place[p] = t
    BY <1>5, <2>2, Onto
  <2> QED
    BY <2>3 DEF T
<1>8. \A i \in 1..n : Pair(i) \in D /\ Cardinality(UpTo(Pair(i))) = i
  BY <1>7
<1>9. \A p \in D : Pair(Cardinality(UpTo(p))) = p
  BY <1>4, <1>5, <1>8
<1> HIDE DEF Pair
<1>10. tray \in Seq(TileFaces) /\ Len(tray) = n
  <2>1. \A i \in 1..n : [pa |-> Pair(i)[1], pb |-> Pair(i)[2]] \in TileFaces
    BY <1>2, <1>8 DEF TileFaces
  <2> HIDE DEF n
  <2> QED
    BY <1>1, <2>1
<1>11. \A i \in 1..n : Spots!SortedPair(tray[i]) = Pair(i)
  BY <1>2, <1>8 DEF Spots!SortedPair
<1>12. PairsOf(tray) = D
  <2>1. DOMAIN tray = 1..n
    OBVIOUS
  <2> HIDE DEF tray
  <2>2. \A p \in D : \E i \in 1..n : Pair(i) = p
    BY <1>4, <1>9
  <2> QED
    BY <1>8, <1>11, <2>1, <2>2 DEF PairsOf
<1> QED
  BY <1>3, <1>10, <1>12

LEMMA PairsFurther ==
    ASSUME NEW S, NEW s \in Seq(S), NEW t \in S
    PROVE  PairsOf(Append(s, t)) = PairsOf(s) \cup {Spots!SortedPair(t)}
<1> DEFINE q == Append(s, t)
<1>1. /\ Len(s) \in Nat /\ DOMAIN s = 1..Len(s) /\ DOMAIN q = 1..(Len(s) + 1) /\ q[Len(s) + 1] = t
      /\ \A i \in 1..Len(s) : q[i] = s[i]
  OBVIOUS
<1> HIDE DEF q
<1>2. PairsOf(q) = PairsOf(s) \cup {Spots!SortedPair(t)}
  BY <1>1 DEF PairsOf
<1> QED
  BY <1>2 DEF q

LEMMA PairsWithout ==
    ASSUME NEW S, NEW s \in Seq(S), NEW k \in DOMAIN s
    PROVE  PairsOf(RemoveAt(s, k)) \cup {Spots!SortedPair(s[k])} = PairsOf(s)
<1> DEFINE q == RemoveAt(s, k)
<1>1. /\ DOMAIN q = 1..(Len(s) - 1) /\ \A j \in 1..(Len(s) - 1) : q[j] = IF j < k THEN s[j] ELSE s[j + 1]
  BY Removed
<1>2. Len(s) \in Nat /\ DOMAIN s = 1..Len(s) /\ k \in 1..Len(s)
  OBVIOUS
<1> HIDE DEF q
<1>3. \A j \in DOMAIN q : \E i \in DOMAIN s : q[j] = s[i]
  BY <1>1, <1>2
<1>4. \A i \in DOMAIN s : i = k \/ \E j \in DOMAIN q : q[j] = s[i]
  <2> TAKE i \in DOMAIN s
  <2>1. CASE i < k
    <3>1. i \in 1..(Len(s) - 1) /\ q[i] = s[i]
      BY <1>1, <1>2, <2>1
    <3> QED
      BY <1>1, <3>1
  <2>2. CASE i > k
    <3>1. i - 1 \in 1..(Len(s) - 1) /\ ~(i - 1 < k) /\ (i - 1) + 1 = i
      BY <1>2, <2>2
    <3>2. q[i - 1] = s[i]
      BY <1>1, <3>1
    <3> QED
      BY <1>1, <3>1, <3>2
  <2> QED
    BY <1>2, <2>1, <2>2
<1>5. PairsOf(q) \cup {Spots!SortedPair(s[k])} = PairsOf(s)
  BY <1>3, <1>4 DEF PairsOf
<1> QED
  BY <1>5 DEF q

LEMMA PairsTogether ==
    ASSUME NEW S, NEW s \in Seq(S), NEW T, NEW t \in Seq(T)
    PROVE  Len(s \o t) = Len(s) + Len(t) /\ PairsOf(s \o t) = PairsOf(s) \cup PairsOf(t)
<1> DEFINE q == s \o t
<1>1. Len(s) \in Nat /\ DOMAIN s = 1..Len(s) /\ Len(t) \in Nat /\ DOMAIN t = 1..Len(t)
  OBVIOUS
<1>2. s \in Seq(S \cup T) /\ t \in Seq(S \cup T)
  OBVIOUS
<1>3. /\ Len(q) = Len(s) + Len(t) /\ DOMAIN q = 1..(Len(s) + Len(t))
      /\ \A i \in 1..Len(s) : q[i] = s[i]
      /\ \A i \in 1..Len(t) : q[Len(s) + i] = t[i]
  BY <1>1, <1>2
<1> HIDE DEF q
<1>4. \A i \in DOMAIN q : i \in 1..Len(s) \/ \E j \in 1..Len(t) : i = Len(s) + j
  <2> TAKE i \in DOMAIN q
  <2>1. CASE i > Len(s)
    <3>1. i - Len(s) \in 1..Len(t) /\ i = Len(s) + (i - Len(s))
      BY <1>1, <1>3, <2>1
    <3> QED
      BY <3>1
  <2> QED
    BY <1>1, <1>3, <2>1
<1>5. /\ \A i \in DOMAIN q : (\E j \in DOMAIN s : q[i] = s[j]) \/ (\E j \in DOMAIN t : q[i] = t[j])
  BY <1>1, <1>3, <1>4
<1>6. (\A j \in DOMAIN s : \E i \in DOMAIN q : q[i] = s[j]) /\ (\A j \in DOMAIN t : \E i \in DOMAIN q : q[i] = t[j])
  BY <1>1, <1>3
<1>7. PairsOf(q) = PairsOf(s) \cup PairsOf(t)
  BY <1>5, <1>6 DEF PairsOf
<1> QED
  BY <1>3, <1>7 DEF q

LEMMA OneTile ==
    ASSUME NEW placed, LaidOut(placed), NEW c
    PROVE  Spots!Cardinality(Spots!OccupyingTile(placed, c)) =< 1
<1> DEFINE occ == Spots!OccupyingTile(placed, c)
<1>1. \A i, j \in occ : i = j
  BY DEF LaidOut, Spots!OccupyingTile
<1>2. Spots!Cardinality(occ) = Cardinality(occ)
  BY SpotsCounts
<1> HIDE DEF occ
<1>3. CASE occ = {}
  <2>1. Cardinality(occ) = 0
    BY <1>3, FS_EmptySet
  <2> QED
    BY <1>2, <2>1 DEF occ
<1>4. CASE occ # {}
  <2>1. PICK i \in occ : TRUE
    BY <1>4
  <2>2. occ = {i}
    BY <1>1, <2>1
  <2>3. Cardinality(occ) = 1
    BY <2>2, FS_Singleton
  <2>4. Spots!Cardinality(occ) =< 1
    BY <1>2, <2>3
  <2> QED
    BY <2>4 DEF occ
<1> QED
  BY <1>3, <1>4

(* A tile of the tray is laid on two free neighbouring cells.              *)
LEMMA Laid ==
    ASSUME NEW placed, NEW tray, WholeSet(placed, tray), NEW k \in DOMAIN tray,
           NEW a \in Spots!Cells, NEW b \in Spots!Cells, Spots!IsOrthogonalNeighbor(a, b),
           Spots!OccupyingTile(placed, a) = {}, Spots!OccupyingTile(placed, b) = {},
           NEW tile, tile = [a |-> a, b |-> b, pa |-> tray[k].pa, pb |-> tray[k].pb]
    PROVE  WholeSet(Append(placed, tile), RemoveAt(tray, k))
<1> DEFINE more == Append(placed, tile)
           rest == RemoveAt(tray, k)
<1>1. /\ placed \in Seq(Tiles) /\ Len(placed) \in Nat /\ DOMAIN placed = 1..Len(placed)
      /\ tray \in Seq(TileFaces) /\ Len(tray) \in Nat /\ DOMAIN tray = 1..Len(tray)
  BY DEF WholeSet, LaidOut
<1>2. tray[k] \in TileFaces
  BY <1>1
<1>3. /\ tile \in Tiles /\ tile.a = a /\ tile.b = b
      /\ Spots!SortedPair(tile) = Spots!SortedPair(tray[k])
  BY <1>2 DEF Tiles, TileFaces, Spots!SortedPair
<1>4. /\ more \in Seq(Tiles) /\ Len(more) = Len(placed) + 1 /\ DOMAIN more = 1..(Len(placed) + 1)
      /\ more[Len(placed) + 1] = tile /\ \A i \in 1..Len(placed) : more[i] = placed[i]
  BY <1>1, <1>3, SMTT(30)
<1>5. rest \in Seq(TileFaces) /\ Len(rest) = Len(tray) - 1
  BY <1>1, Removed, Zenon
<1>6. PairsOf(more) = PairsOf(placed) \cup {Spots!SortedPair(tile)}
  BY <1>1, <1>3, PairsFurther
<1>7. PairsOf(rest) \cup {Spots!SortedPair(tray[k])} = PairsOf(tray)
  BY <1>1, PairsWithout
<1> HIDE DEF more, rest
<1>8. Len(more) + Len(rest) = Cardinality(Spots!DoubleSet)
  BY <1>1, <1>4, <1>5 DEF WholeSet
<1>9. PairsOf(more) \cup PairsOf(rest) = Spots!DoubleSet
  BY <1>3, <1>6, <1>7 DEF WholeSet
<1>10. LaidOut(more)
  <2>1. \A i \in 1..Len(placed) : a \notin {placed[i].a, placed[i].b} /\ b \notin {placed[i].a, placed[i].b}
    BY <1>1 DEF Spots!OccupyingTile
  <2>2. \A i \in DOMAIN more : Spots!IsOrthogonalNeighbor(more[i].a, more[i].b)
    <3> TAKE i \in DOMAIN more
    <3>1. CASE i = Len(placed) + 1
      BY <1>3, <1>4, <3>1
    <3>2. CASE i \in 1..Len(placed)
      BY <1>1, <1>4, <3>2 DEF WholeSet, LaidOut
    <3> QED
      BY <1>1, <1>4, <3>1, <3>2
  <2>3. \A i, j \in DOMAIN more : {more[i].a, more[i].b} \cap {more[j].a, more[j].b} # {} => i = j
    <3> SUFFICES ASSUME NEW i \in DOMAIN more, NEW j \in DOMAIN more, i # j
                 PROVE  {more[i].a, more[i].b} \cap {more[j].a, more[j].b} = {}
      OBVIOUS
    <3>1. CASE i \in 1..Len(placed) /\ j \in 1..Len(placed)
      BY <1>1, <1>4, <3>1 DEF WholeSet, LaidOut
    <3>2. CASE i = Len(placed) + 1 /\ j \in 1..Len(placed)
      BY <1>3, <1>4, <2>1, <3>2
    <3>3. CASE j = Len(placed) + 1 /\ i \in 1..Len(placed)
      BY <1>3, <1>4, <2>1, <3>3
    <3> QED
      BY <1>1, <1>4, <3>1, <3>2, <3>3
  <2> QED
    BY <1>4, <2>2, <2>3 DEF LaidOut
<1> QED
  BY <1>5, <1>8, <1>9, <1>10 DEF WholeSet, more, rest

(* A tile goes back to the tray.                                           *)
LEMMA TakenUp ==
    ASSUME NEW placed, NEW tray, WholeSet(placed, tray), NEW k \in DOMAIN placed,
           NEW face, face = [pa |-> placed[k].pa, pb |-> placed[k].pb]
    PROVE  WholeSet(RemoveAt(placed, k), Append(tray, face)) /\ Len(Append(tray, face)) = Len(tray) + 1
<1> DEFINE rest == RemoveAt(placed, k)
           more == Append(tray, face)
<1>1. /\ placed \in Seq(Tiles) /\ Len(placed) \in Nat /\ DOMAIN placed = 1..Len(placed)
      /\ tray \in Seq(TileFaces) /\ Len(tray) \in Nat
  BY DEF WholeSet, LaidOut
<1>2. placed[k] \in Tiles
  BY <1>1
<1>3. face \in TileFaces /\ Spots!SortedPair(face) = Spots!SortedPair(placed[k])
  BY <1>2 DEF Tiles, TileFaces, Spots!SortedPair
<1>4. more \in Seq(TileFaces) /\ Len(more) = Len(tray) + 1
  BY <1>1, <1>3, SMTT(30)
<1>5. /\ rest \in Seq(Tiles) /\ Len(rest) = Len(placed) - 1 /\ DOMAIN rest = 1..(Len(placed) - 1)
      /\ \A j \in 1..(Len(placed) - 1) : rest[j] = IF j < k THEN placed[j] ELSE placed[j + 1]
  BY <1>1, Removed, Zenon
<1>6. PairsOf(more) = PairsOf(tray) \cup {Spots!SortedPair(face)}
  BY <1>1, <1>3, PairsFurther
<1>7. PairsOf(rest) \cup {Spots!SortedPair(placed[k])} = PairsOf(placed)
  BY <1>1, PairsWithout
<1> HIDE DEF more, rest
<1>8. Len(rest) + Len(more) = Cardinality(Spots!DoubleSet)
  BY <1>1, <1>4, <1>5 DEF WholeSet
<1>9. PairsOf(rest) \cup PairsOf(more) = Spots!DoubleSet
  BY <1>3, <1>6, <1>7 DEF WholeSet
<1> DEFINE from(j) == IF j < k THEN j ELSE j + 1
<1>10. \A j \in DOMAIN rest : from(j) \in DOMAIN placed /\ rest[j] = placed[from(j)]
  BY <1>1, <1>5
<1>11. \A i, j \in DOMAIN rest : from(i) = from(j) => i = j
  BY <1>1, <1>5
<1> HIDE DEF from
<1>12. LaidOut(rest)
  BY <1>5, <1>10, <1>11 DEF WholeSet, LaidOut
<1> QED
  BY <1>4, <1>8, <1>9, <1>12 DEF WholeSet, more, rest

(* A tile of the tray is turned.                                           *)
LEMMA TurnedOver ==
    ASSUME NEW placed, NEW tray, WholeSet(placed, tray), NEW k \in DOMAIN tray,
           NEW turned, turned = [tray EXCEPT ![k] = Spots!Turned(@)]
    PROVE  WholeSet(placed, turned) /\ Len(turned) = Len(tray)
<1>1. tray \in Seq(TileFaces) /\ tray[k] \in TileFaces
  BY DEF WholeSet
<1>2. Spots!Turned(tray[k]) \in TileFaces /\ Spots!SortedPair(Spots!Turned(tray[k])) = Spots!SortedPair(tray[k])
  <2>1. Spots!Turned(tray[k]) = [pa |-> tray[k].pb, pb |-> tray[k].pa] /\ tray[k].pa \in Pips /\ tray[k].pb \in Pips
    BY <1>1 DEF Spots!Turned, TileFaces
  <2>2. tray[k].pa \in Int /\ tray[k].pb \in Int
    BY <2>1 DEF Pips
  <2> QED
    BY <2>1, <2>2 DEF TileFaces, Spots!SortedPair
<1>3. turned \in Seq(TileFaces) /\ Len(turned) = Len(tray) /\ DOMAIN turned = DOMAIN tray
  BY <1>1, <1>2
<1>4. \A i \in DOMAIN tray : Spots!SortedPair(turned[i]) = Spots!SortedPair(tray[i])
  BY <1>1, <1>2
<1>5. PairsOf(turned) = PairsOf(tray)
  BY <1>3, <1>4 DEF PairsOf
<1> QED
  BY <1>3, <1>5 DEF WholeSet

LEMMA SpotsKeep ==
    ASSUME SpotsInv
    PROVE  /\ DOMAIN state = SpotsFields
           /\ WholeSet(state.placed, state.tray) /\ HistoryOf(state.past, state.placed, state.tray)
           /\ state.selectedTrayIndex \in 0..Len(state.tray)
           /\ state.pending \in {<<>>} \cup Spots!Cells
           /\ state.pending # <<>> =>
                state.selectedTrayIndex # 0 /\ Spots!OccupyingTile(state.placed, state.pending) = {}
           /\ state.gameStatus \in {"playing", "won"} /\ (state.gameStatus = "won" <=> Spots!IsSolved(state.placed))
           /\ ended = (state.gameStatus = "won")
           /\ sent \in Seq(SpotsFinishes)
           /\ ended => sent # <<>> /\ Last(sent) = [tiles |-> state.placed]
  BY DEF SpotsInv, SpotsBoard

(* A board and its tray join the history.                                  *)
LEMMA HistoryFurther ==
    ASSUME SpotsInv, state.gameStatus = "playing", NEW placed, NEW tray
    PROVE  HistoryOf(Spots!Past, placed, tray)
<1> DEFINE now == [placed |-> state.placed, tray |-> state.tray]
           past == state.past
           more == Append(past, now)
<1>1. WholeSet(state.placed, state.tray) /\ HistoryOf(past, state.placed, state.tray)
      /\ ~Spots!IsSolved(state.placed)
  BY SpotsKeep
<1>2. now \in Snapshots /\ now.placed = state.placed /\ now.tray = state.tray
  BY <1>1 DEF Snapshots, Unsolved, WholeSet, LaidOut
<1> HIDE DEF now
<1>3. past \in Seq(Snapshots)
  BY <1>1 DEF HistoryOf
<1>4. more \in Seq(Snapshots) /\ more # <<>> /\ more[1] = IF past = <<>> THEN now ELSE past[1]
  <2>1. /\ more \in Seq(Snapshots) /\ Len(more) = Len(past) + 1 /\ more[Len(past) + 1] = now
        /\ Len(past) \in Nat /\ \A i \in 1..Len(past) : more[i] = past[i]
    BY <1>2, <1>3
  <2>2. CASE past = <<>>
    <3>1. Len(past) = 0
      BY <2>2
    <3> QED
      BY <2>1, <2>2, <3>1
  <2>3. CASE past # <<>>
    <3>1. 1 \in 1..Len(past)
      BY <1>3, <2>3
    <3> QED
      BY <2>1, <2>3, <3>1
  <2> QED
    BY <2>2, <2>3
<1>5. Untouched(more[1].placed, more[1].tray)
  BY <1>1, <1>2, <1>4 DEF HistoryOf
<1>6. Spots!Past = more
  BY DEF Spots!Past, now
<1> HIDE DEF more
<1> QED
  BY <1>4, <1>5, <1>6 DEF HistoryOf

(* A covering of the grid by the whole set that meets every region's rule. *)
LEMMA SolvedSpots ==
    ASSUME SpotsPuzzle, NEW placed \in Seq(Tiles), Spots!IsSolved(placed)
    PROVE  [tiles |-> placed] \in SpotsFinishes
<1> DEFINE f == [tiles |-> placed]
<1>1. f \in [tiles : Seq(Tiles)] /\ f.tiles = placed
  OBVIOUS
<1> HIDE DEF f
<1>2. ASSUME NEW c \in Spots!Cells
      PROVE  Spots!OccupyingTile(placed, c) # {} /\ Spots!RegionHolds(placed, RegionOf[c])
  <2>1. Spots!Cardinality(Spots!OccupyingTile(placed, c)) = 1
    BY DEF Spots!IsSolved
  <2>2. Cardinality(Spots!OccupyingTile(placed, c)) = 1
    BY <2>1, SpotsCounts
  <2>3. Spots!OccupyingTile(placed, c) # {}
    <3>1. Cardinality({}) = 0
      BY FS_EmptySet
    <3> QED
      BY <2>2, <3>1, SMTT(30)
  <2>4. RegionOf[c] \in DOMAIN SpotRegions
    BY DEF SpotsPuzzle
  <2> QED
    BY <2>3, <2>4 DEF Spots!IsSolved
<1>3. Spots!Right(f)
  BY <1>1, <1>2 DEF Spots!Right
<1> QED
  BY <1>1, <1>3 DEF SpotsFinishes, f

(* A render after a tile was laid or taken up.                             *)
LEMMA SpotsChecked ==
    ASSUME SpotsPuzzle, SpotsInv, state.gameStatus = "playing",
           NEW placed, NEW tray, WholeSet(placed, tray), NEW selected \in 0..Len(tray),
           Spots!WithWinCheck(placed, tray, selected)
    PROVE  SpotsInv'
<1> DEFINE won  == Spots!IsSolved(placed)
           past == Spots!Past
           status == IF won THEN "won" ELSE "playing"
           next == [placed |-> placed, tray |-> tray, selectedTrayIndex |-> selected, pending |-> <<>>,
                    gameStatus |-> status, past |-> past]
           data == [tiles |-> placed]
<1>1. ended = FALSE /\ sent \in Seq(SpotsFinishes)
  BY SpotsKeep
<1>2. HistoryOf(past, placed, tray)
  BY HistoryFurther
<1>3. placed \in Seq(Tiles)
  BY DEF WholeSet, LaidOut
<1>4. won => data \in SpotsFinishes
  BY <1>3, SolvedSpots
<1>5. DOMAIN next = SpotsFields /\ next.placed = placed /\ next.tray = tray /\ next.selectedTrayIndex = selected
      /\ next.pending = <<>> /\ next.gameStatus = status /\ next.past = past
  BY DEF SpotsFields
<1>6. Shows(next, won, data)
  BY <1>5 DEF Spots!WithWinCheck, Spots!Shows, Shows, Spots!Finish
<1> DEFINE over == status = "won"
<1>7. over \in BOOLEAN /\ (over <=> won) /\ status \in {"playing", "won"}
  OBVIOUS
<1>8. Shows(next, over, data)
  BY <1>6, <1>7 DEF Shows
<1>9. over => data \in SpotsFinishes
  BY <1>4, <1>7
<1> HIDE DEF next, over, data, past, status
<1>10. /\ state' = next /\ ended' = over /\ sent' \in Seq(SpotsFinishes)
       /\ over => sent' # <<>> /\ Last(sent') = data
  BY <1>1, <1>7, <1>8, <1>9, Render
<1>11. SpotsBoard(next, over, sent')
  BY <1>2, <1>5, <1>7, <1>10 DEF SpotsBoard, data, over
<1> QED
  BY <1>10, <1>11 DEF SpotsInv

(* A render of a board that is still played.                               *)
LEMMA SpotsPlayed ==
    ASSUME SpotsInv, state.gameStatus = "playing", NEW next, DOMAIN next = SpotsFields,
           WholeSet(next.placed, next.tray), ~Spots!IsSolved(next.placed),
           HistoryOf(next.past, next.placed, next.tray),
           next.selectedTrayIndex \in 0..Len(next.tray), next.pending \in {<<>>} \cup Spots!Cells,
           next.pending # <<>> =>
             next.selectedTrayIndex # 0 /\ Spots!OccupyingTile(next.placed, next.pending) = {},
           next.gameStatus = "playing", Spots!Plays(next)
    PROVE  SpotsInv'
<1>1. state' = next /\ ended' = FALSE /\ sent' = sent /\ sent \in Seq(SpotsFinishes)
  BY SpotsKeep DEF Spots!Plays
<1>2. SpotsBoard(next, FALSE, sent)
  BY <1>1 DEF SpotsBoard
<1> QED
  BY <1>1, <1>2 DEF SpotsInv

LEMMA SpotsStart ==
    ASSUME SpotsPuzzle
    PROVE  LET s == Spots!CreateInitialState
           IN  /\ DOMAIN s = SpotsFields /\ Unsolved(s.placed, s.tray) /\ HistoryOf(s.past, s.placed, s.tray)
               /\ s.selectedTrayIndex = 0 /\ s.pending = <<>> /\ s.gameStatus = "playing" /\ 0 \in 0..Len(s.tray)
<1> DEFINE s == Spots!CreateInitialState
           tray == Spots!InitialTray
<1>1. /\ DOMAIN s = SpotsFields /\ s.placed = <<>> /\ s.tray = tray /\ s.past = <<>>
      /\ s.selectedTrayIndex = 0 /\ s.pending = <<>> /\ s.gameStatus = "playing"
  BY DEF Spots!CreateInitialState, SpotsFields
<1> HIDE DEF s, tray
<1>2. tray \in Seq(TileFaces) /\ Len(tray) = Cardinality(Spots!DoubleSet) /\ PairsOf(tray) = Spots!DoubleSet
  BY FullTray DEF tray
<1>3. <<>> \in Seq(Tiles) /\ <<>> \in Seq(Snapshots) /\ Len(<<>>) = 0 /\ DOMAIN <<>> = {} /\ PairsOf(<<>>) = {}
  BY DEF PairsOf
<1>4. WholeSet(<<>>, tray)
  BY <1>2, <1>3, SetOfTiles DEF WholeSet, LaidOut
<1>5. ~Spots!IsSolved(<<>>)
  BY <1>3, SetOfTiles, SpotsCounts DEF Spots!IsSolved
<1>6. HistoryOf(<<>>, <<>>, tray)
  BY <1>3 DEF HistoryOf, Untouched, tray
<1>7. 0 \in 0..Len(tray)
  BY <1>2
<1> QED
  BY <1>1, <1>4, <1>5, <1>6, <1>7 DEF Unsolved, s

LEMMA SpotsStep == SpotsPuzzle /\ SpotsInv /\ [Spots!Next]_boardVars => SpotsInv'
<1> SUFFICES ASSUME SpotsPuzzle, SpotsInv, [Spots!Next]_boardVars PROVE SpotsInv'
  OBVIOUS
<1>0. /\ DOMAIN state = SpotsFields
      /\ WholeSet(state.placed, state.tray) /\ HistoryOf(state.past, state.placed, state.tray)
      /\ state.selectedTrayIndex \in 0..Len(state.tray)
      /\ state.pending \in {<<>>} \cup Spots!Cells
      /\ state.pending # <<>> =>
           state.selectedTrayIndex # 0 /\ Spots!OccupyingTile(state.placed, state.pending) = {}
      /\ state.gameStatus \in {"playing", "won"} /\ (state.gameStatus = "won" <=> Spots!IsSolved(state.placed))
  BY SpotsKeep
<1> DEFINE chosen == state.selectedTrayIndex
<1>1. /\ state.tray \in Seq(TileFaces) /\ Len(state.tray) \in Nat /\ DOMAIN state.tray = 1..Len(state.tray)
      /\ state.placed \in Seq(Tiles) /\ Spots!Chosen = chosen
  BY <1>0 DEF WholeSet, LaidOut, Spots!Chosen
<1>2. chosen # 0 => chosen \in DOMAIN state.tray
  BY <1>0, <1>1
<1>3. CASE Spots!SelectTray
  <2>1. PICK i \in DOMAIN state.tray : Spots!Plays([state EXCEPT !.selectedTrayIndex = i, !.pending = <<>>])
    BY <1>3 DEF Spots!SelectTray
  <2>2. state.gameStatus = "playing"
    BY <1>3 DEF Spots!SelectTray, Spots!Playing
  <2> DEFINE next == [state EXCEPT !.selectedTrayIndex = i, !.pending = <<>>]
  <2>3. /\ DOMAIN next = SpotsFields /\ next.placed = state.placed /\ next.tray = state.tray /\ next.past = state.past
        /\ next.selectedTrayIndex = i /\ next.pending = <<>> /\ next.gameStatus = state.gameStatus
    BY <1>0 DEF SpotsFields
  <2>4. Spots!Plays(next) /\ i \in 0..Len(state.tray)
    BY <1>1, <2>1
  <2> HIDE DEF next
  <2> QED
    BY <1>0, <2>2, <2>3, <2>4, SpotsPlayed
<1>4. CASE Spots!Rotate
  <2>1. PICK pending \in {<<>>, state.pending} :
          Spots!Plays([state EXCEPT !.tray[chosen] = Spots!Turned(@), !.past = Spots!Past, !.pending = pending])
    BY <1>1, <1>4 DEF Spots!Rotate
  <2>2. state.gameStatus = "playing" /\ chosen # 0
    BY <1>1, <1>4 DEF Spots!Rotate, Spots!Playing
  <2> DEFINE turned == [state.tray EXCEPT ![chosen] = Spots!Turned(@)]
             next == [state EXCEPT !.tray[chosen] = Spots!Turned(@), !.past = Spots!Past, !.pending = pending]
  <2>3. /\ DOMAIN next = SpotsFields /\ next.placed = state.placed /\ next.tray = turned /\ next.past = Spots!Past
        /\ next.selectedTrayIndex = chosen /\ next.pending = pending /\ next.gameStatus = state.gameStatus
    BY <1>0 DEF SpotsFields
  <2>4. Spots!Plays(next)
    BY <2>1
  <2>5. WholeSet(state.placed, turned) /\ Len(turned) = Len(state.tray)
    BY <1>0, <1>2, <2>2, TurnedOver
  <2> HIDE DEF next, turned
  <2>6. HistoryOf(Spots!Past, state.placed, turned)
    BY <2>2, HistoryFurther
  <2>7. /\ WholeSet(next.placed, next.tray) /\ ~Spots!IsSolved(next.placed)
        /\ HistoryOf(next.past, next.placed, next.tray)
    BY <1>0, <2>2, <2>3, <2>5, <2>6
  <2>8. /\ next.selectedTrayIndex \in 0..Len(next.tray) /\ next.pending \in {<<>>} \cup Spots!Cells
        /\ next.pending # <<>> =>
             next.selectedTrayIndex # 0 /\ Spots!OccupyingTile(next.placed, next.pending) = {}
        /\ next.gameStatus = "playing"
    BY <1>0, <2>2, <2>3, <2>5
  <2> QED
    BY <2>2, <2>3, <2>4, <2>7, <2>8, SpotsPlayed
<1>5. CASE Spots!PickUp
  <2>1. PICK i \in DOMAIN state.placed :
          LET tile == state.placed[i]
          IN Spots!WithWinCheck(RemoveAt(state.placed, i),
                                Append(state.tray, [pa |-> tile.pa, pb |-> tile.pb]), Len(state.tray) + 1)
    BY <1>5 DEF Spots!PickUp, Spots!RemoveAt, RemoveAt
  <2>2. state.gameStatus = "playing"
    BY <1>5 DEF Spots!PickUp, Spots!Playing
  <2> DEFINE face == [pa |-> state.placed[i].pa, pb |-> state.placed[i].pb]
             rest == RemoveAt(state.placed, i)
             more == Append(state.tray, face)
  <2>3. WholeSet(rest, more) /\ Len(more) = Len(state.tray) + 1
    BY <1>0, TakenUp
  <2>4. Spots!WithWinCheck(rest, more, Len(state.tray) + 1)
    BY <2>1
  <2> HIDE DEF face, rest, more
  <2>5. Len(state.tray) + 1 \in 0..Len(more)
    BY <1>1, <2>3
  <2> QED
    BY <2>2, <2>3, <2>4, <2>5, SpotsChecked
<1>6. CASE Spots!TouchFree
  <2>1. PICK c \in Spots!Cells :
          /\ Spots!OccupyingTile(state.placed, c) = {}
          /\ Spots!Plays([state EXCEPT !.pending = IF @ = c THEN <<>> ELSE c])
    BY <1>6 DEF Spots!TouchFree
  <2>2. state.gameStatus = "playing" /\ chosen # 0
    BY <1>1, <1>6 DEF Spots!TouchFree, Spots!Playing
  <2> DEFINE pending == IF state.pending = c THEN <<>> ELSE c
             next == [state EXCEPT !.pending = IF @ = c THEN <<>> ELSE c]
  <2>3. /\ DOMAIN next = SpotsFields /\ next.placed = state.placed /\ next.tray = state.tray /\ next.past = state.past
        /\ next.selectedTrayIndex = chosen /\ next.pending = pending /\ next.gameStatus = state.gameStatus
    BY <1>0 DEF SpotsFields
  <2>4. Spots!Plays(next) /\ (pending = <<>> \/ pending = c)
    BY <2>1
  <2> HIDE DEF next, pending
  <2> QED
    BY <1>0, <2>1, <2>2, <2>3, <2>4, SpotsPlayed
<1>7. CASE Spots!Place
  <2>1. PICK c \in Spots!Cells :
          /\ Spots!OccupyingTile(state.placed, c) = {} /\ Spots!IsOrthogonalNeighbor(state.pending, c)
          /\ LET face == state.tray[chosen]
                 tile == [a |-> state.pending, b |-> c, pa |-> face.pa, pb |-> face.pb]
             IN Spots!WithWinCheck(Append(state.placed, tile), RemoveAt(state.tray, chosen), 0)
    BY <1>1, <1>7 DEF Spots!Place, Spots!RemoveAt, RemoveAt
  <2>2. state.gameStatus = "playing" /\ chosen # 0 /\ state.pending # <<>>
    BY <1>1, <1>7 DEF Spots!Place, Spots!Playing
  <2> DEFINE tile == [a |-> state.pending, b |-> c, pa |-> state.tray[chosen].pa, pb |-> state.tray[chosen].pb]
             more == Append(state.placed, tile)
             rest == RemoveAt(state.tray, chosen)
  <2>3. /\ state.pending \in Spots!Cells /\ Spots!OccupyingTile(state.placed, state.pending) = {}
        /\ chosen \in DOMAIN state.tray
    BY <1>0, <1>2, <2>2
  <2>4. Spots!WithWinCheck(more, rest, 0)
    BY <2>1
  <2> HIDE DEF tile
  <2>5. WholeSet(more, rest)
    <3>1. tile = [a |-> state.pending, b |-> c, pa |-> state.tray[chosen].pa, pb |-> state.tray[chosen].pb]
      BY DEF tile
    <3> QED
      BY <1>0, <2>1, <2>3, <3>1, Laid
  <2> HIDE DEF more, rest
  <2>6. 0 \in 0..Len(rest)
    BY <2>5 DEF WholeSet
  <2> QED
    BY <2>2, <2>4, <2>5, <2>6, SpotsChecked
<1>8. CASE Spots!Undo
  <2> DEFINE past == state.past
             prev == past[Len(past)]
             front == SubSeq(past, 1, Len(past) - 1)
             next == [state EXCEPT !.placed = prev.placed, !.tray = prev.tray, !.selectedTrayIndex = 0,
                                   !.pending = <<>>, !.past = front]
  <2>1. state.gameStatus = "playing" /\ past # <<>> /\ Spots!Plays(next)
    BY <1>8 DEF Spots!Undo, Spots!Playing, Spots!Last, Spots!Front
  <2>2. past \in Seq(Snapshots) /\ Len(past) \in Nat /\ Len(past) # 0
    BY <1>0, <2>1 DEF HistoryOf
  <2>3. prev \in Snapshots
    BY <2>2
  <2>4. front \in Seq(Snapshots) /\ Len(front) = Len(past) - 1 /\ \A i \in 1..Len(front) : front[i] = past[i]
    BY <2>2
  <2>5. /\ DOMAIN next = SpotsFields /\ next.placed = prev.placed /\ next.tray = prev.tray /\ next.past = front
        /\ next.selectedTrayIndex = 0 /\ next.pending = <<>> /\ next.gameStatus = state.gameStatus
    BY <1>0 DEF SpotsFields
  <2>6. Untouched(past[1].placed, past[1].tray)
    BY <1>0, <2>1 DEF HistoryOf
  <2>7. HistoryOf(front, prev.placed, prev.tray)
    <3>1. CASE Len(past) = 1
      <4>1. Len(front) = 0 /\ prev = past[1]
        BY <2>4, <3>1
      <4> HIDE DEF front, prev
      <4>2. front = <<>>
        BY <2>4, <4>1
      <4> QED
        BY <2>4, <2>6, <4>1, <4>2 DEF HistoryOf
    <3>2. CASE Len(past) # 1
      <4> HIDE DEF front, prev, past
      <4>1. Len(front) # 0 /\ 1 \in 1..Len(front)
        BY <2>2, <2>4, <3>2
      <4>2. front[1] = past[1]
        BY <2>4, <4>1
      <4>3. front # <<>>
        BY <2>4, <4>1
      <4> QED
        BY <2>4, <2>6, <4>2, <4>3 DEF HistoryOf
    <3> QED
      BY <3>1, <3>2
  <2>8. WholeSet(prev.placed, prev.tray) /\ ~Spots!IsSolved(prev.placed)
    BY <2>3 DEF Snapshots, Unsolved
  <2> HIDE DEF next, front, prev
  <2>9. 0 \in 0..Len(prev.tray)
    BY <2>8 DEF WholeSet
  <2> QED
    BY <2>1, <2>5, <2>7, <2>8, <2>9, SpotsPlayed
<1>9. CASE Spots!HandleReset
  <2>1. state.gameStatus = "playing" /\ Spots!Plays(Spots!CreateInitialState)
    BY <1>9 DEF Spots!HandleReset, Spots!Playing, Spots!StartsOver
  <2> DEFINE next == Spots!CreateInitialState
  <2>2. /\ DOMAIN next = SpotsFields /\ Unsolved(next.placed, next.tray) /\ HistoryOf(next.past, next.placed, next.tray)
        /\ next.selectedTrayIndex = 0 /\ next.pending = <<>> /\ next.gameStatus = "playing" /\ 0 \in 0..Len(next.tray)
    BY SpotsStart
  <2> HIDE DEF next
  <2> QED
    BY <2>1, <2>2, SpotsPlayed DEF Unsolved, next
<1>10. CASE UNCHANGED boardVars
  BY <1>10 DEF boardVars, SpotsInv
<1> QED
  BY <1>3, <1>4, <1>5, <1>6, <1>7, <1>8, <1>9, <1>10 DEF Spots!Next

(* Pip Place: through placements, pick-ups, turns, undos and resets, tray  *)
(* and board together are the set, each tile once, no two tiles overlap    *)
(* and each lies on two neighbouring cells; undoing everything leads to    *)
(* the untouched board; the game is won exactly when the covering is       *)
(* solved, and what is handed over covers the grid and meets every         *)
(* region's rule.                                                          *)
THEOREM PipPlaceCorrect ==
    ASSUME SpotsPuzzle
    PROVE  Spots!Init /\ [][Spots!Next]_boardVars =>
               [](/\ Spots!Legal /\ Spots!Explained /\ Spots!Finished
                  /\ \A i \in DOMAIN sent : Spots!Right(sent[i]))
<1>1. Spots!Init => SpotsInv
  <2> SUFFICES ASSUME Spots!Init PROVE SpotsInv
    OBVIOUS
  <2>1. state = Spots!CreateInitialState /\ ended = FALSE /\ sent = <<>>
    BY DEF Spots!Init, Spots!Starts
  <2>2. <<>> \in Seq(SpotsFinishes)
    OBVIOUS
  <2> QED
    BY <2>1, <2>2, SpotsStart DEF SpotsInv, SpotsBoard, Unsolved
<1>2. SpotsInv /\ [Spots!Next]_boardVars => SpotsInv'
  BY SpotsStep
<1>3. SpotsInv => /\ Spots!Legal /\ Spots!Explained /\ Spots!Finished
                  /\ \A i \in DOMAIN sent : Spots!Right(sent[i])
  <2> SUFFICES ASSUME SpotsInv
               PROVE  /\ Spots!Legal /\ Spots!Explained /\ Spots!Finished
                      /\ \A i \in DOMAIN sent : Spots!Right(sent[i])
    OBVIOUS
  <2>1. /\ WholeSet(state.placed, state.tray) /\ HistoryOf(state.past, state.placed, state.tray)
        /\ state.selectedTrayIndex \in 0..Len(state.tray)
        /\ state.pending # <<>> =>
             state.selectedTrayIndex # 0 /\ Spots!OccupyingTile(state.placed, state.pending) = {}
        /\ state.gameStatus = "won" <=> Spots!IsSolved(state.placed)
        /\ ended = (state.gameStatus = "won")
        /\ ended => sent # <<>> /\ Last(sent) = [tiles |-> state.placed]
        /\ sent \in Seq(SpotsFinishes)
    BY SpotsKeep
  <2>2. Spots!Legal
    <3> DEFINE placed == state.placed
               tray == state.tray
               tiles == placed \o tray
    <3>1. placed \in Seq(Tiles) /\ tray \in Seq(TileFaces) /\ Len(tray) \in Nat /\ DOMAIN tray = 1..Len(tray)
      BY <2>1 DEF WholeSet, LaidOut
    <3>2. Len(tiles) = Len(placed) + Len(tray) /\ PairsOf(tiles) = PairsOf(placed) \cup PairsOf(tray)
      BY <3>1, PairsTogether
    <3>3. Len(tiles) = Spots!Cardinality(Spots!DoubleSet)
      BY <2>1, <3>2, SpotsCounts DEF WholeSet
    <3>4. {Spots!SortedPair(tiles[i]) : i \in DOMAIN tiles} = Spots!DoubleSet
      <4>1. PairsOf(tiles) = Spots!DoubleSet
        BY <2>1, <3>2 DEF WholeSet
      <4> HIDE DEF tiles
      <4> QED
        BY <4>1 DEF PairsOf
    <3>5. \A c \in Spots!Cells : Spots!Cardinality(Spots!OccupyingTile(placed, c)) =< 1
      BY <2>1, OneTile DEF WholeSet
    <3>6. \A i \in DOMAIN placed : Spots!IsOrthogonalNeighbor(placed[i].a, placed[i].b)
      BY <2>1 DEF WholeSet, LaidOut
    <3>7. Spots!Chosen \in DOMAIN tray \cup {0} /\ (state.pending # <<>> => Spots!Chosen # 0)
      BY <2>1, <3>1 DEF Spots!Chosen
    <3> QED
      BY <2>1, <3>3, <3>4, <3>5, <3>6, <3>7, Zenon DEF Spots!Legal
  <2>3. Spots!Explained
    BY <2>1 DEF HistoryOf, Untouched, Spots!Explained
  <2>4. Spots!Finished
    BY <2>1 DEF Spots!Finished, Spots!Finish, Spots!Last, Last
  <2>5. \A i \in DOMAIN sent : Spots!Right(sent[i])
    BY <2>1 DEF SpotsFinishes
  <2> QED
    BY <2>2, <2>3, <2>4, <2>5
<1> QED
  BY <1>1, <1>2, <1>3, PTL

------------------------------------------------------------------------------
(* Houses of a sudoku.                                                     *)
CONSTANTS BOX_SIZE, Puzzle

Digits == 1..(BOX_SIZE * BOX_SIZE)
Squares == Digits \X Digits
BoxOf(c) == <<(c[1] - 1) \div BOX_SIZE, (c[2] - 1) \div BOX_SIZE>>
SameHouse(c, e) == c[1] = e[1] \/ c[2] = e[2] \/ BoxOf(c) = BoxOf(e)

LEMMA Squared ==
    ASSUME BOX_SIZE \in Nat \ {0}
    PROVE  /\ BOX_SIZE * BOX_SIZE \in Nat \ {0}
           /\ IsFiniteSet(Digits) /\ Cardinality(Digits) = BOX_SIZE * BOX_SIZE
<1>1. BOX_SIZE * BOX_SIZE \in Nat \ {0}
  OBVIOUS
<1> DEFINE n == BOX_SIZE * BOX_SIZE
<1>2. n \in Nat \ {0} => IsFiniteSet(1..n) /\ Cardinality(1..n) = n
  <2> HIDE DEF n
  <2> QED
    BY FS_Interval
<1> QED
  BY <1>1, <1>2 DEF Digits

LEMMA Division ==
    ASSUME BOX_SIZE \in Nat \ {0}, NEW x \in Digits
    PROVE  LET q == (x - 1) \div BOX_SIZE
           IN /\ q \in 0..(BOX_SIZE - 1)
              /\ \E i \in 0..(BOX_SIZE - 1) : x = (q * BOX_SIZE + i) + 1
<1> DEFINE q == (x - 1) \div BOX_SIZE
           i == (x - 1) % BOX_SIZE
<1>1. x - 1 \in Nat /\ x - 1 < BOX_SIZE * BOX_SIZE /\ x \in Int
  BY Squared DEF Digits
<1>2. q \in Int /\ i \in 0..(BOX_SIZE - 1) /\ x - 1 = q * BOX_SIZE + i
  BY <1>1
<1> HIDE DEF q, i
<1>3. q >= 0
  <2> SUFFICES ASSUME q =< -1 PROVE FALSE
    BY <1>2
  <2>1. q * BOX_SIZE =< (-1) * BOX_SIZE
    BY <1>2
  <2> QED
    BY <1>1, <1>2, <2>1
<1>4. q < BOX_SIZE
  <2> SUFFICES ASSUME q >= BOX_SIZE PROVE FALSE
    BY <1>2
  <2>1. q * BOX_SIZE >= BOX_SIZE * BOX_SIZE
    BY <1>2
  <2> QED
    BY <1>1, <1>2, <2>1
<1>5. x = (q * BOX_SIZE + i) + 1
  BY <1>1, <1>2
<1> QED
  BY <1>2, <1>3, <1>4, <1>5 DEF q

LEMMA Multiplied ==
    ASSUME BOX_SIZE \in Nat \ {0}, NEW q \in 0..(BOX_SIZE - 1), NEW i \in 0..(BOX_SIZE - 1)
    PROVE  /\ (q * BOX_SIZE + i) + 1 \in Digits
           /\ (((q * BOX_SIZE + i) + 1) - 1) \div BOX_SIZE = q
<1>1. q * BOX_SIZE \in Nat /\ BOX_SIZE * BOX_SIZE \in Nat
  OBVIOUS
<1>2. q * BOX_SIZE =< (BOX_SIZE - 1) * BOX_SIZE
  OBVIOUS
<1>3. (BOX_SIZE - 1) * BOX_SIZE = BOX_SIZE * BOX_SIZE - BOX_SIZE
  OBVIOUS
<1>4. (q * BOX_SIZE + i) + 1 \in Digits
  BY <1>1, <1>2, <1>3 DEF Digits
<1>5. ((q * BOX_SIZE + i) + 1) - 1 = q * BOX_SIZE + i
  BY <1>1
<1>6. (q * BOX_SIZE + i) \div BOX_SIZE = q
  OBVIOUS
<1> QED
  BY <1>4, <1>5, <1>6

LEMMA BoxHasAll ==
    ASSUME BOX_SIZE \in Nat \ {0}, NEW c \in Squares
    PROVE  Cardinality({e \in Squares : BoxOf(e) = BoxOf(c)}) = Cardinality(Digits)
<1> DEFINE BoxSide == 0..(BOX_SIZE - 1)
           at(q, i) == (q * BOX_SIZE + i) + 1
           T == {e \in Squares : BoxOf(e) = BoxOf(c)}
           f == [p \in BoxSide \X BoxSide |-> <<at(BoxOf(c)[1], p[1]), at(BoxOf(c)[2], p[2])>>]
<1>1. c = <<c[1], c[2]>> /\ c[1] \in Digits /\ c[2] \in Digits
  BY DEF Squares
<1>2. BoxOf(c)[1] \in BoxSide /\ BoxOf(c)[2] \in BoxSide
  <2>1. BoxOf(c)[1] = (c[1] - 1) \div BOX_SIZE /\ BoxOf(c)[2] = (c[2] - 1) \div BOX_SIZE
    BY DEF BoxOf
  <2> QED
    BY <1>1, <2>1, Division
<1>3. \A q \in BoxSide, i \in BoxSide : at(q, i) \in Digits /\ (at(q, i) - 1) \div BOX_SIZE = q
  BY Multiplied
<1>4. \A q \in BoxSide, i, j \in BoxSide : at(q, i) = at(q, j) => i = j
  <2> SUFFICES ASSUME NEW q \in BoxSide, NEW i \in BoxSide, NEW j \in BoxSide, at(q, i) = at(q, j) PROVE i = j
    OBVIOUS
  <2>1. q * BOX_SIZE \in Int /\ i \in Int /\ j \in Int
    OBVIOUS
  <2> QED
    BY <2>1
<1>5. IsFiniteSet(BoxSide \X BoxSide) /\ Cardinality(BoxSide \X BoxSide) = BOX_SIZE * BOX_SIZE
  <2>1. IsFiniteSet(BoxSide) /\ Cardinality(BoxSide) = BOX_SIZE
    BY FS_Interval
  <2> QED
    BY <2>1, FS_Product
<1>6. f \in [BoxSide \X BoxSide -> T]
  <2> SUFFICES ASSUME NEW p \in BoxSide \X BoxSide PROVE f[p] \in T
    BY Zenon
  <2>1. p[1] \in BoxSide /\ p[2] \in BoxSide
    OBVIOUS
  <2> DEFINE x == at(BoxOf(c)[1], p[1])
             y == at(BoxOf(c)[2], p[2])
  <2>2. x \in Digits /\ y \in Digits /\ (x - 1) \div BOX_SIZE = BoxOf(c)[1] /\ (y - 1) \div BOX_SIZE = BoxOf(c)[2]
    <3> HIDE DEF at, BoxSide
    <3> QED
      BY <1>2, <1>3, <2>1
  <2>3. f[p] = <<x, y>>
    OBVIOUS
  <2>4. <<x, y>> \in Squares /\ BoxOf(<<x, y>>) = BoxOf(c)
    <3>1. BoxOf(c) = <<BoxOf(c)[1], BoxOf(c)[2]>>
      BY DEF BoxOf
    <3> HIDE DEF x, y
    <3>2. BoxOf(<<x, y>>) = <<(x - 1) \div BOX_SIZE, (y - 1) \div BOX_SIZE>>
      BY DEF BoxOf
    <3> QED
      BY <2>2, <3>1, <3>2 DEF Squares
  <2> HIDE DEF x, y, f
  <2> QED
    BY <2>3, <2>4
<1>7. \A a, b \in BoxSide \X BoxSide : f[a] = f[b] => a = b
  <2> SUFFICES ASSUME NEW a \in BoxSide \X BoxSide, NEW b \in BoxSide \X BoxSide, f[a] = f[b] PROVE a = b
    BY Zenon
  <2>1. a = <<a[1], a[2]>> /\ b = <<b[1], b[2]>> /\ a[1] \in BoxSide /\ a[2] \in BoxSide /\ b[1] \in BoxSide /\ b[2] \in BoxSide
    OBVIOUS
  <2>2. at(BoxOf(c)[1], a[1]) = at(BoxOf(c)[1], b[1]) /\ at(BoxOf(c)[2], a[2]) = at(BoxOf(c)[2], b[2])
    <3> HIDE DEF at, BoxSide
    <3> QED
      OBVIOUS
  <2>3. a[1] = b[1] /\ a[2] = b[2]
    <3> HIDE DEF at, BoxSide
    <3> QED
      BY <1>2, <1>4, <2>1, <2>2
  <2> HIDE DEF BoxSide, f
  <2> QED
    BY <2>1, <2>3
<1>8. \A e \in T : \E p \in BoxSide \X BoxSide : f[p] = e
  <2> SUFFICES ASSUME NEW e \in Squares, BoxOf(e) = BoxOf(c) PROVE \E p \in BoxSide \X BoxSide : f[p] = e
    OBVIOUS
  <2>1. e = <<e[1], e[2]>> /\ e[1] \in Digits /\ e[2] \in Digits
    BY DEF Squares
  <2>2. (e[1] - 1) \div BOX_SIZE = BoxOf(c)[1] /\ (e[2] - 1) \div BOX_SIZE = BoxOf(c)[2]
    <3>1. BoxOf(e)[1] = (e[1] - 1) \div BOX_SIZE /\ BoxOf(e)[2] = (e[2] - 1) \div BOX_SIZE
      BY DEF BoxOf
    <3> QED
      BY <3>1
  <2>3. PICK i \in BoxSide : e[1] = at((e[1] - 1) \div BOX_SIZE, i)
    BY <2>1, Division
  <2>4. PICK j \in BoxSide : e[2] = at((e[2] - 1) \div BOX_SIZE, j)
    BY <2>1, Division
  <2>5. e[1] = at(BoxOf(c)[1], i) /\ e[2] = at(BoxOf(c)[2], j)
    BY <2>2, <2>3, <2>4
  <2>6. <<i, j>> \in BoxSide \X BoxSide /\ f[<<i, j>>] = e
    <3> HIDE DEF BoxSide, at
    <3> QED
      BY <2>1, <2>5
  <2> HIDE DEF f, BoxSide
  <2> QED
    BY <2>6
<1>9. Cardinality(T) = Cardinality(BoxSide \X BoxSide)
  <2> HIDE DEF T, f, BoxSide
  <2> QED
    BY <1>5, <1>6, <1>7, <1>8, AsMany
<1> QED
  BY <1>5, <1>9, Squared

(* Digits that differ within a house of as many cells as digits: all.      *)
LEMMA HouseIsFull ==
    ASSUME BOX_SIZE \in Nat \ {0}, NEW g \in [Squares -> Digits], NEW house \in SUBSET Squares,
           Cardinality(house) = Cardinality(Digits), \A c, e \in house : g[c] = g[e] => c = e
    PROVE  {g[c] : c \in house} = Digits
<1> DEFINE f == [c \in house |-> g[c]]
<1>1. f \in [house -> Digits] /\ \A c, e \in house : f[c] = f[e] => c = e
  OBVIOUS
<1>2. \A d \in Digits : \E c \in house : f[c] = d
  <2> HIDE DEF f
  <2> QED
    BY <1>1, Squared, Onto
<1> QED
  BY <1>2

(* Every row, column and box has every digit.                              *)
FullHouses(g) ==
    /\ \A i \in Digits : {g[<<i, j>>] : j \in Digits} = Digits /\ {g[<<j, i>>] : j \in Digits} = Digits
    /\ \A c \in Squares : {g[d] : d \in {e \in Squares : BoxOf(e) = BoxOf(c)}} = Digits

(* A grid without a digit twice in a house has every digit in every row,   *)
(* column and box.                                                         *)
LEMMA HousesAreFull ==
    ASSUME BOX_SIZE \in Nat \ {0}, NEW g \in [Squares -> Digits],
           \A c, e \in Squares : c # e /\ SameHouse(c, e) => g[c] # g[e]
    PROVE  FullHouses(g)
<1>1. IsFiniteSet(Digits)
  BY Squared
<1>2. ASSUME NEW i \in Digits PROVE {g[<<i, j>>] : j \in Digits} = Digits
  <2> DEFINE f == [j \in Digits |-> g[<<i, j>>]]
  <2>1. f \in [Digits -> Digits]
    BY DEF Squares
  <2>2. \A a, b \in Digits : f[a] = f[b] => a = b
    <3> SUFFICES ASSUME NEW a \in Digits, NEW b \in Digits, a # b PROVE f[a] # f[b]
      OBVIOUS
    <3>1. <<i, a>> \in Squares /\ <<i, b>> \in Squares /\ <<i, a>> # <<i, b>> /\ SameHouse(<<i, a>>, <<i, b>>)
      BY DEF Squares, SameHouse
    <3> QED
      BY <3>1
  <2>3. \A d \in Digits : \E j \in Digits : f[j] = d
    <3> HIDE DEF f
    <3> QED
      BY <1>1, <2>1, <2>2, Onto
  <2>4. \A j \in Digits : g[<<i, j>>] \in Digits
    BY <2>1
  <2>5. \A d \in Digits : \E j \in Digits : g[<<i, j>>] = d
    BY <2>3
  <2> HIDE DEF f
  <2> QED
    BY <2>4, <2>5, ZenonT(60)
<1>3. ASSUME NEW i \in Digits PROVE {g[<<j, i>>] : j \in Digits} = Digits
  <2> DEFINE f == [j \in Digits |-> g[<<j, i>>]]
  <2>1. f \in [Digits -> Digits]
    BY DEF Squares
  <2>2. \A a, b \in Digits : f[a] = f[b] => a = b
    <3> SUFFICES ASSUME NEW a \in Digits, NEW b \in Digits, a # b PROVE f[a] # f[b]
      OBVIOUS
    <3>1. <<a, i>> \in Squares /\ <<b, i>> \in Squares /\ <<a, i>> # <<b, i>> /\ SameHouse(<<a, i>>, <<b, i>>)
      BY DEF Squares, SameHouse
    <3> QED
      BY <3>1
  <2>3. \A d \in Digits : \E j \in Digits : f[j] = d
    <3> HIDE DEF f
    <3> QED
      BY <1>1, <2>1, <2>2, Onto
  <2>4. \A j \in Digits : g[<<j, i>>] \in Digits
    BY <2>1
  <2>5. \A d \in Digits : \E j \in Digits : g[<<j, i>>] = d
    BY <2>3
  <2> HIDE DEF f
  <2> QED
    BY <2>4, <2>5, ZenonT(60)
<1>4. ASSUME NEW c \in Squares PROVE {g[d] : d \in {e \in Squares : BoxOf(e) = BoxOf(c)}} = Digits
  <2> DEFINE house == {e \in Squares : BoxOf(e) = BoxOf(c)}
  <2>1. house \in SUBSET Squares /\ Cardinality(house) = Cardinality(Digits)
    BY BoxHasAll
  <2>2. \A a, b \in house : g[a] = g[b] => a = b
    BY DEF SameHouse
  <2> HIDE DEF house
  <2>3. {g[d] : d \in house} = Digits
    BY <2>1, <2>2, HouseIsFull
  <2> QED
    BY <2>3 DEF house
<1> QED
  BY <1>2, <1>3, <1>4 DEF FullHouses

------------------------------------------------------------------------------

(* Sudoku.                                                                 *)
CONSTANTS Entered, MaxEdits
Pencil == INSTANCE Sudoku WITH Typed <- Entered

Pencilled == [value : {0} \cup Digits, notes : SUBSET Digits]
PencilGrids == [Squares -> Pencilled]
PencilClues == Pencil!CreateInitialState.userGrid

PencilPuzzle ==
    /\ BOX_SIZE \in Nat \ {0}
    /\ \A c \in Squares : Puzzle[c[1]][c[2]] \in {0} \cup Digits
    /\ ~Pencil!IsGridSolved(PencilClues)
    /\ DOMAIN Entered \subseteq Squares /\ \A c \in DOMAIN Entered : Entered[c] \subseteq Digits

KeepsClues(grid) ==
    /\ grid \in PencilGrids
    /\ \A c \in Squares : Pencil!IsGiven(c) => grid[c] = PencilClues[c]
    /\ \A c \in Squares : grid[c].value # 0 => grid[c].notes = {}

EditsMade == [selectedCell : DOMAIN Entered, cells : UNION {[S -> Pencilled] : S \in SUBSET Squares}]

(* The grids before each edit not undone, and the grid now: each edit,     *)
(* undone, gives the grid before it, and the first of them is the puzzle   *)
(* as served.                                                              *)
Trail(trail, history, grid) ==
    /\ trail \in Seq(PencilGrids) /\ Len(trail) = Len(history) + 1
    /\ trail[1] = PencilClues /\ trail[Len(trail)] = grid
    /\ \A i \in DOMAIN history : trail[i] = Pencil!Before(history[i], trail[i + 1])

Undoable(history, grid) ==
    \E trail \in Seq(PencilGrids) :
        /\ Trail(trail, history, grid)
        /\ \A i \in DOMAIN history : KeepsClues(trail[i]) /\ ~Pencil!IsGridSolved(trail[i])

PencilFinishes == {f \in [finalGrid : [Squares -> {0} \cup Digits]] : Pencil!Right(f)}

PencilState ==
    [userGrid : PencilGrids, selectedCell : DOMAIN Entered \cup {Pencil!Nowhere}, history : Seq(EditsMade),
     isComplete : BOOLEAN, isNotesMode : BOOLEAN]

PencilBoard(s, over, finishes) ==
    /\ s \in PencilState
    /\ KeepsClues(s.userGrid) /\ Undoable(s.history, s.userGrid)
    /\ s.isComplete <=> Pencil!IsGridSolved(s.userGrid)
    /\ over \in BOOLEAN /\ (over <=> s.isComplete)
    /\ finishes \in Seq(PencilFinishes)
    /\ over => finishes # <<>> /\ finishes[Len(finishes)] = Pencil!Finish(s)

PencilInv == PencilBoard(state, ended, sent)

LEMMA SquaresAreCells ==
    /\ Pencil!Cells = Squares /\ 1..Pencil!GRID_SIZE = Digits
    /\ \A c : Pencil!Box(c) = BoxOf(c)
  BY DEF Pencil!Cells, Pencil!GRID_SIZE, Squares, Digits, Pencil!Box, BoxOf

LEMMA LeastOf ==
    ASSUME NEW n \in Nat, NEW s \in SUBSET (1..n), s # {}
    PROVE  Pencil!Min(s) \in s /\ \A x \in s : Pencil!Min(s) =< x
<1>1. s \in SUBSET Nat
  OBVIOUS
<1>2. \E x \in s : \A y \in s : x =< y
  BY <1>1, Smallest
<1>3. Pencil!Min(s) = CHOOSE x \in s : \A y \in s : x =< y
  BY DEF Pencil!Min
<1> QED
  BY <1>2, <1>3

(* What Explained folds is the walk along the trail.                       *)
LEMMA UndoneAll ==
    ASSUME NEW history \in Seq(EditsMade), NEW grid \in PencilGrids, NEW trail, Trail(trail, history, grid)
    PROVE  Pencil!FoldRight(Pencil!Before, history, grid) = PencilClues
<1> DEFINE D == DOMAIN history
           n == Len(history)
           least == [s \in SUBSET D |-> Pencil!Min(s)]
           undo == [p \in D \X PencilGrids |-> Pencil!Before(history[p[1]], p[2])]
           Is(g) == g = [s \in SUBSET D |->
                           IF s = {} THEN grid ELSE Pencil!Before(history[Pencil!Min(s)], g[s \ {Pencil!Min(s)}])]
           F == CHOOSE g : Is(g)
<1>1. Pencil!FoldRight(Pencil!Before, history, grid) = F[D]
  BY DEF Pencil!FoldRight, Pencil!MapThenFoldSet
<1>2. n \in Nat /\ D = 1..n /\ IsFiniteSet(D)
  <2>1. n \in Nat /\ D = 1..n
    OBVIOUS
  <2> QED
    BY <2>1, FirstNumbers
<1>3. \A s \in SUBSET D : least[s] = Pencil!Min(s) /\ (s # {} => least[s] \in s)
  BY <1>2, LeastOf
<1>4. undo \in [D \X PencilGrids -> PencilGrids] /\ \A i \in D, g \in PencilGrids : undo[<<i, g>>] = Pencil!Before(history[i], g)
  <2>1. ASSUME NEW i \in D, NEW g \in PencilGrids PROVE Pencil!Before(history[i], g) \in PencilGrids
    <3>1. history[i] \in EditsMade
      OBVIOUS
    <3>2. PICK S \in SUBSET Squares : history[i].cells \in [S -> Pencilled]
      BY <3>1 DEF EditsMade
    <3>3. Pencil!Before(history[i], g) = [c \in Squares |-> IF c \in S THEN history[i].cells[c] ELSE g[c]]
      BY <3>2, SquaresAreCells DEF Pencil!Before
    <3> QED
      BY <3>2, <3>3 DEF PencilGrids
  <2> QED
    BY <2>1
<1> HIDE DEF least, undo
<1>5. PICK g : IsFold(g, D, PencilGrids, grid, undo, least)
  <2>1. \A s \in SUBSET D : s # {} => least[s] \in s
    BY <1>3
  <2> HIDE DEF D
  <2> QED
    BY <1>2, <1>4, <2>1, FoldExists
<1> HIDE DEF D, n
<1>6. Is(g)
  <2>1. ASSUME NEW s \in SUBSET D, s # {} PROVE g[s] = Pencil!Before(history[Pencil!Min(s)], g[s \ {Pencil!Min(s)}])
    <3>1. Pencil!Min(s) \in D /\ g[s \ {Pencil!Min(s)}] \in PencilGrids
      BY <1>3, <1>5, <2>1 DEF IsFold
    <3>2. g[s] = undo[<<Pencil!Min(s), g[s \ {Pencil!Min(s)}]>>]
      BY <1>3, <1>5, <2>1 DEF IsFold
    <3> QED
      BY <1>4, <3>1, <3>2
  <2>2. g \in [SUBSET D -> PencilGrids] /\ g[{}] = grid
    BY <1>5 DEF IsFold
  <2> QED
    BY <2>1, <2>2
<1>7. Is(F)
  BY <1>6
<1> HIDE DEF F
<1>8. F[{}] = grid /\ \A s \in SUBSET D : s # {} => F[s] = Pencil!Before(history[Pencil!Min(s)], F[s \ {Pencil!Min(s)}])
  BY <1>7
<1> HIDE DEF Is
<1> DEFINE Good == {j \in Nat : j =< n => F[(n + 1 - j)..n] = trail[n + 1 - j]}
<1>9. /\ trail \in Seq(PencilGrids) /\ Len(trail) = n + 1 /\ trail[1] = PencilClues /\ trail[n + 1] = grid
      /\ \A i \in 1..n : trail[i] = Pencil!Before(history[i], trail[i + 1])
  BY <1>2 DEF Trail, D, n
<1>10. 0 \in Good
  <2>1. n + 1 - 0 = n + 1 /\ (n + 1)..n = {}
    BY <1>2
  <2> QED
    BY <1>8, <1>9, <2>1
<1>11. ASSUME NEW j \in Good PROVE j + 1 \in Good
  <2> SUFFICES ASSUME j + 1 =< n PROVE F[(n + 1 - (j + 1))..n] = trail[n + 1 - (j + 1)]
    OBVIOUS
  <2> DEFINE k == n - j
             s == k..n
  <2>1. k \in 1..n /\ k + 1 = n + 1 - j /\ n + 1 - (j + 1) = k
    BY <1>2
  <2>2. s \in SUBSET (1..n) /\ k \in s /\ (\A x \in s : k =< x) /\ s \ {k} = (k + 1)..n
    BY <1>2, <2>1
  <2>3. Pencil!Min(s) \in s /\ Pencil!Min(s) =< k
    BY <1>2, <2>2, LeastOf
  <2>4. Pencil!Min(s) = k
    BY <1>2, <2>1, <2>2, <2>3
  <2>5. F[(k + 1)..n] = trail[k + 1]
    BY <1>2, <2>1
  <2> HIDE DEF s
  <2>6. F[s] = Pencil!Before(history[k], F[(k + 1)..n])
    BY <1>2, <1>8, <2>2, <2>4
  <2>7. F[s] = trail[k]
    BY <1>9, <2>1, <2>5, <2>6
  <2> QED
    BY <2>1, <2>7 DEF s
<1>12. n \in Good
  <2> HIDE DEF Good
  <2>1. Good \in SUBSET Nat
    BY DEF Good
  <2> QED
    BY <1>2, <1>10, <1>11, <2>1, OneByOne
<1>13. F[D] = PencilClues
  <2>1. n + 1 - n = 1 /\ n =< n
    BY <1>2
  <2> QED
    BY <1>2, <1>9, <1>12, <2>1
<1> QED
  BY <1>1, <1>13

LEMMA SolvedPencil ==
    ASSUME PencilPuzzle, NEW s \in PencilState, KeepsClues(s.userGrid), Pencil!IsGridSolved(s.userGrid)
    PROVE  Pencil!Finish(s) \in PencilFinishes
<1> DEFINE g == [c \in Squares |-> s.userGrid[c].value]
           f == [finalGrid |-> g]
<1>1. Pencil!Finish(s) = f
  BY SquaresAreCells DEF Pencil!Finish
<1>2. \A c \in Squares : g[c] = s.userGrid[c].value /\ g[c] \in {0} \cup Digits
  BY DEF KeepsClues, PencilGrids, Pencilled
<1>3. g \in [Squares -> Digits]
  BY SquaresAreCells DEF Pencil!IsGridSolved
<1>4. \A c, e \in Squares : c # e /\ SameHouse(c, e) => g[c] # g[e]
  <2> SUFFICES ASSUME NEW c \in Squares, NEW e \in Squares, c # e, SameHouse(c, e) PROVE g[c] # g[e]
    OBVIOUS
  <2>1. e \in Pencil!Peers(c)
    BY SquaresAreCells DEF Pencil!Peers, SameHouse
  <2> QED
    BY <2>1, SquaresAreCells DEF Pencil!IsGridSolved
<1>5. \A c \in Squares : Pencil!IsGiven(c) => g[c] = Puzzle[c[1]][c[2]]
  <2>1. \A c \in Squares : PencilClues[c].value = Puzzle[c[1]][c[2]]
    BY SquaresAreCells DEF PencilClues, Pencil!CreateInitialState
  <2> QED
    BY <2>1 DEF KeepsClues
<1> HIDE DEF g
<1>6. FullHouses(g)
  BY <1>3, <1>4, HousesAreFull DEF PencilPuzzle
<1>7. f.finalGrid = g
  OBVIOUS
<1>8. Pencil!Right(f)
  <2> HIDE DEF f
  <2>1. \A c \in Pencil!Cells : Pencil!IsGiven(c) => f.finalGrid[c] = Puzzle[c[1]][c[2]]
    BY <1>5, <1>7, SquaresAreCells
  <2>2. FullHouses(f.finalGrid)
    BY <1>6, <1>7
  <2>3. \A i \in 1..Pencil!GRID_SIZE :
          /\ {f.finalGrid[<<i, j>>] : j \in 1..Pencil!GRID_SIZE} = 1..Pencil!GRID_SIZE
          /\ {f.finalGrid[<<j, i>>] : j \in 1..Pencil!GRID_SIZE} = 1..Pencil!GRID_SIZE
    <3>1. \A i \in Digits : {f.finalGrid[<<i, j>>] : j \in Digits} = Digits /\ {f.finalGrid[<<j, i>>] : j \in Digits} = Digits
      BY <2>2 DEF FullHouses
    <3> QED
      BY <3>1, SquaresAreCells
  <2>4. \A c \in Pencil!Cells :
          {f.finalGrid[d] : d \in {e \in Pencil!Cells : Pencil!Box(e) = Pencil!Box(c)}} = 1..Pencil!GRID_SIZE
    <3> SUFFICES ASSUME NEW c \in Pencil!Cells
                 PROVE  {f.finalGrid[d] : d \in {e \in Pencil!Cells : Pencil!Box(e) = Pencil!Box(c)}}
                          = 1..Pencil!GRID_SIZE
      OBVIOUS
    <3>1. {e \in Pencil!Cells : Pencil!Box(e) = Pencil!Box(c)} = {e \in Squares : BoxOf(e) = BoxOf(c)}
      BY SquaresAreCells
    <3>2. {f.finalGrid[d] : d \in {e \in Squares : BoxOf(e) = BoxOf(c)}} = Digits
      BY <2>2, SquaresAreCells DEF FullHouses
    <3> QED
      BY <3>1, <3>2, SquaresAreCells
  <2> QED
    BY <2>1, <2>3, <2>4 DEF Pencil!Right
<1> QED
  BY <1>1, <1>2, <1>3, <1>8 DEF PencilFinishes

LEMMA Undone ==
    ASSUME NEW grid \in PencilGrids, NEW next \in PencilGrids, NEW edit,
           edit.cells = [c \in {e \in Squares : next[e] # grid[e]} |-> grid[c]]
    PROVE  Pencil!Before(edit, next) = grid
<1>1. Pencil!Before(edit, next) = [c \in Squares |-> IF c \in DOMAIN edit.cells THEN edit.cells[c] ELSE next[c]]
  BY SquaresAreCells DEF Pencil!Before
<1>2. \A c \in Squares : (IF c \in DOMAIN edit.cells THEN edit.cells[c] ELSE next[c]) = grid[c]
  OBVIOUS
<1> QED
  BY <1>1, <1>2 DEF PencilGrids

(* An edit lengthens the trail by the grid it makes.                       *)
LEMMA TrailFurther ==
    ASSUME NEW history \in Seq(EditsMade), NEW grid, KeepsClues(grid), ~Pencil!IsGridSolved(grid),
           Undoable(history, grid), NEW next \in PencilGrids, NEW edit \in EditsMade,
           edit.cells = [c \in {e \in Squares : next[e] # grid[e]} |-> grid[c]]
    PROVE  Undoable(Append(history, edit), next)
<1>1. PICK trail \in Seq(PencilGrids) :
        /\ Trail(trail, history, grid)
        /\ \A i \in DOMAIN history : KeepsClues(trail[i]) /\ ~Pencil!IsGridSolved(trail[i])
  BY DEF Undoable
<1>2. /\ Len(trail) = Len(history) + 1 /\ trail[1] = PencilClues /\ trail[Len(trail)] = grid
      /\ \A i \in DOMAIN history : trail[i] = Pencil!Before(history[i], trail[i + 1])
  BY <1>1 DEF Trail
<1> DEFINE h == Append(history, edit)
           t == Append(trail, next)
<1>3. t \in Seq(PencilGrids) /\ Len(t) = Len(h) + 1 /\ Len(h) = Len(history) + 1 /\ Len(t) = Len(trail) + 1
  BY <1>2
<1>4. t[1] = PencilClues /\ t[Len(t)] = next
  BY <1>2
<1>5. ASSUME NEW i \in DOMAIN h
      PROVE  t[i] = Pencil!Before(h[i], t[i + 1]) /\ KeepsClues(t[i]) /\ ~Pencil!IsGridSolved(t[i])
  <2>1. CASE i \in DOMAIN history
    <3>1. i \in 1..Len(history) /\ h[i] = history[i]
      BY <2>1
    <3>2. t[i] = trail[i] /\ t[i + 1] = trail[i + 1]
      BY <1>2, <3>1
    <3> HIDE DEF h, t
    <3> QED
      BY <1>1, <1>2, <2>1, <3>1, <3>2
  <2>2. CASE i = Len(history) + 1
    <3>1. h[i] = edit /\ t[i] = grid /\ t[i + 1] = next
      BY <1>2, <2>2
    <3>2. grid \in PencilGrids
      BY DEF KeepsClues
    <3> QED
      BY <3>1, <3>2, Undone
  <2>3. i \in DOMAIN history \/ i = Len(history) + 1
    BY <1>3
  <2> HIDE DEF h, t
  <2> QED
    BY <2>1, <2>2, <2>3
<1> HIDE DEF h, t
<1>6. Trail(t, h, next)
  BY <1>3, <1>4, <1>5 DEF Trail
<1>7. Undoable(h, next)
  BY <1>3, <1>5, <1>6 DEF Undoable
<1> QED
  BY <1>7 DEF h

(* An undo takes the trail's last grid away.                               *)
LEMMA TrailBack ==
    ASSUME NEW history \in Seq(EditsMade), NEW grid, Undoable(history, grid), history # <<>>
    PROVE  LET before == Pencil!Before(history[Len(history)], grid)
               rest == SubSeq(history, 1, Len(history) - 1)
           IN KeepsClues(before) /\ ~Pencil!IsGridSolved(before) /\ Undoable(rest, before)
<1>1. PICK trail \in Seq(PencilGrids) :
        /\ Trail(trail, history, grid)
        /\ \A i \in DOMAIN history : KeepsClues(trail[i]) /\ ~Pencil!IsGridSolved(trail[i])
  BY DEF Undoable
<1> DEFINE n == Len(history)
           before == Pencil!Before(history[n], grid)
           rest == SubSeq(history, 1, n - 1)
           t == SubSeq(trail, 1, n)
<1>2. /\ Len(trail) = n + 1 /\ trail[1] = PencilClues /\ trail[Len(trail)] = grid
      /\ \A i \in DOMAIN history : trail[i] = Pencil!Before(history[i], trail[i + 1])
  BY <1>1 DEF Trail
<1>3. n \in Nat /\ n >= 1 /\ n \in DOMAIN history
  OBVIOUS
<1>4. trail[n] = before /\ KeepsClues(before) /\ ~Pencil!IsGridSolved(before)
  <2>1. trail[n + 1] = grid
    BY <1>2
  <2> QED
    BY <1>1, <1>2, <1>3, <2>1
<1>5. rest \in Seq(EditsMade) /\ Len(rest) = n - 1 /\ \A i \in 1..(n - 1) : rest[i] = history[i]
  <2>1. n - 1 \in Nat /\ n - 1 =< Len(history)
    BY <1>3
  <2>2. rest \in Seq(EditsMade)
    BY <2>1
  <2>3. Len(rest) = n - 1
    <3>1. \A m \in 0..Len(history) : Len(SubSeq(history, 1, m)) = m
      OBVIOUS
    <3>2. n - 1 \in 0..Len(history)
      BY <2>1
    <3> QED
      BY <3>1, <3>2, Zenon
  <2>4. \A i \in 1..(n - 1) : rest[i] = history[i]
    BY <2>1
  <2> QED
    BY <2>2, <2>3, <2>4
<1>6. t \in Seq(PencilGrids) /\ Len(t) = n /\ \A i \in 1..n : t[i] = trail[i]
  BY <1>2, <1>3
<1> HIDE DEF rest, t, before
<1>7. Trail(t, rest, before)
  <2>1. t[1] = PencilClues /\ t[Len(t)] = before /\ Len(t) = Len(rest) + 1
    BY <1>2, <1>3, <1>4, <1>5, <1>6
  <2>2. ASSUME NEW i \in DOMAIN rest PROVE t[i] = Pencil!Before(rest[i], t[i + 1])
    <3>1. i \in 1..(n - 1) /\ i \in DOMAIN history
      BY <1>3, <1>5
    <3>2. t[i] = trail[i] /\ t[i + 1] = trail[i + 1] /\ rest[i] = history[i]
      BY <1>3, <1>5, <1>6, <3>1, SMTT(30)
    <3> QED
      BY <1>2, <3>1, <3>2
  <2> QED
    BY <1>6, <2>1, <2>2 DEF Trail
<1>8. \A i \in DOMAIN rest : KeepsClues(t[i]) /\ ~Pencil!IsGridSolved(t[i])
  <2> SUFFICES ASSUME NEW i \in DOMAIN rest PROVE KeepsClues(t[i]) /\ ~Pencil!IsGridSolved(t[i])
    OBVIOUS
  <2>1. i \in DOMAIN history /\ t[i] = trail[i]
    BY <1>3, <1>5, <1>6
  <2> QED
    BY <1>1, <2>1
<1>9. Undoable(rest, before)
  BY <1>6, <1>7, <1>8 DEF Undoable
<1> QED
  BY <1>4, <1>9 DEF rest, before

LEMMA PencilFields ==
    ASSUME PencilInv
    PROVE  /\ state \in PencilState
           /\ KeepsClues(state.userGrid) /\ Undoable(state.history, state.userGrid)
           /\ state.isComplete <=> Pencil!IsGridSolved(state.userGrid)
           /\ ended \in BOOLEAN /\ (ended <=> state.isComplete)
           /\ sent \in Seq(PencilFinishes)
           /\ ended => sent # <<>> /\ sent[Len(sent)] = Pencil!Finish(state)
  BY DEF PencilInv, PencilBoard

(* An edit that keeps the clues and is judged by the grid it makes.        *)
LEMMA PencilEdit ==
    ASSUME PencilPuzzle, PencilInv, Pencil!Editable, NEW grid, KeepsClues(grid),
           Pencil!Edits(grid, Pencil!IsGridSolved(grid))
    PROVE  PencilInv'
<1> DEFINE changed == {c \in Squares : grid[c] # state.userGrid[c]}
           edit == [selectedCell |-> state.selectedCell, cells |-> [c \in changed |-> state.userGrid[c]]]
           complete == Pencil!IsGridSolved(grid)
           next == [state EXCEPT !.userGrid = grid, !.isComplete = complete, !.history = Append(@, edit)]
<1>1. /\ state \in PencilState
      /\ KeepsClues(state.userGrid) /\ Undoable(state.history, state.userGrid)
      /\ ~Pencil!IsGridSolved(state.userGrid) /\ ~state.isComplete /\ ended = FALSE
      /\ sent \in Seq(PencilFinishes)
      /\ state.selectedCell \in DOMAIN Entered
  <2>1. ~state.isComplete /\ state.selectedCell # Pencil!Nowhere
    BY DEF Pencil!Editable
  <2>2. state.selectedCell \in DOMAIN Entered \cup {Pencil!Nowhere}
    BY PencilFields DEF PencilState
  <2> QED
    BY <2>1, <2>2, PencilFields DEF PencilPuzzle
<1>2. Pencil!Shows(next, complete, Pencil!Finish(next))
  BY SquaresAreCells DEF Pencil!Edits
<1>3. edit \in EditsMade /\ edit.cells = [c \in changed |-> state.userGrid[c]]
  <2>1. \A c \in changed : state.userGrid[c] \in Pencilled
    BY <1>1 DEF KeepsClues, PencilGrids
  <2>2. [c \in changed |-> state.userGrid[c]] \in [changed -> Pencilled] /\ changed \in SUBSET Squares
    BY <2>1
  <2> HIDE DEF changed
  <2> QED
    BY <1>1, <2>2 DEF EditsMade
<1>4. complete \in BOOLEAN /\ grid \in PencilGrids
  BY DEF Pencil!IsGridSolved, KeepsClues
<1>5. Undoable(Append(state.history, edit), grid)
  <2>1. state.history \in Seq(EditsMade)
    BY <1>1 DEF PencilState
  <2> HIDE DEF edit
  <2> QED
    BY <1>1, <1>3, <1>4, <2>1, TrailFurther
<1> HIDE DEF edit, complete
<1>6. /\ next \in PencilState /\ next.userGrid = grid /\ next.isComplete = complete
      /\ next.history = Append(state.history, edit)
  <2> DEFINE history == Append(state.history, edit)
  <2>1. history \in Seq(EditsMade)
    BY <1>1, <1>3 DEF PencilState
  <2>2. next = [state EXCEPT !.userGrid = grid, !.isComplete = complete, !.history = history]
    OBVIOUS
  <2> HIDE DEF history
  <2> QED
    BY <1>1, <1>4, <2>1, <2>2 DEF PencilState
<1> HIDE DEF next
<1>7. complete => Pencil!Finish(next) \in PencilFinishes
  BY <1>6, SolvedPencil DEF complete
<1>8. /\ state' = next /\ ended' = complete /\ sent' \in Seq(PencilFinishes)
      /\ complete => sent' # <<>> /\ sent'[Len(sent')] = Pencil!Finish(next)
  <2>1. CASE complete
    <3>1. state' = next /\ ended' = TRUE /\ sent' = Append(sent, Pencil!Finish(next))
      BY <1>1, <1>2, <2>1 DEF Pencil!Shows
    <3>2. sent' \in Seq(PencilFinishes) /\ sent' # <<>> /\ sent'[Len(sent')] = Pencil!Finish(next)
      BY <1>1, <1>7, <2>1, <3>1
    <3>3. complete = TRUE
      BY <1>4, <2>1
    <3> QED
      BY <3>1, <3>2, <3>3
  <2>2. CASE ~complete
    <3>1. state' = next /\ ended' = ended /\ sent' = sent
      BY <1>2, <2>2 DEF Pencil!Shows
    <3>2. complete = FALSE
      BY <1>4, <2>2
    <3> QED
      BY <1>1, <3>1, <3>2
  <2> QED
    BY <2>1, <2>2
<1>9. PencilBoard(next, complete, sent')
  BY <1>4, <1>5, <1>6, <1>8 DEF PencilBoard, complete
<1> QED
  BY <1>8, <1>9 DEF PencilInv


(* The other actions leave the board alone: a selection, the notes mode.   *)
LEMMA PencilSelects ==
    ASSUME PencilInv, state' \in PencilState,
           state'.userGrid = state.userGrid, state'.history = state.history,
           state'.isComplete = state.isComplete, ended' = ended, sent' = sent
    PROVE  PencilInv'
<1>1. Pencil!Finish(state') = Pencil!Finish(state)
  BY DEF Pencil!Finish
<1> QED
  BY <1>1 DEF PencilInv, PencilBoard

LEMMA PencilStep == PencilPuzzle /\ PencilInv /\ [Pencil!Next]_boardVars => PencilInv'
<1> SUFFICES ASSUME PencilPuzzle, PencilInv, [Pencil!Next]_boardVars PROVE PencilInv'
  OBVIOUS
<1>1. /\ state \in PencilState
      /\ KeepsClues(state.userGrid) /\ Undoable(state.history, state.userGrid)
      /\ state.isComplete <=> Pencil!IsGridSolved(state.userGrid)
      /\ ended \in BOOLEAN /\ (ended <=> state.isComplete)
      /\ sent \in Seq(PencilFinishes)
  BY PencilFields
<1> DEFINE here == state.selectedCell
<1>2. ASSUME Pencil!Editable
      PROVE  /\ here \in Squares /\ here \in DOMAIN Entered /\ Entered[here] \subseteq Digits
             /\ ~Pencil!IsGiven(here)
  <2>1. here # Pencil!Nowhere /\ ~Pencil!IsGiven(here)
    BY <1>2 DEF Pencil!Editable
  <2>2. here \in DOMAIN Entered \cup {Pencil!Nowhere}
    BY <1>1 DEF PencilState
  <2> QED
    BY <2>1, <2>2 DEF PencilPuzzle
<1>3. /\ state.userGrid \in PencilGrids
      /\ \A c \in Squares : Pencil!IsGiven(c) => state.userGrid[c] = PencilClues[c]
      /\ \A c \in Squares : state.userGrid[c].value # 0 => state.userGrid[c].notes = {}
      /\ \A c \in Squares : state.userGrid[c] \in Pencilled
  BY <1>1 DEF KeepsClues, PencilGrids
<1>4. CASE Pencil!SelectCell
  <2>1. PICK c \in DOMAIN Entered : state' = [state EXCEPT !.selectedCell = c] /\ ended' = ended /\ sent' = sent
    BY <1>4 DEF Pencil!SelectCell, Pencil!Plays
  <2> QED
    BY <1>1, <2>1, PencilSelects DEF PencilState
<1>5. CASE Pencil!ToggleNotesMode
  <2>1. state' = [state EXCEPT !.isNotesMode = ~@] /\ ended' = ended /\ sent' = sent
    BY <1>5 DEF Pencil!ToggleNotesMode, Pencil!Plays
  <2> QED
    BY <1>1, <2>1, PencilSelects DEF PencilState
<1>6. CASE Pencil!InputNumber
  <2>1. Pencil!Editable
    BY <1>6 DEF Pencil!InputNumber
  <2>2. PICK v \in Entered[here] :
          LET grid == [c \in Pencil!Cells |->
                         IF c = here THEN [value |-> v, notes |-> {}]
                         ELSE IF c \in Pencil!Peers(here) THEN [state.userGrid[c] EXCEPT !.notes = @ \ {v}]
                         ELSE state.userGrid[c]]
          IN Pencil!Edits(grid, Pencil!IsGridSolved(grid))
    BY <1>6 DEF Pencil!InputNumber
  <2> DEFINE grid == [c \in Pencil!Cells |->
                        IF c = here THEN [value |-> v, notes |-> {}]
                        ELSE IF c \in Pencil!Peers(here) THEN [state.userGrid[c] EXCEPT !.notes = @ \ {v}]
                        ELSE state.userGrid[c]]
  <2>3. v \in Digits /\ v \in {0} \cup Digits
    BY <1>2, <2>1
  <2>4. ASSUME NEW c \in Squares
        PROVE  /\ grid[c] \in Pencilled
               /\ Pencil!IsGiven(c) => grid[c] = PencilClues[c]
               /\ grid[c].value # 0 => grid[c].notes = {}
    <3>1. state.userGrid[c] \in Pencilled
      BY <1>3
    <3>2. CASE c = here
      <4>1. grid[c] = [value |-> v, notes |-> {}]
        BY <3>2, SquaresAreCells
      <4> HIDE DEF grid
      <4> QED
        BY <1>2, <2>1, <2>3, <3>2, <4>1 DEF Pencilled
    <3>3. CASE c # here /\ c \in Pencil!Peers(here)
      <4>1. grid[c] = [state.userGrid[c] EXCEPT !.notes = @ \ {v}]
        BY <3>3, SquaresAreCells
      <4>2. grid[c] \in Pencilled /\ grid[c].value = state.userGrid[c].value
            /\ grid[c].notes = state.userGrid[c].notes \ {v}
        <5> HIDE DEF grid
        <5> QED
          BY <3>1, <4>1 DEF Pencilled
      <4>3. Pencil!IsGiven(c) => grid[c] = PencilClues[c]
        <5> SUFFICES ASSUME Pencil!IsGiven(c) PROVE grid[c] = PencilClues[c]
          OBVIOUS
        <5>1. state.userGrid[c] = PencilClues[c] /\ PencilClues[c].notes = {}
          BY <1>3, SquaresAreCells DEF PencilClues, Pencil!CreateInitialState
        <5>2. grid[c].notes = state.userGrid[c].notes
          BY <4>2, <5>1
        <5> HIDE DEF grid
        <5> QED
          BY <3>1, <4>2, <5>1, <5>2 DEF Pencilled
      <4> HIDE DEF grid
      <4> QED
        BY <1>3, <4>2, <4>3
    <3>4. CASE c # here /\ c \notin Pencil!Peers(here)
      <4>1. grid[c] = state.userGrid[c]
        BY <3>4, SquaresAreCells
      <4> QED
        BY <1>3, <4>1
    <3> QED
      BY <3>2, <3>3, <3>4
  <2>5. grid \in PencilGrids
    BY <2>4, SquaresAreCells DEF PencilGrids
  <2> HIDE DEF grid
  <2>6. KeepsClues(grid)
    BY <2>4, <2>5 DEF KeepsClues
  <2>7. Pencil!Edits(grid, Pencil!IsGridSolved(grid))
    BY <2>2 DEF grid
  <2> QED
    BY <2>1, <2>6, <2>7, PencilEdit
<1>7. ASSUME NEW cell \in Pencilled, cell.value = 0, Pencil!Editable,
             Pencil!Edits([state.userGrid EXCEPT ![here] = cell], FALSE)
      PROVE  PencilInv'
  <2> DEFINE grid == [state.userGrid EXCEPT ![here] = cell]
  <2>1. here \in Squares /\ ~Pencil!IsGiven(here)
    BY <1>2, <1>7
  <2>2. grid \in PencilGrids /\ grid[here] = cell /\ \A c \in Squares : c # here => grid[c] = state.userGrid[c]
    BY <1>3, <2>1 DEF PencilGrids
  <2> HIDE DEF grid
  <2>3. KeepsClues(grid)
    BY <1>3, <1>7, <2>1, <2>2 DEF KeepsClues
  <2>4. Pencil!IsGridSolved(grid) = FALSE
    <3>1. here \in Pencil!Cells /\ grid[here].value \notin 1..Pencil!GRID_SIZE
      BY <1>7, <2>1, <2>2, SquaresAreCells DEF Digits
    <3> QED
      BY <3>1 DEF Pencil!IsGridSolved
  <2>5. Pencil!Edits(grid, Pencil!IsGridSolved(grid))
    BY <1>7, <2>4 DEF grid
  <2> QED
    BY <1>7, <2>3, <2>5, PencilEdit
<1>8. CASE Pencil!InputNote
  <2>1. Pencil!Editable /\ state.userGrid[here].value = 0
    BY <1>8 DEF Pencil!InputNote
  <2>2. PICK v \in Entered[here] : Pencil!Edits([state.userGrid EXCEPT ![here].notes = Pencil!SymDiff(@, {v})], FALSE)
    BY <1>8 DEF Pencil!InputNote
  <2> DEFINE cell == [state.userGrid[here] EXCEPT !.notes = Pencil!SymDiff(@, {v})]
  <2>3. here \in Squares /\ v \in Digits /\ state.userGrid[here] \in Pencilled
    BY <1>2, <1>3, <2>1
  <2>4. cell \in Pencilled /\ cell.value = 0
    BY <2>1, <2>3 DEF Pencilled, Pencil!SymDiff
  <2>5. [state.userGrid EXCEPT ![here].notes = Pencil!SymDiff(@, {v})] = [state.userGrid EXCEPT ![here] = cell]
    OBVIOUS
  <2>6. Pencil!Edits([state.userGrid EXCEPT ![here] = cell], FALSE)
    BY <2>2, <2>5
  <2> HIDE DEF cell
  <2> QED
    BY <1>7, <2>1, <2>4, <2>6
<1>9. CASE Pencil!ClearCell
  <2> DEFINE cell == [value |-> 0, notes |-> {}]
  <2>1. Pencil!Editable /\ Pencil!Edits([state.userGrid EXCEPT ![here] = cell], FALSE)
    BY <1>9 DEF Pencil!ClearCell
  <2>2. cell \in Pencilled /\ cell.value = 0
    BY DEF Pencilled
  <2> HIDE DEF cell
  <2> QED
    BY <1>7, <2>1, <2>2
<1>10. CASE Pencil!Undo
  <2> DEFINE n == Len(state.history)
             edit == state.history[n]
             before == Pencil!Before(edit, state.userGrid)
             rest == SubSeq(state.history, 1, n - 1)
  <2>1. /\ ~state.isComplete /\ state.history # <<>>
        /\ state' = [state EXCEPT !.userGrid = before, !.selectedCell = edit.selectedCell, !.history = rest]
        /\ ended' = ended /\ sent' = sent
    BY <1>10 DEF Pencil!Undo, Pencil!Plays, Pencil!Last, Pencil!Front
  <2>2. state.history \in Seq(EditsMade) /\ n \in Nat /\ n >= 1 /\ edit \in EditsMade
    BY <1>1, <2>1 DEF PencilState
  <2>3. KeepsClues(before) /\ ~Pencil!IsGridSolved(before) /\ Undoable(rest, before)
    BY <1>1, <2>1, <2>2, TrailBack
  <2>4. before \in PencilGrids /\ rest \in Seq(EditsMade) /\ edit.selectedCell \in DOMAIN Entered
    <3>1. \A m \in 0..n : SubSeq(state.history, 1, m) \in Seq(EditsMade)
      BY <2>2
    <3>2. n - 1 \in 0..n
      BY <2>2
    <3>3. rest \in Seq(EditsMade)
      BY <3>1, <3>2, Zenon
    <3>4. edit.selectedCell \in DOMAIN Entered
      BY <2>2 DEF EditsMade
    <3> QED
      BY <2>3, <3>3, <3>4 DEF KeepsClues
  <2> HIDE DEF edit, before, rest
  <2>5. /\ state' \in PencilState /\ state'.userGrid = before /\ state'.history = rest
        /\ state'.isComplete = FALSE
    BY <1>1, <2>1, <2>4 DEF PencilState
  <2>6. ended' = FALSE /\ sent' = sent
    BY <1>1, <2>1
  <2> QED
    BY <1>1, <2>3, <2>5, <2>6 DEF PencilInv, PencilBoard
<1>11. CASE UNCHANGED boardVars
  <2>1. state' = state /\ ended' = ended /\ sent' = sent
    BY <1>11 DEF boardVars
  <2> QED
    BY <1>1, <2>1, PencilSelects
<1> QED
  BY <1>4, <1>5, <1>6, <1>8, <1>9, <1>10, <1>11 DEF Pencil!Next


(* Sudoku: the clues stand, a cell with a value has no notes, the board is *)
(* complete exactly when it is full and nothing on it clashes, undoing     *)
(* every edit of the history gives the puzzle as served, a complete board  *)
(* is handed over at once and is what was handed over last, and what is    *)
(* handed over has every digit in every row, column and box and keeps the  *)
(* clues.                                                                  *)
THEOREM SudokuCorrect ==
    ASSUME PencilPuzzle
    PROVE  Pencil!Init /\ [][Pencil!Next]_boardVars =>
               [](/\ Pencil!Legal /\ Pencil!Explained /\ Pencil!Finished
                  /\ \A i \in DOMAIN sent : Pencil!Right(sent[i]))
<1> DEFINE Judged == Pencil!GetConflictingCells = {} /\ (\A c \in Pencil!Cells : state.userGrid[c].value # 0)
                       <=> state.isComplete
           Sent == \A i \in DOMAIN sent : Pencil!Right(sent[i])
<1>1. Pencil!Init => PencilInv
  <2> SUFFICES ASSUME Pencil!Init PROVE PencilInv
    OBVIOUS
  <2>1. state = Pencil!CreateInitialState /\ ended = FALSE /\ sent = <<>>
    BY DEF Pencil!Init, Pencil!Starts
  <2>2. /\ state.userGrid = PencilClues /\ state.history = <<>> /\ state.isComplete = FALSE
        /\ state.selectedCell = Pencil!Nowhere /\ state.isNotesMode = FALSE
    BY <2>1 DEF Pencil!CreateInitialState, PencilClues
  <2>3. PencilClues = [c \in Squares |-> [value |-> Puzzle[c[1]][c[2]], notes |-> {}]]
    BY SquaresAreCells DEF PencilClues, Pencil!CreateInitialState
  <2>4. KeepsClues(PencilClues)
    <3>1. PencilClues \in PencilGrids
      BY <2>3 DEF PencilPuzzle, PencilGrids, Pencilled
    <3> QED
      BY <2>3, <3>1 DEF KeepsClues
  <2>5. Undoable(<<>>, PencilClues)
    <3> DEFINE trail == <<PencilClues>>
    <3>1. trail \in Seq(PencilGrids) /\ Len(trail) = 1 /\ trail[1] = PencilClues
      BY <2>4 DEF KeepsClues
    <3>2. Len(<<>>) = 0 /\ \A i \in DOMAIN <<>> : FALSE
      OBVIOUS
    <3> HIDE DEF trail
    <3>3. Trail(trail, <<>>, PencilClues)
      BY <3>1, <3>2 DEF Trail
    <3> QED
      BY <3>1, <3>2, <3>3 DEF Undoable
  <2>6. state \in PencilState
    <3>1. state = [userGrid |-> PencilClues, selectedCell |-> Pencil!Nowhere, history |-> <<>>,
                   isComplete |-> FALSE, isNotesMode |-> FALSE]
      BY <2>1 DEF Pencil!CreateInitialState, PencilClues
    <3>2. PencilClues \in PencilGrids /\ <<>> \in Seq(EditsMade)
      BY <2>4 DEF KeepsClues
    <3> QED
      BY <3>1, <3>2 DEF PencilState
  <2>7. ~Pencil!IsGridSolved(state.userGrid) /\ KeepsClues(state.userGrid) /\ Undoable(state.history, state.userGrid)
    BY <2>2, <2>4, <2>5 DEF PencilPuzzle
  <2>8. ended = FALSE /\ state.isComplete = FALSE /\ sent \in Seq(PencilFinishes)
    BY <2>1, <2>2
  <2> QED
    BY <2>6, <2>7, <2>8 DEF PencilInv, PencilBoard
<1>2. PencilInv /\ [Pencil!Next]_boardVars => PencilInv'
  BY PencilStep
<1>3. PencilInv => Pencil!Legal /\ Pencil!Explained /\ Pencil!Finished /\ Sent
  <2> SUFFICES ASSUME PencilInv PROVE Pencil!Legal /\ Pencil!Explained /\ Pencil!Finished /\ Sent
    OBVIOUS
  <2>1. /\ state \in PencilState /\ KeepsClues(state.userGrid)
        /\ Undoable(state.history, state.userGrid)
        /\ state.isComplete <=> Pencil!IsGridSolved(state.userGrid)
        /\ ended <=> state.isComplete
        /\ sent \in Seq(PencilFinishes)
        /\ ended => sent # <<>> /\ sent[Len(sent)] = Pencil!Finish(state)
    BY PencilFields
  <2>2. Pencil!Legal
    <3>1. Pencil!CreateInitialState.userGrid = PencilClues
      BY DEF PencilClues
    <3> QED
      BY <2>1, <3>1, SquaresAreCells DEF Pencil!Legal, KeepsClues
  <2>3. Pencil!Finished
    BY <2>1 DEF Pencil!Finished, Pencil!Last
  <2>4. Judged
    <3>1. \A c \in Pencil!Cells : state.userGrid[c].value \in {0} \cup 1..Pencil!GRID_SIZE
      BY <2>1, SquaresAreCells DEF KeepsClues, PencilGrids, Pencilled
    <3>2. 0 \notin 1..Pencil!GRID_SIZE
      BY SquaresAreCells DEF Digits
    <3> QED
      BY <2>1, <3>1, <3>2 DEF Pencil!GetConflictingCells, Pencil!IsGridSolved
  <2>5. Pencil!Explained
    <3> HIDE DEF Judged
    <3>1. PICK trail : Trail(trail, state.history, state.userGrid)
      BY <2>1 DEF Undoable
    <3>2. state.history \in Seq(EditsMade) /\ state.userGrid \in PencilGrids
      BY <2>1 DEF PencilState, KeepsClues
    <3>3. Pencil!FoldRight(Pencil!Before, state.history, state.userGrid) = PencilClues
      BY <3>1, <3>2, UndoneAll
    <3>4. PencilClues = Pencil!CreateInitialState.userGrid
      BY DEF PencilClues
    <3> QED
      BY <2>4, <3>3, <3>4 DEF Pencil!Explained, Judged
  <2>6. Sent
    <3>1. \A i \in DOMAIN sent : sent[i] \in PencilFinishes
      BY <2>1
    <3> QED
      BY <3>1 DEF PencilFinishes
  <2> QED
    BY <2>2, <2>3, <2>4, <2>5, <2>6
<1> QED
  BY <1>1, <1>2, <1>3, PTL

------------------------------------------------------------------------------
(* Word Search.                                                            *)
CONSTANTS SearchSize, Grid, SearchWords
Search == INSTANCE WordSearch WITH Size <- SearchSize, Words <- SearchWords

SearchPuzzle ==
    /\ SearchSize \in Nat
    /\ IsFiniteSet(SearchWords) /\ SearchWords # {} /\ <<>> \notin SearchWords

SearchFields == {"foundWords", "foundPlacements", "selectionStart", "selectionEnd", "gameStatus", "replay"}

SearchFinishes == {f \in [foundWords : Seq(SearchWords)] : Search!Right(f)}

EightWays ==
    {"horizontal", "horizontal-reverse", "vertical", "vertical-reverse", "diagonal-down",
     "diagonal-down-reverse", "diagonal-up", "diagonal-up-reverse"}

(* The word is read off the grid from its start to its end.                *)
Spells(placed) ==
    LET vector  == Search!GetDirectionVector(placed.direction)
        Step(k) == <<placed.start[1] + k * vector[1], placed.start[2] + k * vector[2]>>
    IN /\ \A k \in DOMAIN placed.word : placed.word[k] = Grid[Step(k - 1)]
       /\ placed.end = Step(Len(placed.word) - 1)

Placements ==
    {p \in [word : SearchWords, start : Search!Positions, end : Search!Positions, direction : EightWays] : Spells(p)}

(* Each word found once, with its placement.                               *)
SearchFound(found, placements) ==
    /\ found \in Seq(SearchWords) /\ IsInjective(found)
    /\ placements \in Seq(Placements) /\ Len(placements) = Len(found)
    /\ \A i \in DOMAIN found : placements[i].word = found[i]

Selected(from, to) ==
    \/ from \in Search!Positions /\ to \in Search!Positions
    \/ from = <<>> /\ to = <<>>

SearchPlayed(s) ==
    /\ DOMAIN s = SearchFields /\ s.replay \in BOOLEAN
    /\ SearchFound(s.foundWords, s.foundPlacements)
    /\ Selected(s.selectionStart, s.selectionEnd)
    /\ s.gameStatus = IF Len(s.foundWords) = Cardinality(SearchWords) THEN "won" ELSE "playing"

SearchBoard(s, over, finishes) ==
    /\ SearchPlayed(s)
    /\ over \in BOOLEAN /\ finishes \in Seq(SearchFinishes)
    /\ GivenOnce(s.gameStatus = "won", s.replay, Search!Finish(s), over, finishes)

SearchInv == SearchBoard(state, ended, sent)

LEMMA GreaterOf ==
    ASSUME NEW a \in Int, NEW b \in Int PROVE Search!Max({a, b}) = IF a >= b THEN a ELSE b
<1> DEFINE m == IF a >= b THEN a ELSE b
<1>1. m \in {a, b} /\ \A x \in {a, b} : m >= x
  OBVIOUS
<1>2. \A x \in {a, b} : (\A y \in {a, b} : x >= y) => x = m
  OBVIOUS
<1> HIDE DEF m
<1>3. Search!Max({a, b}) = m
  BY <1>1, <1>2 DEF Search!Max
<1> QED
  BY <1>3 DEF m

LEMMA AbsIs == ASSUME NEW n \in Int PROVE Search!Abs(n) = IF n >= 0 THEN n ELSE -n
<1>1. Search!Abs(n) = IF n >= -n THEN n ELSE -n
  BY GreaterOf DEF Search!Abs
<1> QED
  BY <1>1

(* One coordinate of a straight line of m further cells.                   *)
LEMMA Along ==
    ASSUME NEW a \in Int, NEW b \in Int, NEW m \in Nat, a = b \/ Search!Abs(b - a) = m
    PROVE  /\ b = a + m * Search!Sign(b - a)
           /\ \A k \in 0..m : a + (m - k) * Search!Sign(b - a) = b + k * Search!Sign(a - b)
<1>1. CASE a = b
  <2>1. Search!Sign(b - a) = 0 /\ Search!Sign(a - b) = 0
    BY <1>1 DEF Search!Sign
  <2> QED
    BY <1>1, <2>1
<1>2. CASE b - a > 0
  <2>1. Search!Sign(b - a) = 1 /\ Search!Sign(a - b) = -1 /\ m = b - a
    BY <1>2, AbsIs DEF Search!Sign
  <2> QED
    BY <1>2, <2>1
<1>3. CASE b - a < 0
  <2>1. Search!Sign(b - a) = -1 /\ Search!Sign(a - b) = 1 /\ m = a - b
    BY <1>3, AbsIs DEF Search!Sign
  <2> QED
    BY <1>3, <2>1
<1> QED
  BY <1>1, <1>2, <1>3

Reach(from, to) == Search!Max({Search!Abs(to[1] - from[1]), Search!Abs(to[2] - from[2])})

LEMMA Straight ==
    ASSUME NEW from \in Search!Positions, NEW to \in Search!Positions, Search!IsLine(from, to)
    PROVE  /\ Reach(from, to) \in Nat /\ Reach(to, from) = Reach(from, to) /\ Search!IsLine(to, from)
           /\ from[1] = to[1] \/ Search!Abs(to[1] - from[1]) = Reach(from, to)
           /\ from[2] = to[2] \/ Search!Abs(to[2] - from[2]) = Reach(from, to)
           /\ Reach(from, to) = 0 <=> from[1] = to[1] /\ from[2] = to[2]
<1> DEFINE a == from[1]
           b == from[2]
           c == to[1]
           d == to[2]
<1>1. a \in Int /\ b \in Int /\ c \in Int /\ d \in Int
  BY DEF Search!Positions
<1>2. /\ Search!Abs(c - a) = IF c - a >= 0 THEN c - a ELSE a - c
      /\ Search!Abs(a - c) = IF a - c >= 0 THEN a - c ELSE c - a
      /\ Search!Abs(d - b) = IF d - b >= 0 THEN d - b ELSE b - d
      /\ Search!Abs(b - d) = IF b - d >= 0 THEN b - d ELSE d - b
  BY <1>1, AbsIs
<1>3. Reach(from, to) = IF Search!Abs(c - a) >= Search!Abs(d - b) THEN Search!Abs(c - a) ELSE Search!Abs(d - b)
  BY <1>1, <1>2, GreaterOf DEF Reach
<1>4. Reach(to, from) = IF Search!Abs(a - c) >= Search!Abs(b - d) THEN Search!Abs(a - c) ELSE Search!Abs(b - d)
  BY <1>1, <1>2, GreaterOf DEF Reach
<1>5. a = c \/ b = d \/ Search!Abs(c - a) = Search!Abs(d - b)
  BY DEF Search!IsLine
<1>6. Search!IsLine(to, from)
  BY <1>1, <1>2, <1>5 DEF Search!IsLine
<1> HIDE DEF a, b, c, d
<1>7. /\ Reach(from, to) \in Nat /\ Reach(to, from) = Reach(from, to)
      /\ a = c \/ Search!Abs(c - a) = Reach(from, to)
      /\ b = d \/ Search!Abs(d - b) = Reach(from, to)
      /\ Reach(from, to) = 0 <=> a = c /\ b = d
  BY <1>1, <1>2, <1>3, <1>4, <1>5
<1> QED
  BY <1>6, <1>7 DEF a, b, c, d

LEMMA WordRead ==
    ASSUME NEW from \in Search!Positions, NEW to \in Search!Positions, Search!IsLine(from, to)
    PROVE  Search!GetWordFromPositions(from, to) =
             [i \in 1..(Reach(from, to) + 1) |->
                Grid[<<from[1] + (i - 1) * Search!Sign(to[1] - from[1]), from[2] + (i - 1) * Search!Sign(to[2] - from[2])>>]]
  BY DEF Search!GetWordFromPositions, Reach

(* The same cells from the other end.                                      *)
LEMMA Backwards ==
    ASSUME NEW from \in Search!Positions, NEW to \in Search!Positions, Search!IsLine(from, to)
    PROVE  Search!Reverse(Search!GetWordFromPositions(from, to)) = Search!GetWordFromPositions(to, from)
<1> DEFINE m == Reach(from, to)
           u == Search!Sign(to[1] - from[1])
           v == Search!Sign(to[2] - from[2])
           x == Search!Sign(from[1] - to[1])
           y == Search!Sign(from[2] - to[2])
           there == [i \in 1..(m + 1) |-> Grid[<<from[1] + (i - 1) * u, from[2] + (i - 1) * v>>]]
           back == [i \in 1..(m + 1) |-> Grid[<<to[1] + (i - 1) * x, to[2] + (i - 1) * y>>]]
<1>1. /\ m \in Nat /\ Reach(to, from) = m /\ Search!IsLine(to, from)
      /\ from[1] = to[1] \/ Search!Abs(to[1] - from[1]) = m
      /\ from[2] = to[2] \/ Search!Abs(to[2] - from[2]) = m
  BY Straight
<1>2. from[1] \in Int /\ from[2] \in Int /\ to[1] \in Int /\ to[2] \in Int
  BY DEF Search!Positions
<1>3. \A k \in 0..m : from[1] + (m - k) * u = to[1] + k * x /\ from[2] + (m - k) * v = to[2] + k * y
  <2>1. /\ from[1] = to[1] \/ Search!Abs(to[1] - from[1]) = m
        /\ from[2] = to[2] \/ Search!Abs(to[2] - from[2]) = m
        /\ m \in Nat
    BY <1>1
  <2> HIDE DEF m
  <2>2. \A k \in 0..m : from[1] + (m - k) * u = to[1] + k * x
    <3> SUFFICES \A k \in 0..m : from[1] + (m - k) * Search!Sign(to[1] - from[1]) = to[1] + k * Search!Sign(from[1] - to[1])
      OBVIOUS
    <3> HIDE DEF x, u, v, y
    <3> QED
      BY <1>2, <2>1, Along
  <2>3. \A k \in 0..m : from[2] + (m - k) * v = to[2] + k * y
    <3> SUFFICES \A k \in 0..m : from[2] + (m - k) * Search!Sign(to[2] - from[2]) = to[2] + k * Search!Sign(from[2] - to[2])
      OBVIOUS
    <3> HIDE DEF x, u, v, y
    <3> QED
      BY <1>2, <2>1, Along
  <2> QED
    BY <2>2, <2>3
<1>4. Search!GetWordFromPositions(from, to) = there /\ Search!GetWordFromPositions(to, from) = back
  BY <1>1, WordRead
<1> HIDE DEF m, u, v, x, y
<1>5. Len(there) = m + 1
  BY <1>1
<1>6. ASSUME NEW i \in 1..(m + 1) PROVE there[((m + 1) - i) + 1] = back[i]
  <2>1. i - 1 \in 0..m /\ ((m + 1) - i) + 1 \in 1..(m + 1) /\ (((m + 1) - i) + 1) - 1 = m - (i - 1)
    BY <1>1
  <2>2. there[((m + 1) - i) + 1] = Grid[<<from[1] + (m - (i - 1)) * u, from[2] + (m - (i - 1)) * v>>]
    BY <2>1
  <2>3. back[i] = Grid[<<to[1] + (i - 1) * x, to[2] + (i - 1) * y>>]
    OBVIOUS
  <2> QED
    BY <1>3, <2>1, <2>2, <2>3
<1> HIDE DEF there
<1>7. Search!Reverse(there) = [i \in 1..(m + 1) |-> there[((m + 1) - i) + 1]]
  <2> DEFINE Turned(n) == [i \in 1..n |-> there[(n - i) + 1]]
  <2>1. Search!Reverse(there) = Turned(Len(there))
    BY DEF Search!Reverse
  <2> SUFFICES Search!Reverse(there) = Turned(m + 1)
    OBVIOUS
  <2> HIDE DEF Turned
  <2> QED
    BY <1>5, <2>1
<1>8. Search!Reverse(there) = back
  BY <1>6, <1>7
<1> QED
  BY <1>4, <1>8

LEMMA Forwards ==
    ASSUME NEW from \in Search!Positions, NEW to \in Search!Positions, Search!IsLine(from, to)
    PROVE  /\ Search!DirectionOf(from, to) \in EightWays
           /\ Spells([word |-> Search!GetWordFromPositions(from, to), start |-> from, end |-> to,
                      direction |-> Search!DirectionOf(from, to)])
<1> DEFINE m == Reach(from, to)
           u == Search!Sign(to[1] - from[1])
           v == Search!Sign(to[2] - from[2])
           word == [i \in 1..(m + 1) |-> Grid[<<from[1] + (i - 1) * u, from[2] + (i - 1) * v>>]]
           vector == Search!GetDirectionVector(Search!DirectionOf(from, to))
<1>1. /\ m \in Nat
      /\ from[1] = to[1] \/ Search!Abs(to[1] - from[1]) = m
      /\ from[2] = to[2] \/ Search!Abs(to[2] - from[2]) = m
      /\ m = 0 <=> from[1] = to[1] /\ from[2] = to[2]
  BY Straight
<1>2. from[1] \in Int /\ from[2] \in Int /\ to[1] \in Int /\ to[2] \in Int
  BY DEF Search!Positions
<1>3. to[1] = from[1] + m * u /\ to[2] = from[2] + m * v
  <2> HIDE DEF m
  <2> QED
    BY <1>1, <1>2, Along
<1>4. /\ u \in {-1, 0, 1} /\ v \in {-1, 0, 1}
      /\ u = 0 <=> from[1] = to[1]
      /\ v = 0 <=> from[2] = to[2]
  BY <1>2 DEF Search!Sign
<1>5. Search!GetWordFromPositions(from, to) = word
  BY WordRead
<1>6. /\ vector[1] \in Int /\ vector[2] \in Int
      /\ m # 0 => vector[1] = u /\ vector[2] = v
      /\ Search!DirectionOf(from, to) \in EightWays
  <2>1. Search!DirectionOf(from, to) =
          CASE u = 0 -> IF v < 0 THEN "horizontal-reverse" ELSE "horizontal"
            [] u # 0 /\ v = 0 -> IF u < 0 THEN "vertical-reverse" ELSE "vertical"
            [] u > 0 /\ v # 0 -> IF v > 0 THEN "diagonal-down" ELSE "diagonal-up-reverse"
            [] u < 0 /\ v # 0 -> IF v > 0 THEN "diagonal-up" ELSE "diagonal-down-reverse"
    BY DEF Search!DirectionOf
  <2> HIDE DEF u, v, m
  <2>2. m # 0 => u # 0 \/ v # 0
    BY <1>1, <1>4
  <2> DEFINE dir == Search!DirectionOf(from, to)
  <2>3. \/ u = 0 /\ v = -1 /\ dir = "horizontal-reverse"
        \/ u = 0 /\ v = 1 /\ dir = "horizontal"
        \/ u = 0 /\ v = 0 /\ dir = "horizontal"
        \/ u = -1 /\ v = 0 /\ dir = "vertical-reverse"
        \/ u = 1 /\ v = 0 /\ dir = "vertical"
        \/ u = 1 /\ v = 1 /\ dir = "diagonal-down"
        \/ u = 1 /\ v = -1 /\ dir = "diagonal-up-reverse"
        \/ u = -1 /\ v = 1 /\ dir = "diagonal-up"
        \/ u = -1 /\ v = -1 /\ dir = "diagonal-down-reverse"
    BY <1>4, <2>1
  <2> HIDE DEF dir
  <2>4. dir \in EightWays
    BY <2>3 DEF EightWays
  <2>5. vector = Search!GetDirectionVector(dir)
    BY DEF dir
  <2> HIDE DEF vector
  <2>6. vector[1] \in Int /\ vector[2] \in Int
    BY <2>3, <2>5 DEF Search!GetDirectionVector
  <2>7. m # 0 => vector[1] = u /\ vector[2] = v
    BY <2>2, <2>3, <2>5 DEF Search!GetDirectionVector
  <2> QED
    BY <2>4, <2>6, <2>7 DEF dir
<1> HIDE DEF m, u, v, vector
<1>7. \A k \in 0..m : from[1] + k * vector[1] = from[1] + k * u /\ from[2] + k * vector[2] = from[2] + k * v
  <2>1. CASE m = 0
    BY <1>2, <1>4, <1>6, <2>1
  <2>2. CASE m # 0
    BY <1>6, <2>2
  <2> QED
    BY <2>1, <2>2
<1>8. Len(word) = m + 1 /\ DOMAIN word = 1..(m + 1)
  BY <1>1
<1>9. ASSUME NEW k \in 1..(m + 1)
      PROVE  word[k] = Grid[<<from[1] + (k - 1) * vector[1], from[2] + (k - 1) * vector[2]>>]
  <2>1. k - 1 \in 0..m
    BY <1>1
  <2>2. word[k] = Grid[<<from[1] + (k - 1) * u, from[2] + (k - 1) * v>>]
    OBVIOUS
  <2> QED
    BY <1>7, <2>1, <2>2
<1>10. to = <<from[1] + ((m + 1) - 1) * vector[1], from[2] + ((m + 1) - 1) * vector[2]>>
  <2>1. to = <<to[1], to[2]>>
    BY DEF Search!Positions
  <2>2. m \in 0..m /\ (m + 1) - 1 = m
    BY <1>1
  <2> QED
    BY <1>3, <1>7, <2>1, <2>2
<1> DEFINE placed == [word |-> word, start |-> from, end |-> to, direction |-> Search!DirectionOf(from, to)]
<1>11. Search!GetDirectionVector(placed.direction) = vector /\ placed.start = from /\ placed.end = to /\ placed.word = word
  BY DEF vector
<1> HIDE DEF word
<1>12. Spells(placed)
  <2> HIDE DEF placed
  <2> QED
    BY <1>8, <1>9, <1>10, <1>11 DEF Spells
<1> QED
  BY <1>5, <1>6, <1>12

(* A word on the list that was not found yet is found once, and the last   *)
(* one leaves a finish with all of them.                                   *)
LEMMA SearchFurther ==
    ASSUME SearchPuzzle, NEW found, NEW placements, SearchFound(found, placements),
           NEW placed \in Placements, placed.word \notin Range(found)
    PROVE  /\ SearchFound(Append(found, placed.word), Append(placements, placed))
           /\ Len(Append(found, placed.word)) = Len(found) + 1
           /\ Len(found) + 1 = Cardinality(SearchWords) =>
                 [foundWords |-> Append(found, placed.word)] \in SearchFinishes
<1> DEFINE word == placed.word
           more == Append(found, word)
           shown == Append(placements, placed)
<1>1. /\ found \in Seq(SearchWords) /\ IsInjective(found)
      /\ placements \in Seq(Placements) /\ Len(placements) = Len(found)
      /\ \A i \in DOMAIN found : placements[i].word = found[i]
  BY DEF SearchFound
<1>2. word \in SearchWords
  BY DEF Placements
<1>3. /\ more \in Seq(SearchWords) /\ Len(more) = Len(found) + 1
      /\ IsInjective(more)
  BY <1>1, <1>2, AppendedRange
<1>4. shown \in Seq(Placements) /\ Len(shown) = Len(more)
  BY <1>1, <1>3
<1>5. \A i \in DOMAIN more : shown[i].word = more[i]
  BY <1>1, <1>2
<1>6. SearchFound(more, shown)
  BY <1>3, <1>4, <1>5 DEF SearchFound
<1> HIDE DEF more
<1>7. ASSUME Len(more) = Cardinality(SearchWords) PROVE [foundWords |-> more] \in SearchFinishes
  <2>1. IsFiniteSet(SearchWords) /\ Range(more) \subseteq SearchWords
    BY <1>3 DEF SearchPuzzle, Range
  <2>2. Range(more) = SearchWords
    BY <1>3, <1>7, <2>1, AllFound
  <2>3. Search!Right([foundWords |-> more])
    BY <1>7, <2>2 DEF Search!Right, Range, Search!ToSet, Cardinality, Search!Cardinality
  <2> QED
    BY <1>3, <2>3 DEF SearchFinishes
<1> QED
  BY <1>3, <1>6, <1>7 DEF more

LEMMA SearchStart ==
    ASSUME SearchPuzzle, NEW again \in BOOLEAN, NEW s,
           \/ s = Search!CreateInitialState /\ again = FALSE
           \/ s = [Search!CreateInitialState EXCEPT !.replay = again]
    PROVE  SearchPlayed(s) /\ s.gameStatus = "playing" /\ s.replay = again
<1>1. /\ DOMAIN s = SearchFields /\ s.replay = again /\ s.foundWords = <<>> /\ s.foundPlacements = <<>>
      /\ s.selectionStart = <<>> /\ s.selectionEnd = <<>> /\ s.gameStatus = "playing"
  <2> DEFINE first == Search!CreateInitialState
  <2>1. /\ DOMAIN first = SearchFields /\ first.replay = FALSE
        /\ first.foundWords = <<>> /\ first.foundPlacements = <<>>
        /\ first.selectionStart = <<>> /\ first.selectionEnd = <<>> /\ first.gameStatus = "playing"
    BY DEF Search!CreateInitialState, Search!NoPosition, SearchFields
  <2>2. (s = first /\ again = FALSE) \/ s = [first EXCEPT !.replay = again]
    OBVIOUS
  <2> HIDE DEF first
  <2> QED
    BY <2>1, <2>2 DEF SearchFields
<1>2. SearchFound(<<>>, <<>>)
  BY DEF SearchFound, IsInjective
<1>3. Cardinality(SearchWords) # 0
  BY FS_EmptySet DEF SearchPuzzle
<1>4. Len(s.foundWords) # Cardinality(SearchWords)
  <2>1. Len(s.foundWords) = 0
    BY <1>1
  <2> QED
    BY <1>3, <2>1
<1>5. SearchFound(s.foundWords, s.foundPlacements) /\ Selected(s.selectionStart, s.selectionEnd)
  BY <1>1, <1>2 DEF Selected
<1> QED
  BY <1>1, <1>4, <1>5 DEF SearchPlayed

(* What the end of a selection records, in either reading.                 *)
Recorded(s, next, word, start, end) ==
    /\ DOMAIN next = SearchFields /\ next.replay = s.replay
    /\ next.foundWords = Append(s.foundWords, word)
    /\ next.foundPlacements = Append(s.foundPlacements, [word |-> word, start |-> start, end |-> end,
                                                         direction |-> Search!DirectionOf(start, end)])
    /\ next.selectionStart = <<>> /\ next.selectionEnd = <<>>
    /\ next.gameStatus = IF Len(s.foundWords) + 1 = Cardinality(SearchWords) THEN "won" ELSE "playing"

LEMMA SearchFinds ==
    ASSUME SearchPuzzle, NEW s, SearchPlayed(s), s.gameStatus = "playing",
           NEW from \in Search!Positions, NEW to \in Search!Positions,
           NEW word, word \in SearchWords \ Search!ToSet(s.foundWords),
           Search!IsLine(from, to), word = Search!GetWordFromPositions(from, to),
           NEW next,
           Recorded(s, next, word, from, to)
    PROVE  /\ SearchPlayed(next) /\ next.replay = s.replay
           /\ next.gameStatus = "won" => Search!Finish(next) \in SearchFinishes
<1> DEFINE placed == [word |-> word, start |-> from, end |-> to, direction |-> Search!DirectionOf(from, to)]
<1>1. DOMAIN s = SearchFields /\ s.replay \in BOOLEAN /\ SearchFound(s.foundWords, s.foundPlacements)
  BY DEF SearchPlayed
<1>2. placed \in Placements /\ placed.word = word
  BY Forwards DEF Placements
<1>3. word \notin Range(s.foundWords)
  BY DEF Range, Search!ToSet
<1> HIDE DEF placed
<1>4. /\ SearchFound(Append(s.foundWords, word), Append(s.foundPlacements, placed))
      /\ Len(Append(s.foundWords, word)) = Len(s.foundWords) + 1
      /\ Len(s.foundWords) + 1 = Cardinality(SearchWords) => [foundWords |-> Append(s.foundWords, word)] \in SearchFinishes
  BY <1>1, <1>2, <1>3, SearchFurther
<1>5. /\ DOMAIN next = SearchFields /\ next.replay = s.replay
      /\ next.foundWords = Append(s.foundWords, word) /\ next.foundPlacements = Append(s.foundPlacements, placed)
      /\ next.selectionStart = <<>> /\ next.selectionEnd = <<>>
      /\ next.gameStatus = IF Len(s.foundWords) + 1 = Cardinality(SearchWords) THEN "won" ELSE "playing"
  BY DEF Recorded, placed
<1>6. next.gameStatus = "won" => [foundWords |-> next.foundWords] \in SearchFinishes
  BY <1>4, <1>5
<1>8. SearchFound(next.foundWords, next.foundPlacements) /\ Selected(next.selectionStart, next.selectionEnd)
  BY <1>4, <1>5 DEF Selected
<1>9. next.gameStatus = IF Len(next.foundWords) = Cardinality(SearchWords) THEN "won" ELSE "playing"
  BY <1>4, <1>5
<1>10. SearchPlayed(next)
  BY <1>1, <1>5, <1>8, <1>9 DEF SearchPlayed
<1> QED
  BY <1>5, <1>6, <1>10 DEF Search!Finish

LEMMA SearchStep == SearchPuzzle /\ SearchInv /\ [Search!Next]_boardVars => SearchInv'
<1> SUFFICES ASSUME SearchPuzzle, SearchInv, [Search!Next]_boardVars PROVE SearchInv'
  OBVIOUS
<1>0. SearchBoard(state, ended, sent)
  BY DEF SearchInv
<1>1. /\ SearchPlayed(state) /\ DOMAIN state = SearchFields /\ state.replay \in BOOLEAN
      /\ SearchFound(state.foundWords, state.foundPlacements)
      /\ Selected(state.selectionStart, state.selectionEnd)
      /\ state.gameStatus = IF Len(state.foundWords) = Cardinality(SearchWords) THEN "won" ELSE "playing"
      /\ ended \in BOOLEAN /\ sent \in Seq(SearchFinishes)
      /\ GivenOnce(state.gameStatus = "won", state.replay, Search!Finish(state), ended, sent)
  BY <1>0 DEF SearchBoard, SearchPlayed
<1>a. ASSUME NEW s, SearchBoard(s, ended, sent), Search!Plays(s) PROVE SearchInv'
  <2>1. state' = s /\ ended' = ended /\ sent' = sent
    BY <1>a DEF Search!Plays
  <2> QED
    BY <1>a, <2>1 DEF SearchInv
(* A selection is started, dragged or dropped.                             *)
<1>b. ASSUME NEW s, DOMAIN s = SearchFields, s.foundWords = state.foundWords,
             s.foundPlacements = state.foundPlacements, s.gameStatus = state.gameStatus,
             s.replay = state.replay, Selected(s.selectionStart, s.selectionEnd)
      PROVE  SearchPlayed(s) /\ SearchBoard(s, ended, sent)
  BY <1>1, <1>b DEF SearchBoard, SearchPlayed, Search!Finish
<1>2. CASE Search!StartSelection
  <2>1. PICK p \in Search!Positions : Search!Plays([state EXCEPT !.selectionStart = p, !.selectionEnd = p])
    BY <1>2 DEF Search!StartSelection
  <2> DEFINE next == [state EXCEPT !.selectionStart = p, !.selectionEnd = p]
  <2>2. /\ DOMAIN next = SearchFields /\ next.replay = state.replay /\ next.foundWords = state.foundWords
        /\ next.foundPlacements = state.foundPlacements /\ next.gameStatus = state.gameStatus
        /\ next.selectionStart = p /\ next.selectionEnd = p
    BY <1>1 DEF SearchFields
  <2>3. Search!Plays(next)
    BY <2>1
  <2> HIDE DEF next
  <2>4. Selected(next.selectionStart, next.selectionEnd)
    BY <2>2 DEF Selected
  <2> QED
    BY <1>a, <1>b, <2>2, <2>3, <2>4
<1>3. CASE Search!UpdateSelection
  <2>1. PICK p \in Search!Positions : Search!Plays([state EXCEPT !.selectionEnd = p])
    BY <1>3 DEF Search!UpdateSelection
  <2> DEFINE next == [state EXCEPT !.selectionEnd = p]
  <2>2. /\ DOMAIN next = SearchFields /\ next.replay = state.replay /\ next.foundWords = state.foundWords
        /\ next.foundPlacements = state.foundPlacements /\ next.gameStatus = state.gameStatus
        /\ next.selectionStart = state.selectionStart /\ next.selectionEnd = p
    BY <1>1 DEF SearchFields
  <2>3. Search!Plays(next)
    BY <2>1
  <2> HIDE DEF next
  <2>4. state.selectionStart # <<>>
    BY <1>3 DEF Search!UpdateSelection, Search!NoPosition
  <2>5. Selected(next.selectionStart, next.selectionEnd)
    BY <1>1, <2>2, <2>4 DEF Selected
  <2> QED
    BY <1>a, <1>b, <2>2, <2>3, <2>5
<1>4. CASE Search!EndSelection
  <2> DEFINE from == state.selectionStart
             to == state.selectionEnd
             read == Search!GetWordFromPositions(from, to)
             left == SearchWords \ Search!ToSet(state.foundWords)
             cleared == [state EXCEPT !.selectionStart = Search!NoPosition, !.selectionEnd = Search!NoPosition]
             Finds(word, start, end) ==
               [cleared EXCEPT
                   !.foundWords = Append(@, word),
                   !.foundPlacements = Append(@, [word |-> word, start |-> start, end |-> end,
                                                  direction |-> Search!DirectionOf(start, end)]),
                   !.gameStatus = IF Len(state.foundWords) + 1 = Cardinality(SearchWords) THEN "won" ELSE "playing"]
             next == IF read \in left THEN Finds(read, from, to)
                     ELSE IF Search!Reverse(read) \in left THEN Finds(Search!Reverse(read), to, from)
                     ELSE cleared
  <2>1. Search!Shows(next, next.gameStatus = "won", Search!Finish(next)) /\ state.gameStatus = "playing" /\ from # <<>>
    BY <1>4 DEF Search!EndSelection, Search!Playing, Search!NoPosition, Cardinality, Search!Cardinality
  <2>2. from \in Search!Positions /\ to \in Search!Positions
    BY <1>1, <2>1 DEF Selected
  <2>3. read \in left => Search!IsLine(from, to)
    BY DEF Search!GetWordFromPositions, SearchPuzzle
  <2>4. Search!Reverse(read) \in left =>
          Search!IsLine(from, to) /\ Search!IsLine(to, from)
          /\ Search!Reverse(read) = Search!GetWordFromPositions(to, from)
    <3>1. CASE Search!IsLine(from, to)
      BY <2>2, <3>1, Straight, Backwards
    <3>2. CASE ~Search!IsLine(from, to)
      <4>1. read = <<>>
        BY <3>2 DEF Search!GetWordFromPositions
      <4>2. Search!Reverse(<<>>) = <<>>
        BY DEF Search!Reverse
      <4> QED
        BY <4>1, <4>2 DEF SearchPuzzle
    <3> QED
      BY <3>1, <3>2
  <2> HIDE DEF read, left
  <2>f. ASSUME NEW word, NEW start, NEW end PROVE Recorded(state, Finds(word, start, end), word, start, end)
    <3> DEFINE f == Finds(word, start, end)
    <3>1. /\ DOMAIN f = SearchFields /\ f.replay = state.replay
          /\ f.foundWords = Append(state.foundWords, word)
          /\ f.foundPlacements = Append(state.foundPlacements, [word |-> word, start |-> start, end |-> end,
                                                               direction |-> Search!DirectionOf(start, end)])
          /\ f.selectionStart = <<>> /\ f.selectionEnd = <<>>
          /\ f.gameStatus = IF Len(state.foundWords) + 1 = Cardinality(SearchWords) THEN "won" ELSE "playing"
      BY <1>1 DEF SearchFields, Search!NoPosition
    <3> SUFFICES Recorded(state, f, word, start, end)
      OBVIOUS
    <3> HIDE DEF f
    <3> QED
      BY <3>1 DEF Recorded
  <2>5. /\ SearchPlayed(next) /\ next.replay = state.replay
        /\ next.gameStatus = "won" => Search!Finish(next) \in SearchFinishes
    <3>1. CASE read \in left
      <4>1. next = Finds(read, from, to)
        BY <3>1
      <4>2. /\ read \in SearchWords \ Search!ToSet(state.foundWords)
            /\ read = Search!GetWordFromPositions(from, to) /\ Search!IsLine(from, to)
        BY <2>3, <3>1 DEF read, left
      <4>3. Recorded(state, next, read, from, to)
        BY <2>f, <4>1
      <4> HIDE DEF next, from, to
      <4> QED
        BY <1>1, <2>1, <2>2, <4>2, <4>3, SearchFinds
    <3>2. CASE read \notin left /\ Search!Reverse(read) \in left
      <4>1. next = Finds(Search!Reverse(read), to, from)
        BY <3>2
      <4> DEFINE word == Search!Reverse(read)
      <4>2. /\ word \in SearchWords \ Search!ToSet(state.foundWords)
            /\ word = Search!GetWordFromPositions(to, from) /\ Search!IsLine(to, from)
        BY <2>4, <3>2 DEF left
      <4>3. Recorded(state, next, word, to, from)
        BY <2>f, <4>1
      <4> HIDE DEF next, from, to, word
      <4> QED
        BY <1>1, <2>1, <2>2, <4>2, <4>3, SearchFinds
    <3>3. CASE read \notin left /\ Search!Reverse(read) \notin left
      <4>1. next = cleared
        BY <3>3
      <4>2. /\ DOMAIN next = SearchFields /\ next.replay = state.replay /\ next.foundWords = state.foundWords
            /\ next.foundPlacements = state.foundPlacements /\ next.gameStatus = state.gameStatus
            /\ next.selectionStart = <<>> /\ next.selectionEnd = <<>>
        BY <1>1, <4>1 DEF SearchFields, Search!NoPosition
      <4> HIDE DEF next
      <4>3. Selected(next.selectionStart, next.selectionEnd)
        BY <4>2 DEF Selected
      <4> QED
        BY <1>b, <2>1, <4>2, <4>3
    <3> QED
      BY <3>1, <3>2, <3>3
  <2> HIDE DEF next
  <2>6. Shows(next, next.gameStatus = "won", Search!Finish(next))
    BY <2>1 DEF Search!Shows, Shows
  <2>7. /\ state.replay \in BOOLEAN /\ ended = state.replay
        /\ Len(sent) = (IF ended THEN 1 ELSE 0) /\ sent \in Seq(SearchFinishes)
    BY <1>1, <2>1 DEF GivenOnce
  <2> DEFINE over == next.gameStatus = "won"
             data == Search!Finish(next)
  <2>8. /\ state' = next /\ ended' \in BOOLEAN /\ sent' \in Seq(SearchFinishes)
        /\ GivenOnce(over, state.replay, data, ended', sent')
    <3>1. over \in BOOLEAN /\ (over => data \in SearchFinishes) /\ Shows(next, over, data)
      BY <2>5, <2>6
    <3> HIDE DEF over, data
    <3> QED
      BY <2>7, <3>1, RenderAgain
  <2>9. SearchBoard(next, ended', sent')
    BY <2>5, <2>8 DEF SearchBoard
  <2> QED
    BY <2>8, <2>9 DEF SearchInv
<1>5. CASE Search!HandleReset
  <2> DEFINE s == [Search!CreateInitialState EXCEPT !.replay = ended]
  <2>1. Search!Plays(s)
    BY <1>5 DEF Search!HandleReset, Search!Replays, Search!StartsOver
  <2>2. SearchPlayed(s) /\ s.gameStatus = "playing" /\ s.replay = ended
    BY <1>1, SearchStart
  <2> HIDE DEF s
  <2>3. GivenOnce(s.gameStatus = "won", s.replay, Search!Finish(s), ended, sent)
    BY <1>1, <2>2 DEF GivenOnce
  <2>4. SearchBoard(s, ended, sent)
    BY <1>1, <2>2, <2>3 DEF SearchBoard
  <2> QED
    BY <1>a, <2>1, <2>4
<1>6. CASE UNCHANGED boardVars
  BY <1>6 DEF SearchInv, boardVars
<1> QED
  BY <1>2, <1>3, <1>4, <1>5, <1>6 DEF Search!Next

(* Word Search, for every grid and list of words of it: a word is found    *)
(* once and is one of the list's; a selection has both ends or none; each  *)
(* recorded placement, walked from its start in its direction, spells its  *)
(* word off the grid and stops at its end, whichever end the player        *)
(* dragged from; the page says won exactly when every word is found; the   *)
(* first board won since the page was opened, and no other, is handed      *)
(* over; and what is handed over has all the words, each once.             *)
THEOREM WordSearchCorrect ==
    ASSUME SearchPuzzle
    PROVE  Search!Init /\ [][Search!Next]_boardVars =>
               [](/\ Search!Legal /\ Search!Explained /\ Search!Finished
                  /\ \A i \in DOMAIN sent : Search!Right(sent[i]))
<1>1. Search!Init => SearchInv
  <2> SUFFICES ASSUME Search!Init PROVE SearchInv
    OBVIOUS
  <2>1. state = Search!CreateInitialState /\ ended = FALSE /\ sent = <<>>
    BY DEF Search!Init, Search!Starts
  <2>2. SearchPlayed(state) /\ state.gameStatus = "playing" /\ state.replay = FALSE
    BY <2>1, SearchStart
  <2>3. sent \in Seq(SearchFinishes) /\ GivenOnce(state.gameStatus = "won", FALSE, Search!Finish(state), ended, sent)
    BY <2>1, <2>2 DEF GivenOnce
  <2> QED
    BY <2>1, <2>2, <2>3 DEF SearchInv, SearchBoard
<1>2. SearchInv /\ [Search!Next]_boardVars => SearchInv'
  BY SearchStep
<1>3. SearchInv => /\ Search!Legal /\ Search!Explained /\ Search!Finished
                   /\ \A i \in DOMAIN sent : Search!Right(sent[i])
  <2> SUFFICES ASSUME SearchInv
               PROVE  /\ Search!Legal /\ Search!Explained /\ Search!Finished
                      /\ \A i \in DOMAIN sent : Search!Right(sent[i])
    OBVIOUS
  <2> DEFINE found == state.foundWords
  <2>1. /\ SearchFound(found, state.foundPlacements)
        /\ Selected(state.selectionStart, state.selectionEnd)
        /\ state.gameStatus = IF Len(found) = Cardinality(SearchWords) THEN "won" ELSE "playing"
        /\ sent \in Seq(SearchFinishes)
        /\ GivenOnce(state.gameStatus = "won", state.replay, Search!Finish(state), ended, sent)
    BY DEF SearchInv, SearchBoard, SearchPlayed
  <2>2. /\ found \in Seq(SearchWords) /\ IsInjective(found)
        /\ state.foundPlacements \in Seq(Placements) /\ Len(state.foundPlacements) = Len(found)
        /\ \A i \in DOMAIN found : state.foundPlacements[i].word = found[i]
    BY <2>1 DEF SearchFound
  <2>3. Range(found) \subseteq SearchWords /\ Search!ToSet(found) = Range(found)
    BY <2>2 DEF Range, Search!ToSet
  <2>4. Search!Legal
    <3>1. state.selectionStart = <<>> <=> state.selectionEnd = <<>>
      BY <2>1 DEF Selected, Search!Positions
    <3>2. Search!IsInjective(found)
      BY <2>2 DEF Search!IsInjective, IsInjective
    <3> QED
      BY <2>3, <3>1, <3>2 DEF Search!Legal, Search!NoPosition
  <2>5. Search!Explained
    <3>1. ASSUME NEW i \in DOMAIN state.foundPlacements
          PROVE  state.foundPlacements[i].word = found[i] /\ Spells(state.foundPlacements[i])
      <4>1. i \in DOMAIN found /\ state.foundPlacements[i] \in Placements
        BY <2>2, <3>1
      <4> QED
        BY <2>2, <4>1 DEF Placements
    <3> QED
      BY <2>2, <3>1 DEF Search!Explained, Spells
  <2>6. Search!Finished
    <3>1. Len(found) = Cardinality(SearchWords) <=> Range(found) = SearchWords
      BY <2>2, <2>3, AllFound DEF SearchPuzzle
    <3>2. Search!ToSet(state.foundWords) = SearchWords <=> state.gameStatus = "won"
      BY <2>1, <2>3, <3>1
    <3>3. Search!HandsOverTheFirst(state.gameStatus = "won", state.replay, Search!Finish(state))
      BY <2>1 DEF Search!HandsOverTheFirst, GivenOnce
    <3> QED
      BY <3>2, <3>3 DEF Search!Finished
  <2>7. \A i \in DOMAIN sent : Search!Right(sent[i])
    <3>1. sent \in Seq(SearchFinishes)
      BY <2>1
    <3>2. \A i \in DOMAIN sent : sent[i] \in SearchFinishes
      BY <3>1
    <3> QED
      BY <3>2, Zenon DEF SearchFinishes
  <2> QED
    BY <2>4, <2>5, <2>6, <2>7
<1> QED
  BY <1>1, <1>2, <1>3, PTL

------------------------------------------------------------------------------
(* Pattern Match.                                                          *)
CONSTANTS Cards, Faces, MaxMistakes
Match == INSTANCE PatternMatch

MatchPuzzle ==
    /\ IsFiniteSet(Cards) /\ \A a, b \in Cards : DOMAIN Faces[a] = DOMAIN Faces[b]
    /\ Match!FindAllSets # {}

Triples == {t \in Seq(Cards) : Len(t) = 3 /\ IsInjective(t) /\ Match!IsValidSet(t)}

Picks == {ids \in Seq(Cards) : IsInjective(ids) /\ Len(ids) < 3}

MatchState ==
    [selectedIds : Picks, foundSets : Seq(Triples),
     mistakes : Nat, status : {"playing", "won", "gave_up"}]

SetsOf(found) == [i \in DOMAIN found |-> ToSet(found[i])]
CardsOf(found) == UNION {ToSet(found[i]) : i \in DOMAIN found}

(* Found sets share no card.                                               *)
FoundApart(found) ==
    /\ found \in Seq(Triples)
    /\ \A i, j \in DOMAIN found : i # j => ToSet(found[i]) \cap ToSet(found[j]) = {}
    /\ IsFiniteSet(CardsOf(found)) /\ Cardinality(CardsOf(found)) = 3 * Len(found)

MatchFinishes ==
    {f \in [status : {"won", "lost"}, foundSets : Seq(Triples), mistakes : Nat] : Match!Right(f)}

MatchBoard(s, over, finishes) ==
    /\ s \in MatchState /\ FoundApart(s.foundSets)
    /\ ToSet(s.selectedIds) \cap CardsOf(s.foundSets) = {}
    /\ s.status = "won" <=> Len(s.foundSets) = Match!TotalSets
    /\ over = (s.status # "playing")
    /\ finishes \in Seq(MatchFinishes)
    /\ over => finishes # <<>> /\ Last(finishes) = Match!Finish(s)

MatchInv == MatchBoard(state, ended, sent)

LEMMA MatchCounts ==
    /\ \A S : Match!Cardinality(S) = Cardinality(S)
    /\ \A s : Match!ToSet(s) = ToSet(s)
    /\ \A s : Match!IsInjective(s) = IsInjective(s)
<1>1. \A S : Match!Cardinality(S) = Cardinality(S)
  BY DEF Match!Cardinality, Cardinality
<1>2. \A s : Match!ToSet(s) = ToSet(s)
  BY DEF Match!ToSet, ToSet
<1>3. \A s : Match!IsInjective(s) = IsInjective(s)
  BY DEF Match!IsInjective, IsInjective
<1> QED
  BY <1>1, <1>2, <1>3

(* Three different cards that make a set, in the order they were picked,   *)
(* are one of the sets among the cards.                                    *)
LEMMA TripleIsASet ==
    ASSUME MatchPuzzle, NEW t \in Triples
    PROVE  /\ ToSet(t) \in Match!FindAllSets /\ ToSet(t) \subseteq Cards
           /\ IsFiniteSet(ToSet(t)) /\ Cardinality(ToSet(t)) = 3
<1> DEFINE S == ToSet(t)
<1>1. /\ t \in Seq(Cards) /\ DOMAIN t = 1..3 /\ t[1] \in Cards /\ t[2] \in Cards /\ t[3] \in Cards
      /\ t[1] # t[2] /\ t[2] # t[3] /\ t[1] # t[3]
  <2> HIDE DEF S
  <2>1. t \in Seq(Cards) /\ Len(t) = 3 /\ IsInjective(t)
    BY DEF Triples
  <2>2. DOMAIN t = 1..3
    BY <2>1
  <2>3. t[1] \in Cards /\ t[2] \in Cards /\ t[3] \in Cards
    <3>1. \A i \in DOMAIN t : t[i] \in Cards
      BY <2>1
    <3> QED
      BY <2>2, <3>1
  <2>4. \A a, b \in 1..3 : t[a] = t[b] => a = b
    BY <2>1, <2>2 DEF IsInjective
  <2>5. t[1] # t[2] /\ t[2] # t[3] /\ t[1] # t[3]
    BY <2>4
  <2> QED
    BY <2>1, <2>2, <2>3, <2>5
<1>2. S = {t[1], t[2], t[3]}
  BY <1>1 DEF ToSet
<1>3. IsFiniteSet(S) /\ Cardinality(S) = 3
  <2>1. IsFiniteSet(1..3) /\ Cardinality(1..3) = 3
    BY FirstNumbers
  <2>2. t \in [1..3 -> S] /\ (\A a, b \in 1..3 : t[a] = t[b] => a = b) /\ \A x \in S : \E a \in 1..3 : t[a] = x
    BY <1>1, <1>2
  <2>3. t \in Surjection(1..3, S)
    BY <2>2 DEF Surjection
  <2>4. IsFiniteSet(S)
    BY <2>1, <2>3, FS_Surjection
  <2> QED
    BY <2>1, <2>2, <2>4, AsMany
<1> DEFINE Orders == {f \in [1..3 -> S] : IsInjective(f)}
           g == Match!SetToSeq(S)
<1>4. g \in Orders
  <2>1. t \in Orders
    BY <1>1, <1>2 DEF Triples
  <2>2. g = CHOOSE f \in [1..3 -> S] : IsInjective(f)
    BY <1>3, MatchCounts DEF Match!SetToSeq
  <2> QED
    BY <2>1, <2>2
<1>5. /\ g[1] \in S /\ g[2] \in S /\ g[3] \in S /\ g[1] # g[2] /\ g[2] # g[3] /\ g[1] # g[3]
  BY <1>4 DEF IsInjective
<1>6. Match!IsValidSet(g)
  <2> HIDE DEF g
  <2>1. g[1] \in Cards /\ t[1] \in Cards
    BY <1>1, <1>2, <1>5
  <2>2. DOMAIN Faces[g[1]] = DOMAIN Faces[t[1]]
    BY <2>1 DEF MatchPuzzle
  <2>3. ASSUME NEW p \in DOMAIN Faces[t[1]]
        PROVE  Match!IsValidProperty(Faces[g[1]][p], Faces[g[2]][p], Faces[g[3]][p])
    <3>1. Match!IsValidProperty(Faces[t[1]][p], Faces[t[2]][p], Faces[t[3]][p])
      BY DEF Triples, Match!IsValidSet
    <3> QED
      BY <1>2, <1>5, <3>1 DEF Match!IsValidProperty
  <2> QED
    BY <2>2, <2>3 DEF Match!IsValidSet
<1>7. S \subseteq Cards
  BY <1>1, <1>2
<1> QED
  BY <1>3, <1>6, <1>7, MatchCounts DEF Match!FindAllSets

(* As many found sets as there are: all of them, and never more.           *)
LEMMA FoundAreAll ==
    ASSUME MatchPuzzle, NEW found, FoundApart(found)
    PROVE  /\ Match!TotalSets \in Nat /\ Match!TotalSets # 0 /\ Len(found) =< Match!TotalSets
           /\ Len(found) = Match!TotalSets <=> {ToSet(found[i]) : i \in DOMAIN found} = Match!FindAllSets
<1> DEFINE All == Match!FindAllSets
           sets == SetsOf(found)
<1>1. IsFiniteSet(All)
  <2>1. IsFiniteSet(SUBSET Cards)
    BY FS_SUBSET DEF MatchPuzzle
  <2> QED
    BY <2>1, FS_Subset DEF Match!FindAllSets
<1>2. Match!TotalSets = Cardinality(All) /\ Cardinality(All) \in Nat /\ Cardinality(All) # 0
  <2>1. Match!TotalSets = Cardinality(All)
    BY MatchCounts DEF Match!TotalSets
  <2> QED
    BY <1>1, <2>1, FS_CardinalityType, FS_EmptySet DEF MatchPuzzle
<1>3. found \in Seq(Triples) /\ Len(found) \in Nat /\ DOMAIN found = 1..Len(found)
  BY DEF FoundApart
<1>4. \A i \in DOMAIN found : ToSet(found[i]) \in All /\ ToSet(found[i]) # {}
  <2> TAKE i \in DOMAIN found
  <2>1. found[i] \in Triples
    BY <1>3
  <2>2. Cardinality(ToSet(found[i])) = 3 /\ ToSet(found[i]) \in All
    BY <2>1, TripleIsASet
  <2> QED
    BY <2>2, FS_EmptySet
<1> HIDE DEF All
<1>5. sets \in Seq(All) /\ Len(sets) = Len(found) /\ DOMAIN sets = DOMAIN found
  BY <1>3, <1>4 DEF SetsOf
<1>6. IsInjective(sets)
  <2> SUFFICES ASSUME NEW i \in DOMAIN found, NEW j \in DOMAIN found, sets[i] = sets[j], i # j PROVE FALSE
    BY <1>5 DEF IsInjective
  <2>1. sets[i] = ToSet(found[i]) /\ sets[j] = ToSet(found[j])
    BY DEF SetsOf
  <2>2. ToSet(found[i]) \cap ToSet(found[j]) = {}
    BY DEF FoundApart
  <2> QED
    BY <1>4, <2>1, <2>2
<1>7. Range(sets) = {ToSet(found[i]) : i \in DOMAIN found}
  BY <1>5 DEF Range, SetsOf
<1>8. Range(sets) \subseteq All
  BY <1>4, <1>7
<1> HIDE DEF sets
<1>9. Len(sets) = Cardinality(All) <=> Range(sets) = All
  BY <1>1, <1>5, <1>6, <1>8, AllFound
<1>10. Len(sets) =< Cardinality(All)
  <2>1. IsFiniteSet(1..Len(sets)) /\ Cardinality(1..Len(sets)) = Len(sets)
    <3>1. Len(sets) \in Nat
      BY <1>5
    <3> QED
      BY <3>1, FirstNumbers
  <2>2. sets \in Injection(1..Len(sets), All)
    BY <1>5, <1>6, <1>3 DEF Injection, IsInjective
  <2> QED
    BY <1>1, <2>1, <2>2, FS_Injection
<1> QED
  BY <1>2, <1>5, <1>7, <1>9, <1>10 DEF All

(* A set of untouched cards joins the found ones.                          *)
LEMMA FoundFurther ==
    ASSUME MatchPuzzle, NEW found, FoundApart(found), NEW t \in Triples, ToSet(t) \cap CardsOf(found) = {}
    PROVE  FoundApart(Append(found, t)) /\ Len(Append(found, t)) = Len(found) + 1
<1> DEFINE more == Append(found, t)
<1>1. found \in Seq(Triples) /\ Len(found) \in Nat /\ DOMAIN found = 1..Len(found)
  BY DEF FoundApart
<1>2. /\ more \in Seq(Triples) /\ Len(more) = Len(found) + 1 /\ DOMAIN more = 1..(Len(found) + 1)
      /\ more[Len(found) + 1] = t /\ \A i \in 1..Len(found) : more[i] = found[i]
  BY <1>1
<1> HIDE DEF more
<1>3. \A i \in 1..Len(found) : ToSet(found[i]) \cap ToSet(t) = {}
  BY <1>1 DEF CardsOf
<1>4. \A i, j \in DOMAIN more : i # j => ToSet(more[i]) \cap ToSet(more[j]) = {}
  <2> SUFFICES ASSUME NEW i \in DOMAIN more, NEW j \in DOMAIN more, i # j
               PROVE  ToSet(more[i]) \cap ToSet(more[j]) = {}
    OBVIOUS
  <2>1. CASE i \in 1..Len(found) /\ j \in 1..Len(found)
    BY <1>1, <1>2, <2>1 DEF FoundApart
  <2>2. CASE i = Len(found) + 1 /\ j \in 1..Len(found)
    BY <1>2, <1>3, <2>2
  <2>3. CASE j = Len(found) + 1 /\ i \in 1..Len(found)
    BY <1>2, <1>3, <2>3
  <2> QED
    BY <1>1, <1>2, <2>1, <2>2, <2>3
<1>5. CardsOf(more) = CardsOf(found) \cup ToSet(t)
  <2>1. {ToSet(more[i]) : i \in DOMAIN more} = {ToSet(found[i]) : i \in DOMAIN found} \cup {ToSet(t)}
    BY <1>1, <1>2
  <2> QED
    BY <2>1 DEF CardsOf
<1>6. IsFiniteSet(ToSet(t)) /\ Cardinality(ToSet(t)) = 3
  BY TripleIsASet
<1>7. IsFiniteSet(CardsOf(found)) /\ Cardinality(CardsOf(found)) = 3 * Len(found)
  BY DEF FoundApart
<1>8. IsFiniteSet(CardsOf(more)) /\ Cardinality(CardsOf(more)) = 3 * Len(more)
  <2>1. Cardinality(CardsOf(found) \cup ToSet(t)) = Cardinality(CardsOf(found)) + Cardinality(ToSet(t))
                                                    - Cardinality(CardsOf(found) \cap ToSet(t))
    BY <1>6, <1>7, FS_Union
  <2>2. Cardinality(CardsOf(found) \cap ToSet(t)) = 0
    BY FS_EmptySet
  <2>3. IsFiniteSet(CardsOf(found) \cup ToSet(t))
    BY <1>6, <1>7, FS_Union
  <2> QED
    BY <1>1, <1>2, <1>5, <1>6, <1>7, <2>1, <2>2, <2>3
<1> QED
  BY <1>2, <1>4, <1>8 DEF FoundApart, more

LEMMA MatchFields ==
    ASSUME MatchInv
    PROVE  /\ state \in MatchState /\ FoundApart(state.foundSets)
           /\ ToSet(state.selectedIds) \cap CardsOf(state.foundSets) = {}
           /\ state.status = "won" <=> Len(state.foundSets) = Match!TotalSets
           /\ ended = (state.status # "playing")
           /\ sent \in Seq(MatchFinishes)
           /\ ended => sent # <<>> /\ Last(sent) = Match!Finish(state)
  BY DEF MatchInv, MatchBoard

(* A render of a board that is as it should be.                            *)
LEMMA MatchShown ==
    ASSUME MatchPuzzle, MatchInv, state.status = "playing", NEW next \in MatchState, FoundApart(next.foundSets),
           ToSet(next.selectedIds) \cap CardsOf(next.foundSets) = {},
           next.status = "won" <=> Len(next.foundSets) = Match!TotalSets,
           NEW over \in BOOLEAN, over = (next.status # "playing"), Match!Shows(next, over, Match!Finish(next))
    PROVE  MatchInv'
<1> DEFINE data == Match!Finish(next)
<1>1. ended = FALSE /\ sent \in Seq(MatchFinishes)
  BY MatchFields
<1>2. data \in [status : {"won", "lost"}, foundSets : Seq(Triples), mistakes : Nat]
      /\ (data.status = "won" <=> next.status = "won") /\ data.foundSets = next.foundSets
  BY DEF Match!Finish, MatchState
<1>3. Match!Right(data)
  <2>1. \A i : Match!ToSet(data.foundSets[i]) = ToSet(data.foundSets[i])
    BY MatchCounts
  <2>2. {Match!ToSet(data.foundSets[i]) : i \in DOMAIN data.foundSets}
          = {ToSet(next.foundSets[i]) : i \in DOMAIN next.foundSets}
    BY <1>2, <2>1
  <2>3. Len(next.foundSets) = Match!TotalSets
          <=> {ToSet(next.foundSets[i]) : i \in DOMAIN next.foundSets} = Match!FindAllSets
    BY FoundAreAll
  <2> QED
    BY <1>2, <2>2, <2>3 DEF Match!Right
<1>4. data \in MatchFinishes
  BY <1>2, <1>3 DEF MatchFinishes
<1>5. Shows(next, over, data)
  BY DEF Match!Shows, Shows
<1> HIDE DEF data
<1>6. /\ state' = next /\ ended' = over /\ sent' \in Seq(MatchFinishes)
      /\ over => sent' # <<>> /\ Last(sent') = data
  BY <1>1, <1>4, <1>5, Render
<1>7. MatchBoard(next, over, sent')
  BY <1>6 DEF MatchBoard, data
<1> QED
  BY <1>6, <1>7 DEF MatchInv

LEMMA MatchSelects ==
    ASSUME MatchPuzzle, MatchInv, state.status = "playing",
           NEW ids \in Seq(Cards), IsInjective(ids), Len(ids) < 3, ToSet(ids) \cap CardsOf(state.foundSets) = {},
           Match!Plays([state EXCEPT !.selectedIds = ids])
    PROVE  MatchInv'
<1> DEFINE next == [state EXCEPT !.selectedIds = ids]
<1>0. ids \in Picks
  BY DEF Picks
<1>1. /\ next \in MatchState /\ next.foundSets = state.foundSets /\ next.selectedIds = ids
      /\ next.status = "playing"
  BY <1>0, MatchFields DEF MatchState
<1>2. Match!Shows(next, next.status # "playing", Match!Finish(next))
  BY <1>1 DEF Match!Plays, Match!Shows
<1> HIDE DEF next
<1>3. /\ FoundApart(next.foundSets) /\ ToSet(next.selectedIds) \cap CardsOf(next.foundSets) = {}
      /\ next.status = "won" <=> Len(next.foundSets) = Match!TotalSets
  BY <1>1, MatchFields
<1> QED
  BY <1>1, <1>2, <1>3, MatchShown

LEMMA MatchStep == MatchPuzzle /\ MatchInv /\ [Match!Next]_boardVars => MatchInv'
<1> SUFFICES ASSUME MatchPuzzle, MatchInv, [Match!Next]_boardVars PROVE MatchInv'
  OBVIOUS
<1>1. /\ state \in MatchState /\ FoundApart(state.foundSets)
      /\ ToSet(state.selectedIds) \cap CardsOf(state.foundSets) = {}
      /\ state.status = "won" <=> Len(state.foundSets) = Match!TotalSets
  BY MatchFields
<1> DEFINE chosen == state.selectedIds
<1>2. chosen \in Seq(Cards) /\ IsInjective(chosen) /\ Len(chosen) < 3 /\ Len(chosen) \in Nat
      /\ DOMAIN chosen = 1..Len(chosen)
  BY <1>1 DEF MatchState, Picks
<1>3. Match!Found(state) = CardsOf(state.foundSets)
  BY MatchCounts DEF Match!Found, CardsOf
<1>4. CASE Match!SelectCard
  <2>1. PICK id \in Cards \ (ToSet(chosen) \cup CardsOf(state.foundSets)) :
          LET ids  == Append(chosen, id)
              next == IF Len(ids) = 3 THEN Match!Checked(ids) ELSE [state EXCEPT !.selectedIds = ids]
          IN Match!Shows(next, next.status # "playing", Match!Finish(next))
    BY <1>3, <1>4, MatchCounts DEF Match!SelectCard
  <2> DEFINE ids == Append(chosen, id)
             next == IF Len(ids) = 3 THEN Match!Checked(ids) ELSE [state EXCEPT !.selectedIds = ids]
  <2>2. state.status = "playing"
    BY <1>4 DEF Match!SelectCard, Match!Playing
  <2>3. Match!Shows(next, next.status # "playing", Match!Finish(next))
    BY <2>1
  <2>4. ids \in Seq(Cards) /\ Len(ids) = Len(chosen) + 1 /\ IsInjective(ids) /\ ToSet(ids) = ToSet(chosen) \cup {id}
    <3>1. id \notin Range(chosen) /\ Range(chosen) = ToSet(chosen) /\ Range(ids) = ToSet(ids)
      BY <2>1 DEF Range, ToSet
    <3> QED
      BY <1>2, <2>1, <3>1, AppendedRange
  <2>5. ToSet(ids) \cap CardsOf(state.foundSets) = {}
    BY <1>1, <2>1, <2>4
  <2> HIDE DEF ids
  <2>6. CASE Len(ids) # 3
    <3>1. next = [state EXCEPT !.selectedIds = ids] /\ Len(ids) < 3
      BY <1>2, <2>4, <2>6
    <3>2. next.status = "playing"
      BY <1>1, <2>2, <3>1 DEF MatchState
    <3>3. Match!Plays([state EXCEPT !.selectedIds = ids])
      BY <2>3, <3>1, <3>2 DEF Match!Shows, Match!Plays
    <3> QED
      BY <2>2, <2>4, <2>5, <3>1, <3>3, MatchSelects
  <2>7. <<>> \in Picks /\ ToSet(<<>>) = {}
    BY DEF Picks, IsInjective, ToSet
  <2>8. CASE Len(ids) = 3 /\ ~Match!IsValidSet(ids)
    <3>1. next = [state EXCEPT !.selectedIds = <<>>, !.mistakes = @ + 1]
      BY <2>8 DEF Match!Checked
    <3>2. state.mistakes + 1 \in Nat
      BY <1>1 DEF MatchState
    <3> HIDE DEF next
    <3>3. /\ next \in MatchState /\ next.status = "playing" /\ next.foundSets = state.foundSets
          /\ next.selectedIds = <<>>
      BY <1>1, <2>2, <2>7, <3>1, <3>2 DEF MatchState
    <3>4. ToSet(next.selectedIds) \cap CardsOf(next.foundSets) = {}
      BY <2>7, <3>3
    <3> QED
      BY <1>1, <2>2, <2>3, <3>3, <3>4, MatchShown
  <2>9. CASE Len(ids) = 3 /\ Match!IsValidSet(ids)
    <3> DEFINE more == Append(state.foundSets, ids)
               status == IF Len(more) >= Match!TotalSets THEN "won" ELSE "playing"
    <3>1. ids \in Triples
      BY <2>4, <2>9 DEF Triples
    <3>2. FoundApart(more) /\ Len(more) = Len(state.foundSets) + 1
      BY <1>1, <2>5, <3>1, FoundFurther
    <3>3. next = [state EXCEPT !.foundSets = more, !.selectedIds = <<>>, !.status = status]
      BY <2>9 DEF Match!Checked
    <3> HIDE DEF more
    <3>4. Len(more) =< Match!TotalSets /\ Match!TotalSets \in Nat
      BY <3>2, FoundAreAll
    <3>5. status = "won" <=> Len(more) = Match!TotalSets
      BY <3>2, <3>4 DEF FoundApart
    <3>6. more \in Seq(Triples) /\ status \in {"won", "playing"}
      BY <3>2 DEF FoundApart
    <3> HIDE DEF status
    <3>7. /\ next \in MatchState /\ next.status = status /\ next.foundSets = more /\ next.selectedIds = <<>>
      BY <1>1, <2>7, <3>3, <3>6 DEF MatchState
    <3> HIDE DEF next
    <3>8. ToSet(next.selectedIds) \cap CardsOf(next.foundSets) = {}
      BY <2>7, <3>7
    <3>9. next.status = "won" <=> Len(next.foundSets) = Match!TotalSets
      BY <3>5, <3>7
    <3> QED
      BY <2>2, <2>3, <3>2, <3>7, <3>8, <3>9, MatchShown
  <2> QED
    BY <2>6, <2>8, <2>9
<1>5. CASE Match!DeselectCard
  <2>1. PICK i \in DOMAIN chosen : Match!Plays([state EXCEPT !.selectedIds = RemoveAt(@, i)])
    BY <1>5 DEF Match!DeselectCard, Match!RemoveAt, RemoveAt
  <2> DEFINE ids == RemoveAt(chosen, i)
  <2>2. /\ ids \in Seq(Cards) /\ Len(ids) = Len(chosen) - 1 /\ DOMAIN ids = 1..(Len(chosen) - 1)
        /\ \A j \in 1..(Len(chosen) - 1) : ids[j] = IF j < i THEN chosen[j] ELSE chosen[j + 1]
    BY <1>2, Removed
  <2>3. state.status = "playing" /\ Match!Plays([state EXCEPT !.selectedIds = ids])
    BY <1>5, <2>1 DEF Match!DeselectCard, Match!Playing
  <2> HIDE DEF ids
  <2>4. IsInjective(ids)
    BY <1>2, <2>2 DEF IsInjective
  <2>5. ToSet(ids) \subseteq ToSet(chosen)
    BY <1>2, <2>2 DEF ToSet
  <2>6. Len(ids) < 3 /\ ToSet(ids) \cap CardsOf(state.foundSets) = {}
    BY <1>1, <1>2, <2>2, <2>5
  <2> QED
    BY <2>2, <2>3, <2>4, <2>6, MatchSelects
<1>6. CASE Match!ClearSelection
  <2>1. state.status = "playing" /\ Match!Plays([state EXCEPT !.selectedIds = <<>>])
    BY <1>6 DEF Match!ClearSelection, Match!Playing
  <2>2. <<>> \in Seq(Cards) /\ IsInjective(<<>>) /\ Len(<<>>) < 3 /\ ToSet(<<>>) = {}
    BY DEF IsInjective, ToSet
  <2> QED
    BY <2>1, <2>2, MatchSelects
<1>7. CASE Match!GiveUp
  <2> DEFINE next == [state EXCEPT !.status = "gave_up"]
  <2>1. state.status = "playing" /\ Match!Shows(next, TRUE, Match!Finish(next))
    BY <1>7 DEF Match!GiveUp, Match!Playing
  <2>2. /\ next \in MatchState /\ next.status = "gave_up" /\ next.foundSets = state.foundSets
        /\ next.selectedIds = state.selectedIds
    BY <1>1 DEF MatchState
  <2>3. Match!Shows(next, next.status # "playing", Match!Finish(next))
    BY <2>1, <2>2 DEF Match!Shows
  <2> HIDE DEF next
  <2>4. /\ FoundApart(next.foundSets) /\ ToSet(next.selectedIds) \cap CardsOf(next.foundSets) = {}
        /\ next.status = "won" <=> Len(next.foundSets) = Match!TotalSets
    BY <1>1, <2>1, <2>2
  <2> QED
    BY <2>1, <2>2, <2>3, <2>4, MatchShown
<1>8. CASE UNCHANGED boardVars
  BY <1>8 DEF boardVars, MatchInv
<1> QED
  BY <1>4, <1>5, <1>6, <1>7, <1>8 DEF Match!Next

(* Pattern Match: a card is picked once and is in one found set at most,   *)
(* what was found are sets among the served cards, the game is won exactly *)
(* when all of them are found, and the finish handed over, won or given    *)
(* up, is the board on show and says so.                                   *)
THEOREM PatternMatchCorrect ==
    ASSUME MatchPuzzle
    PROVE  Match!Init /\ [][Match!Next]_boardVars =>
               [](/\ Match!Legal /\ Match!Explained /\ Match!Finished
                  /\ \A i \in DOMAIN sent : Match!Right(sent[i]))
<1>1. Match!Init => MatchInv
  <2> SUFFICES ASSUME Match!Init PROVE MatchInv
    OBVIOUS
  <2>1. /\ state = [selectedIds |-> <<>>, foundSets |-> <<>>, mistakes |-> 0, status |-> "playing"]
        /\ ended = FALSE /\ sent = <<>>
    BY DEF Match!Init, Match!Starts, Match!InitialState
  <2>2. <<>> \in Seq(Cards) /\ IsInjective(<<>>) /\ <<>> \in Seq(Triples) /\ <<>> \in Seq(MatchFinishes)
        /\ ToSet(<<>>) = {} /\ CardsOf(<<>>) = {} /\ Len(<<>>) = 0 /\ DOMAIN <<>> = {}
    BY DEF IsInjective, ToSet, CardsOf
  <2>3. FoundApart(<<>>)
    BY <2>2, FS_EmptySet DEF FoundApart
  <2>4. Match!TotalSets # 0
    BY <2>3, FoundAreAll
  <2>5. state \in MatchState
    <3>1. <<>> \in Picks
      BY <2>2 DEF Picks
    <3> QED
      BY <2>1, <2>2, <3>1 DEF MatchState
  <2> QED
    BY <2>1, <2>2, <2>3, <2>4, <2>5 DEF MatchInv, MatchBoard
<1>2. MatchInv /\ [Match!Next]_boardVars => MatchInv'
  BY MatchStep
<1>3. MatchInv => /\ Match!Legal /\ Match!Explained /\ Match!Finished
                  /\ \A i \in DOMAIN sent : Match!Right(sent[i])
  <2> SUFFICES ASSUME MatchInv
               PROVE  /\ Match!Legal /\ Match!Explained /\ Match!Finished
                      /\ \A i \in DOMAIN sent : Match!Right(sent[i])
    OBVIOUS
  <2>1. /\ state \in MatchState /\ FoundApart(state.foundSets)
        /\ ToSet(state.selectedIds) \cap CardsOf(state.foundSets) = {}
        /\ state.status = "won" <=> Len(state.foundSets) = Match!TotalSets
    BY MatchFields
  <2>2. Match!Found(state) = CardsOf(state.foundSets)
    BY MatchCounts DEF Match!Found, CardsOf
  <2>3. Match!Legal
    BY <2>1, <2>2, MatchCounts DEF Match!Legal, FoundApart, MatchState, Picks
  <2>4. Match!Explained
    <3> SUFFICES ASSUME NEW i \in DOMAIN state.foundSets PROVE ToSet(state.foundSets[i]) \in Match!FindAllSets
      BY MatchCounts DEF Match!Explained
    <3>1. state.foundSets[i] \in Triples
      BY <2>1 DEF FoundApart
    <3> QED
      BY <3>1, TripleIsASet
  <2>5. Match!Finished
    BY <2>1, MatchFields DEF Match!Finished, Match!Last, Last
  <2>6. \A i \in DOMAIN sent : Match!Right(sent[i])
    <3>1. sent \in Seq(MatchFinishes)
      BY MatchFields
    <3> QED
      BY <3>1 DEF MatchFinishes
  <2> QED
    BY <2>3, <2>4, <2>5, <2>6
<1> QED
  BY <1>1, <1>2, <1>3, PTL

------------------------------------------------------------------------------
(* Tango.                                                                  *)
CONSTANTS InitialGrid
Suns == INSTANCE Tango

Marks == {"sun", "moon", "none"}
SunGrids == [Suns!Cells -> Marks]
Served == [c \in Suns!Cells |-> InitialGrid[c[1]][c[2]]]

SunsPuzzle ==
    /\ Suns!Size \in Nat /\ Served \in SunGrids
    /\ ~Suns!IsSolved(Served)

SunFinishes == {f \in [grid : SunGrids] : Suns!Right(f)}

SunsBoard(s, over, finishes) ==
    /\ s \in [grid : SunGrids, gameStatus : {"playing", "won"}, replay : BOOLEAN]
    /\ \A c \in Suns!Cells : Served[c] # "none" => s.grid[c] = Served[c]
    /\ s.gameStatus = "won" <=> Suns!IsSolved(s.grid)
    /\ over \in BOOLEAN /\ finishes \in Seq(SunFinishes)
    /\ GivenOnce(s.gameStatus = "won", s.replay, Suns!Finish(s), over, finishes)

SunsInv == SunsBoard(state, ended, sent)

LEMMA SunsCounts == ASSUME NEW S PROVE Suns!Cardinality(S) = Cardinality(S)
  BY DEF Suns!Cardinality, Cardinality

LEMMA SunLines ==
    ASSUME SunsPuzzle
    PROVE  /\ IsFiniteSet(1..Suns!Size) /\ Cardinality(1..Suns!Size) = Suns!Size
           /\ \A line \in Suns!Lines : line \subseteq Suns!Cells /\ IsFiniteSet(line)
           /\ \A k \in 1..Suns!Size : Suns!Row(k) \in Suns!Lines /\ Suns!Column(k) \in Suns!Lines
<1>1. IsFiniteSet(1..Suns!Size) /\ Cardinality(1..Suns!Size) = Suns!Size
  BY FS_Interval DEF SunsPuzzle
<1>2. IsFiniteSet(Suns!Cells)
  BY <1>1, FS_Product DEF Suns!Cells
<1>3. \A line \in Suns!Lines : line \subseteq Suns!Cells
  BY DEF Suns!Lines, Suns!Row, Suns!Column, Suns!Cells
<1>4. \A line \in Suns!Lines : IsFiniteSet(line)
  BY <1>2, <1>3, FS_Subset
<1>5. \A k \in 1..Suns!Size : Suns!Row(k) \in Suns!Lines /\ Suns!Column(k) \in Suns!Lines
  BY DEF Suns!Lines
<1> QED
  BY <1>1, <1>3, <1>4, <1>5

(* What is over-full is marked.                                            *)
LEMMA OverfullIsMarked ==
    ASSUME SunsPuzzle, NEW grid \in SunGrids, Suns!GetConflicts(grid) = {},
           NEW line \in Suns!Lines, NEW s \in Suns!Symbols
    PROVE  2 * Suns!CountOf(grid, line, s) =< Suns!Size
<1> DEFINE T == {c \in line : grid[c] = s}
<1>1. line \subseteq Suns!Cells /\ IsFiniteSet(T)
  BY SunLines, FS_Subset
<1>2. Suns!CountOf(grid, line, s) = Cardinality(T) /\ Cardinality(T) \in Nat
  BY <1>1, SunsCounts, FS_CardinalityType DEF Suns!CountOf
<1> SUFFICES ASSUME 2 * Cardinality(T) > Suns!Size PROVE FALSE
  BY <1>2 DEF SunsPuzzle
<1>3. Cardinality(T) # 0
  BY <1>2 DEF SunsPuzzle
<1>4. PICK c \in T : TRUE
  BY <1>1, <1>3, FS_EmptySet
<1>5. c \in Suns!Cells /\ c \in line /\ grid[c] \in Suns!Symbols
  BY <1>1, <1>4
<1>6. c \in Suns!GetConflicts(grid)
  BY <1>2, <1>5 DEF Suns!GetConflicts
<1> QED
  BY <1>6

(* Three alike side by side are marked.                                    *)
LEMMA ThreeAreMarked ==
    ASSUME SunsPuzzle, NEW grid \in SunGrids, \A c \in Suns!Cells : grid[c] \in Suns!Symbols,
           Suns!GetConflicts(grid) = {}, NEW d \in {<<0, 1>>, <<1, 0>>}, NEW p \in Suns!Cells,
           NEW q \in Suns!Cells, NEW r \in Suns!Cells,
           q = <<p[1] + d[1], p[2] + d[2]>>, r = <<p[1] + 2 * d[1], p[2] + 2 * d[2]>>
    PROVE  ~(grid[p] = grid[q] /\ grid[q] = grid[r])
<1>1. p[1] \in Int /\ p[2] \in Int /\ p = <<p[1], p[2]>> /\ d[1] \in Int /\ d[2] \in Int
  BY DEF Suns!Cells, SunsPuzzle
<1> DEFINE three == {<<p[1] + (i - 0) * d[1], p[2] + (i - 0) * d[2]>> : i \in 0..2}
<1>2. 0..2 = {0, 1, 2}
  OBVIOUS
<1>3. three = {p, q, r}
  <2>1. three = {<<p[1] + (0 - 0) * d[1], p[2] + (0 - 0) * d[2]>>, <<p[1] + (1 - 0) * d[1], p[2] + (1 - 0) * d[2]>>,
                 <<p[1] + (2 - 0) * d[1], p[2] + (2 - 0) * d[2]>>}
    BY <1>2
  <2>2. /\ p[1] + (0 - 0) * d[1] = p[1] /\ p[2] + (0 - 0) * d[2] = p[2]
        /\ p[1] + (1 - 0) * d[1] = p[1] + d[1] /\ p[2] + (1 - 0) * d[2] = p[2] + d[2]
        /\ p[1] + (2 - 0) * d[1] = p[1] + 2 * d[1] /\ p[2] + (2 - 0) * d[2] = p[2] + 2 * d[2]
    <3>1. CASE d = <<0, 1>>
      <4>1. d[1] = 0 /\ d[2] = 1
        BY <3>1
      <4> HIDE DEF three
      <4> QED
        BY <1>1, <4>1
    <3>2. CASE d = <<1, 0>>
      <4>1. d[1] = 1 /\ d[2] = 0
        BY <3>2
      <4> HIDE DEF three
      <4> QED
        BY <1>1, <4>1
    <3> QED
      BY <3>1, <3>2
  <2> HIDE DEF three
  <2> QED
    BY <1>1, <2>1, <2>2
<1> SUFFICES ASSUME grid[p] = grid[q], grid[q] = grid[r] PROVE FALSE
  OBVIOUS
<1>4. three \subseteq Suns!Cells /\ \A e \in three : grid[e] = grid[p]
  <2> HIDE DEF three
  <2> QED
    BY <1>3
<1>5. Suns!HasConsecutiveViolationAt(grid, p)
  BY <1>2, <1>4 DEF Suns!HasConsecutiveViolationAt
<1>6. p \in Suns!GetConflicts(grid)
  BY <1>5 DEF Suns!GetConflicts
<1> QED
  BY <1>6

LEMMA TwoOfThem ==
    ASSUME NEW a \in Suns!Symbols, NEW b \in Suns!Symbols, NEW c \in Suns!Symbols, ~(a = b /\ b = c)
    PROVE  Cardinality({a, b, c}) = 2
<1>1. {a, b, c} = {"sun", "moon"}
  BY DEF Suns!Symbols
<1>2. IsFiniteSet({}) /\ Cardinality({}) = 0
  BY FS_EmptySet
<1>3. IsFiniteSet({"sun"}) /\ Cardinality({"sun"}) = 1
  BY FS_Singleton
<1>4. Cardinality({"sun"} \cup {"moon"}) = Cardinality({"sun"}) + 1
  BY <1>3, FS_AddElement
<1>5. {"sun"} \cup {"moon"} = {"sun", "moon"}
  OBVIOUS
<1> QED
  BY <1>1, <1>3, <1>4, <1>5

(* at[i] is the i-th cell of the line, which runs in direction d.          *)
RunsAlong(at, line, d) ==
    /\ at \in [1..Suns!Size -> line]
    /\ \A i, j \in 1..Suns!Size : at[i] = at[j] => i = j
    /\ \A c \in line : \E i \in 1..Suns!Size : at[i] = c
    /\ d \in {<<0, 1>>, <<1, 0>>}
    /\ \A i \in 1..(Suns!Size - 2) :
          /\ at[i + 1] = <<at[i][1] + d[1], at[i][2] + d[2]>>
          /\ at[i + 2] = <<at[i][1] + 2 * d[1], at[i][2] + 2 * d[2]>>

Balanced(grid, at) ==
    /\ 2 * Suns!Cardinality({i \in 1..Suns!Size : grid[at[i]] = "sun"}) = Suns!Size
    /\ \A i \in 1..(Suns!Size - 2) : Suns!Cardinality({grid[at[i]], grid[at[i + 1]], grid[at[i + 2]]}) = 2

(* A row or column of a solved grid, read cell after cell.                 *)
LEMMA LineIsRight ==
    ASSUME SunsPuzzle, NEW grid \in SunGrids, Suns!IsSolved(grid), NEW line \in Suns!Lines,
           NEW at, NEW d, RunsAlong(at, line, d)
    PROVE  Balanced(grid, at)
<1>0. /\ at \in [1..Suns!Size -> line]
      /\ \A i, j \in 1..Suns!Size : at[i] = at[j] => i = j
      /\ \A c \in line : \E i \in 1..Suns!Size : at[i] = c
      /\ d \in {<<0, 1>>, <<1, 0>>}
      /\ \A i \in 1..(Suns!Size - 2) :
            /\ at[i + 1] = <<at[i][1] + d[1], at[i][2] + d[2]>>
            /\ at[i + 2] = <<at[i][1] + 2 * d[1], at[i][2] + 2 * d[2]>>
  BY DEF RunsAlong
<1>1. /\ IsFiniteSet(1..Suns!Size) /\ line \subseteq Suns!Cells
      /\ \A c \in Suns!Cells : grid[c] \in Suns!Symbols
      /\ Suns!GetConflicts(grid) = {}
      /\ 2 * Suns!CountOf(grid, line, "sun") = Suns!Size
  BY SunLines DEF Suns!IsSolved, Suns!Symbols
<1>2. 2 * Suns!Cardinality({i \in 1..Suns!Size : grid[at[i]] = "sun"}) = Suns!Size
  <2> DEFINE S == {i \in 1..Suns!Size : grid[at[i]] = "sun"}
             T == {c \in line : grid[c] = "sun"}
             f == [i \in S |-> at[i]]
  <2>1. IsFiniteSet(S)
    BY <1>1, FS_Subset
  <2>2. f \in [S -> T] /\ \A i, j \in S : f[i] = f[j] => i = j
    BY <1>0
  <2>3. \A c \in T : \E i \in S : f[i] = c
    BY <1>0
  <2>4. Cardinality(T) = Cardinality(S)
    <3> HIDE DEF S, T, f
    <3> QED
      BY <2>1, <2>2, <2>3, AsMany
  <2>5. Suns!CountOf(grid, line, "sun") = Cardinality(T)
    BY SunsCounts DEF Suns!CountOf
  <2> QED
    BY <1>1, <2>4, <2>5, SunsCounts
<1>3. ASSUME NEW i \in 1..(Suns!Size - 2)
      PROVE  Suns!Cardinality({grid[at[i]], grid[at[i + 1]], grid[at[i + 2]]}) = 2
  <2>1. i \in 1..Suns!Size /\ i + 1 \in 1..Suns!Size /\ i + 2 \in 1..Suns!Size
    BY DEF SunsPuzzle
  <2>2. at[i] \in Suns!Cells /\ at[i + 1] \in Suns!Cells /\ at[i + 2] \in Suns!Cells
    BY <1>0, <1>1, <2>1
  <2>3. ~(grid[at[i]] = grid[at[i + 1]] /\ grid[at[i + 1]] = grid[at[i + 2]])
    BY <1>0, <1>1, <2>2, ThreeAreMarked
  <2>4. Cardinality({grid[at[i]], grid[at[i + 1]], grid[at[i + 2]]}) = 2
    BY <1>1, <2>2, <2>3, TwoOfThem
  <2> QED
    BY <2>4, SunsCounts
<1> QED
  BY <1>2, <1>3 DEF Balanced

(* The texts of a solved grid's rows or columns are all different.         *)
LEMMA AllDifferent ==
    ASSUME SunsPuzzle, NEW text, Suns!IsInjective(text), DOMAIN text = 1..Suns!Size
    PROVE  Suns!Cardinality({text[k] : k \in 1..Suns!Size}) = Suns!Size
<1> DEFINE T == {text[k] : k \in 1..Suns!Size}
           f == [k \in 1..Suns!Size |-> text[k]]
<1>1. IsFiniteSet(1..Suns!Size) /\ Cardinality(1..Suns!Size) = Suns!Size
  BY SunLines
<1>2. f \in [1..Suns!Size -> T] /\ \A a, b \in 1..Suns!Size : f[a] = f[b] => a = b
  BY DEF Suns!IsInjective
<1>3. \A t \in T : \E k \in 1..Suns!Size : f[k] = t
  OBVIOUS
<1>4. Cardinality(T) = Cardinality(1..Suns!Size)
  <2> HIDE DEF T, f
  <2> QED
    BY <1>1, <1>2, <1>3, AsMany
<1> QED
  BY <1>1, <1>4, SunsCounts

LEMMA SolvedSuns ==
    ASSUME SunsPuzzle, NEW f \in [grid : SunGrids], Suns!IsSolved(f.grid),
           \A c \in Suns!Cells : Served[c] # "none" => f.grid[c] = Served[c]
    PROVE  Suns!Right(f)
<1> DEFINE Row(k) == [i \in 1..Suns!Size |-> f.grid[<<k, i>>]]
           Column(k) == [i \in 1..Suns!Size |-> f.grid[<<i, k>>]]
           rows == [k \in 1..Suns!Size |-> Row(k)]
           columns == [k \in 1..Suns!Size |-> Column(k)]
           Good(text) == /\ 2 * Suns!Cardinality({i \in 1..Suns!Size : text[i] = "sun"}) = Suns!Size
                         /\ \A i \in 1..(Suns!Size - 2) : Suns!Cardinality({text[i], text[i + 1], text[i + 2]}) = 2
<1>0. f.grid \in SunGrids /\ Suns!IsSolved(f.grid)
  OBVIOUS
<1>1. Suns!Cardinality({Row(k) : k \in 1..Suns!Size}) = Suns!Size
  <2>1. Suns!IsInjective(rows) /\ DOMAIN rows = 1..Suns!Size
    BY DEF Suns!IsSolved
  <2>2. Suns!Cardinality({rows[k] : k \in 1..Suns!Size}) = Suns!Size
    <3> HIDE DEF rows
    <3> QED
      BY <2>1, AllDifferent
  <2>3. {rows[k] : k \in 1..Suns!Size} = {Row(k) : k \in 1..Suns!Size}
    <3> HIDE DEF Row
    <3> QED
      OBVIOUS
  <2> QED
    BY <2>2, <2>3
<1>2. Suns!Cardinality({Column(k) : k \in 1..Suns!Size}) = Suns!Size
  <2>1. Suns!IsInjective(columns) /\ DOMAIN columns = 1..Suns!Size
    BY DEF Suns!IsSolved
  <2>2. Suns!Cardinality({columns[k] : k \in 1..Suns!Size}) = Suns!Size
    <3> HIDE DEF columns
    <3> QED
      BY <2>1, AllDifferent
  <2>3. {columns[k] : k \in 1..Suns!Size} = {Column(k) : k \in 1..Suns!Size}
    <3> HIDE DEF Column
    <3> QED
      OBVIOUS
  <2> QED
    BY <2>2, <2>3
<1>3. ASSUME NEW k \in 1..Suns!Size PROVE Good(Row(k))
  <2> DEFINE at == [i \in 1..Suns!Size |-> <<k, i>>]
  <2>1. /\ Suns!Row(k) \in Suns!Lines /\ at \in [1..Suns!Size -> Suns!Row(k)]
        /\ \A i, j \in 1..Suns!Size : at[i] = at[j] => i = j
        /\ \A c \in Suns!Row(k) : \E i \in 1..Suns!Size : at[i] = c
    BY SunLines DEF Suns!Row
  <2>2. \A i \in 1..(Suns!Size - 2) :
            /\ at[i + 1] = <<at[i][1] + 0, at[i][2] + 1>>
            /\ at[i + 2] = <<at[i][1] + 2 * 0, at[i][2] + 2 * 1>>
    BY DEF SunsPuzzle
  <2>4. /\ 2 * Suns!Cardinality({i \in 1..Suns!Size : f.grid[at[i]] = "sun"}) = Suns!Size
        /\ \A i \in 1..(Suns!Size - 2) : Suns!Cardinality({f.grid[at[i]], f.grid[at[i + 1]], f.grid[at[i + 2]]}) = 2
    <3> DEFINE d == <<0, 1>>
    <3>1. d \in {<<0, 1>>, <<1, 0>>} /\ d[1] = 0 /\ d[2] = 1
      OBVIOUS
    <3>2. \A i \in 1..(Suns!Size - 2) :
              /\ at[i + 1] = <<at[i][1] + d[1], at[i][2] + d[2]>>
              /\ at[i + 2] = <<at[i][1] + 2 * d[1], at[i][2] + 2 * d[2]>>
      <4> HIDE DEF at, d
      <4> QED
        BY <2>2, <3>1
    <3>3. RunsAlong(at, Suns!Row(k), d)
      <4> HIDE DEF at, d
      <4> QED
        BY <2>1, <3>1, <3>2 DEF RunsAlong
    <3>4. Balanced(f.grid, at)
      <4> HIDE DEF at, d
      <4> QED
        BY <1>0, <2>1, <3>3, LineIsRight
    <3> HIDE DEF at
    <3> QED
      BY <3>4 DEF Balanced
  <2>5. \A i \in 1..Suns!Size : f.grid[at[i]] = Row(k)[i]
    OBVIOUS
  <2>6. {i \in 1..Suns!Size : f.grid[at[i]] = "sun"} = {i \in 1..Suns!Size : Row(k)[i] = "sun"}
    BY <2>5
  <2>7. \A i \in 1..(Suns!Size - 2) : i \in 1..Suns!Size /\ i + 1 \in 1..Suns!Size /\ i + 2 \in 1..Suns!Size
    BY DEF SunsPuzzle
  <2>8. 2 * Suns!Cardinality({i \in 1..Suns!Size : Row(k)[i] = "sun"}) = Suns!Size
    <3> HIDE DEF at, Row
    <3> QED
      BY <2>4, <2>6
  <2>9. ASSUME NEW i \in 1..(Suns!Size - 2)
        PROVE  Suns!Cardinality({Row(k)[i], Row(k)[i + 1], Row(k)[i + 2]}) = 2
    <3>1. f.grid[at[i]] = Row(k)[i] /\ f.grid[at[i + 1]] = Row(k)[i + 1] /\ f.grid[at[i + 2]] = Row(k)[i + 2]
      BY <2>5, <2>7
    <3> HIDE DEF at, Row
    <3> QED
      BY <2>4, <3>1
  <2> HIDE DEF Row
  <2> QED
    BY <2>8, <2>9
<1>4. ASSUME NEW k \in 1..Suns!Size PROVE Good(Column(k))
  <2> DEFINE at == [i \in 1..Suns!Size |-> <<i, k>>]
  <2>1. /\ Suns!Column(k) \in Suns!Lines /\ at \in [1..Suns!Size -> Suns!Column(k)]
        /\ \A i, j \in 1..Suns!Size : at[i] = at[j] => i = j
        /\ \A c \in Suns!Column(k) : \E i \in 1..Suns!Size : at[i] = c
    BY SunLines DEF Suns!Column
  <2>2. \A i \in 1..(Suns!Size - 2) :
            /\ at[i + 1] = <<at[i][1] + 1, at[i][2] + 0>>
            /\ at[i + 2] = <<at[i][1] + 2 * 1, at[i][2] + 2 * 0>>
    BY DEF SunsPuzzle
  <2>4. /\ 2 * Suns!Cardinality({i \in 1..Suns!Size : f.grid[at[i]] = "sun"}) = Suns!Size
        /\ \A i \in 1..(Suns!Size - 2) : Suns!Cardinality({f.grid[at[i]], f.grid[at[i + 1]], f.grid[at[i + 2]]}) = 2
    <3> DEFINE d == <<1, 0>>
    <3>1. d \in {<<0, 1>>, <<1, 0>>} /\ d[1] = 1 /\ d[2] = 0
      OBVIOUS
    <3>2. \A i \in 1..(Suns!Size - 2) :
              /\ at[i + 1] = <<at[i][1] + d[1], at[i][2] + d[2]>>
              /\ at[i + 2] = <<at[i][1] + 2 * d[1], at[i][2] + 2 * d[2]>>
      <4> HIDE DEF at, d
      <4> QED
        BY <2>2, <3>1
    <3>3. RunsAlong(at, Suns!Column(k), d)
      <4> HIDE DEF at, d
      <4> QED
        BY <2>1, <3>1, <3>2 DEF RunsAlong
    <3>4. Balanced(f.grid, at)
      <4> HIDE DEF at, d
      <4> QED
        BY <1>0, <2>1, <3>3, LineIsRight
    <3> HIDE DEF at
    <3> QED
      BY <3>4 DEF Balanced
  <2>5. \A i \in 1..Suns!Size : f.grid[at[i]] = Column(k)[i]
    OBVIOUS
  <2>6. {i \in 1..Suns!Size : f.grid[at[i]] = "sun"} = {i \in 1..Suns!Size : Column(k)[i] = "sun"}
    BY <2>5
  <2>7. \A i \in 1..(Suns!Size - 2) : i \in 1..Suns!Size /\ i + 1 \in 1..Suns!Size /\ i + 2 \in 1..Suns!Size
    BY DEF SunsPuzzle
  <2>8. 2 * Suns!Cardinality({i \in 1..Suns!Size : Column(k)[i] = "sun"}) = Suns!Size
    <3> HIDE DEF at, Column
    <3> QED
      BY <2>4, <2>6
  <2>9. ASSUME NEW i \in 1..(Suns!Size - 2)
        PROVE  Suns!Cardinality({Column(k)[i], Column(k)[i + 1], Column(k)[i + 2]}) = 2
    <3>1. f.grid[at[i]] = Column(k)[i] /\ f.grid[at[i + 1]] = Column(k)[i + 1] /\ f.grid[at[i + 2]] = Column(k)[i + 2]
      BY <2>5, <2>7
    <3> HIDE DEF at, Column
    <3> QED
      BY <2>4, <3>1
  <2> HIDE DEF Column
  <2> QED
    BY <2>8, <2>9
<1>5. \A c \in Suns!Cells : Suns!CreateInitialState.grid[c] \in {"none", f.grid[c]}
  BY DEF Suns!CreateInitialState, Served
<1>6. \A text \in {Row(k) : k \in 1..Suns!Size} \cup {Column(k) : k \in 1..Suns!Size} : Good(text)
  <2> HIDE DEF Good, Row, Column
  <2> QED
    BY <1>3, <1>4
<1> QED
  BY <1>1, <1>2, <1>5, <1>6 DEF Suns!Right

LEMMA SunsStep == SunsPuzzle /\ SunsInv /\ [Suns!Next]_boardVars => SunsInv'
<1> SUFFICES ASSUME SunsPuzzle, SunsInv, [Suns!Next]_boardVars PROVE SunsInv'
  OBVIOUS
<1>1. SunsBoard(state, ended, sent)
  BY DEF SunsInv
<1>2. /\ state \in [grid : SunGrids, gameStatus : {"playing", "won"}, replay : BOOLEAN]
      /\ \A c \in Suns!Cells : Served[c] # "none" => state.grid[c] = Served[c]
      /\ state.gameStatus = "won" <=> Suns!IsSolved(state.grid)
      /\ ended \in BOOLEAN /\ sent \in Seq(SunFinishes)
      /\ GivenOnce(state.gameStatus = "won", state.replay, Suns!Finish(state), ended, sent)
  BY <1>1 DEF SunsBoard
<1>3. CASE Suns!ToggleCell
  <2>1. PICK c \in Suns!Cells, turned \in Marks :
          LET grid == [state.grid EXCEPT ![c] = turned]
              next == [state EXCEPT !.grid = grid, !.gameStatus = IF Suns!IsSolved(grid) THEN "won" ELSE "playing"]
          IN /\ state.gameStatus = "playing"
             /\ InitialGrid[c[1]][c[2]] = "none"
             /\ Suns!Shows(next, next.gameStatus = "won", Suns!Finish(next))
    <3>1. PICK c \in Suns!Cells :
            LET turned == CASE state.grid[c] = "none" -> "sun"
                            [] state.grid[c] = "sun"  -> "moon"
                            [] state.grid[c] = "moon" -> "none"
                grid   == [state.grid EXCEPT ![c] = turned]
                next   == [state EXCEPT !.grid = grid, !.gameStatus = IF Suns!IsSolved(grid) THEN "won" ELSE "playing"]
            IN /\ state.gameStatus = "playing"
               /\ InitialGrid[c[1]][c[2]] = "none"
               /\ Suns!Shows(next, next.gameStatus = "won", Suns!Finish(next))
      BY <1>3 DEF Suns!ToggleCell
    <3> DEFINE turned == CASE state.grid[c] = "none" -> "sun"
                           [] state.grid[c] = "sun"  -> "moon"
                           [] state.grid[c] = "moon" -> "none"
    <3>2. turned \in Marks
      <4>1. state.grid[c] \in Marks
        BY <1>2 DEF SunGrids
      <4> QED
        BY <4>1 DEF Marks
    <3> HIDE DEF turned
    <3> WITNESS c \in Suns!Cells, turned \in Marks
    <3> QED
      BY <3>1 DEF turned
  <2> DEFINE grid == [state.grid EXCEPT ![c] = turned]
             won == Suns!IsSolved(grid)
             next == [state EXCEPT !.grid = grid, !.gameStatus = IF won THEN "won" ELSE "playing"]
             over == next.gameStatus = "won"
             data == Suns!Finish(next)
  <2>2. state.gameStatus = "playing" /\ Served[c] = "none" /\ Suns!Shows(next, over, data)
    BY <2>1 DEF Served
  <2>3. grid \in SunGrids /\ \A e \in Suns!Cells : Served[e] # "none" => grid[e] = Served[e]
    BY <1>2, <2>2 DEF SunGrids
  <2>4. /\ next.grid = grid /\ data = [grid |-> grid] /\ over = won /\ won \in BOOLEAN
        /\ next.replay = state.replay
    <3>1. won \in BOOLEAN
      BY DEF Suns!IsSolved
    <3> HIDE DEF won, grid
    <3> QED
      BY <1>2, <3>1 DEF Suns!Finish
  <2> HIDE DEF grid
  <2>5. over => data \in SunFinishes
    BY <2>3, <2>4, SolvedSuns DEF SunFinishes
  <2>6. /\ state' = next /\ ended' \in BOOLEAN /\ sent' \in Seq(SunFinishes)
        /\ GivenOnce(over, state.replay, data, ended', sent')
    <3>1. Shows(next, over, data)
      BY <2>2 DEF Suns!Shows, Shows
    <3>2. /\ state.replay \in BOOLEAN /\ ended = state.replay
          /\ Len(sent) = (IF ended THEN 1 ELSE 0) /\ sent \in Seq(SunFinishes)
      BY <1>2, <2>2 DEF GivenOnce
    <3>3. over \in BOOLEAN
      BY <2>4
    <3> HIDE DEF next, over, data, won
    <3> QED
      BY <2>5, <3>1, <3>2, <3>3, RenderAgain
  <2>7. /\ next \in [grid : SunGrids, gameStatus : {"playing", "won"}, replay : BOOLEAN]
        /\ next.gameStatus = "won" <=> won
    <3> HIDE DEF won
    <3> QED
      BY <1>2, <2>3, <2>4
  <2>8. GivenOnce(next.gameStatus = "won", next.replay, Suns!Finish(next), ended', sent')
    BY <2>4, <2>6
  <2> HIDE DEF next
  <2> QED
    BY <2>3, <2>4, <2>6, <2>7, <2>8 DEF SunsInv, SunsBoard
<1>4. CASE Suns!StartOver
  <2>1. state' = [Suns!CreateInitialState EXCEPT !.replay = ended] /\ ended' = ended /\ sent' = sent
    BY <1>4 DEF Suns!StartOver, Suns!Replays, Suns!StartsOver, Suns!Plays
  <2>2. state' = [grid |-> Served, gameStatus |-> "playing", replay |-> ended]
    BY <2>1 DEF Suns!CreateInitialState, Served
  <2>3. (Len(sent) = IF ended THEN 1 ELSE 0) /\ state'.gameStatus # "won" /\ state'.replay = ended
    BY <1>2, <2>2 DEF GivenOnce
  <2>4. GivenOnce(state'.gameStatus = "won", state'.replay, Suns!Finish(state'), ended', sent')
    BY <2>1, <2>3 DEF GivenOnce
  <2>5. /\ state' \in [grid : SunGrids, gameStatus : {"playing", "won"}, replay : BOOLEAN]
        /\ state'.grid = Served /\ state'.gameStatus = "playing"
    BY <1>2, <2>2 DEF SunsPuzzle
  <2> QED
    BY <1>2, <2>1, <2>4, <2>5 DEF SunsInv, SunsBoard, SunsPuzzle
<1>5. CASE UNCHANGED boardVars
  <2>1. state' = state /\ ended' = ended /\ sent' = sent
    BY <1>5 DEF boardVars
  <2> QED
    BY <1>1, <2>1 DEF SunsInv
<1> QED
  BY <1>3, <1>4, <1>5 DEF Suns!Next

(* Tango: the given suns and moons stay, an over-full line is marked, a    *)
(* full grid without a fault wins at once; the first one since the page    *)
(* was opened, and no other, is handed over, as it is on show. What is     *)
(* handed over has as many suns as moons in every row and column, never    *)
(* three alike in a row, no two equal rows or columns, and the givens.     *)
THEOREM TangoCorrect ==
    ASSUME SunsPuzzle
    PROVE  Suns!Init /\ [][Suns!Next]_boardVars =>
               [](/\ Suns!Legal /\ Suns!Explained /\ Suns!Finished
                  /\ \A i \in DOMAIN sent : Suns!Right(sent[i]))
<1>1. Suns!Init => SunsInv
  <2> SUFFICES ASSUME Suns!Init PROVE SunsInv
    OBVIOUS
  <2>1. state = [grid |-> Served, gameStatus |-> "playing", replay |-> FALSE] /\ ended = FALSE /\ sent = <<>>
    BY DEF Suns!Init, Suns!Starts, Suns!CreateInitialState, Served
  <2>2. sent \in Seq(SunFinishes) /\ GivenOnce(FALSE, FALSE, Suns!Finish(state), ended, sent)
    BY <2>1 DEF GivenOnce
  <2> QED
    BY <2>1, <2>2 DEF SunsInv, SunsBoard, SunsPuzzle
<1>2. SunsInv /\ [Suns!Next]_boardVars => SunsInv'
  BY SunsStep
<1>3. SunsInv => /\ Suns!Legal /\ Suns!Explained /\ Suns!Finished
                 /\ \A i \in DOMAIN sent : Suns!Right(sent[i])
  <2> SUFFICES ASSUME SunsInv
               PROVE  /\ Suns!Legal /\ Suns!Explained /\ Suns!Finished
                      /\ \A i \in DOMAIN sent : Suns!Right(sent[i])
    OBVIOUS
  <2>1. /\ state.grid \in SunGrids /\ sent \in Seq(SunFinishes)
        /\ \A c \in Suns!Cells : Served[c] # "none" => state.grid[c] = Served[c]
        /\ state.gameStatus = "won" <=> Suns!IsSolved(state.grid)
        /\ GivenOnce(state.gameStatus = "won", state.replay, Suns!Finish(state), ended, sent)
    BY DEF SunsInv, SunsBoard
  <2>2. Suns!Legal
    <3>1. Suns!CreateInitialState.grid = Served
      BY DEF Suns!CreateInitialState, Served
    <3> QED
      BY <2>1, <3>1 DEF Suns!Legal
  <2>3. Suns!Explained
    BY <2>1, OverfullIsMarked DEF Suns!Explained
  <2>4. Suns!Finished
    BY <2>1 DEF Suns!Finished, Suns!HandsOverTheFirst, GivenOnce
  <2>5. \A i \in DOMAIN sent : Suns!Right(sent[i])
    <3>1. \A i \in DOMAIN sent : sent[i] \in SunFinishes
      BY <2>1
    <3> QED
      BY <3>1 DEF SunFinishes
  <2> QED
    BY <2>2, <2>3, <2>4, <2>5
<1> QED
  BY <1>1, <1>2, <1>3, PTL

------------------------------------------------------------------------------
(* Queens.                                                                 *)
CONSTANTS Regions, Touched, MaxQueens
Crowns == INSTANCE Queens

RegionsUsed == {Crowns!Region(c) : c \in Crowns!Cells}

CrownsPuzzle ==
    /\ Crowns!Size \in Nat \ {0} /\ Touched \subseteq Crowns!Cells
    /\ Cardinality(RegionsUsed) = Crowns!Size

CrownsStates == [grid : SUBSET Crowns!Cells, selectedCell : Crowns!Cells \cup {Crowns!Nowhere}, isComplete : BOOLEAN]

Coronations == {f \in [finalGrid : SUBSET Crowns!Cells] : Crowns!Right(f)}

CrownsBoard(s, over, finishes) ==
    /\ s \in CrownsStates
    /\ s.isComplete => Crowns!IsSolved(s.grid)
    /\ over = s.isComplete
    /\ finishes \in Seq(Coronations)
    /\ over => finishes # <<>> /\ Last(finishes) = [finalGrid |-> s.grid]

CrownsInv == CrownsBoard(state, ended, sent)

LEMMA CrownsCounts == ASSUME NEW S PROVE Crowns!Cardinality(S) = Cardinality(S)
  BY DEF Crowns!Cardinality, Cardinality

LEMMA CellsFinite ==
    ASSUME CrownsPuzzle
    PROVE  /\ IsFiniteSet(Crowns!Cells) /\ IsFiniteSet(RegionsUsed)
           /\ IsFiniteSet(1..Crowns!Size) /\ Cardinality(1..Crowns!Size) = Crowns!Size
<1>1. IsFiniteSet(1..Crowns!Size) /\ Cardinality(1..Crowns!Size) = Crowns!Size
  BY FS_Interval DEF CrownsPuzzle
<1>2. IsFiniteSet(Crowns!Cells)
  BY <1>1, FS_Product DEF Crowns!Cells
<1>3. [c \in Crowns!Cells |-> Crowns!Region(c)] \in Surjection(Crowns!Cells, RegionsUsed)
  BY DEF Surjection, RegionsUsed
<1>4. IsFiniteSet(RegionsUsed)
  BY <1>2, <1>3, FS_Surjection
<1> QED
  BY <1>1, <1>2, <1>4

(* As many crowns as rows, none in conflict: each row, each column and each *)
(* region has one.                                                         *)
LEMMA PeacefulIsSolved ==
    ASSUME CrownsPuzzle, NEW grid \in SUBSET Crowns!Cells, Cardinality(grid) = Crowns!Size,
           \A c \in grid : Crowns!GetConflicts(grid, c) = {}
    PROVE  Crowns!IsSolved(grid)
<1>0. /\ IsFiniteSet(1..Crowns!Size) /\ Cardinality(grid) = Cardinality(1..Crowns!Size)
      /\ IsFiniteSet(RegionsUsed) /\ Cardinality(grid) = Cardinality(RegionsUsed)
  BY CellsFinite DEF CrownsPuzzle
<1>1. ASSUME NEW c \in grid, NEW d \in grid, c # d
      PROVE  c[1] # d[1] /\ c[2] # d[2] /\ Crowns!Region(c) # Crowns!Region(d)
  BY <1>1 DEF Crowns!GetConflicts
<1>2. ASSUME NEW c \in grid
      PROVE  c \in Crowns!Cells /\ c[1] \in 1..Crowns!Size /\ c[2] \in 1..Crowns!Size /\ Crowns!Region(c) \in RegionsUsed
  BY DEF Crowns!Cells, RegionsUsed
<1>3. {c[1] : c \in grid} = 1..Crowns!Size
  <2> DEFINE T == 1..Crowns!Size
             f == [c \in grid |-> c[1]]
  <2>1. f \in [grid -> T] /\ (\A a, b \in grid : f[a] = f[b] => a = b) /\ \A c \in grid : f[c] = c[1]
    BY <1>1, <1>2
  <2>2. IsFiniteSet(T) /\ Cardinality(grid) = Cardinality(T)
    BY <1>0
  <2> HIDE DEF f, T
  <2>3. \A t \in T : \E c \in grid : f[c] = t
    BY <2>1, <2>2, Onto
  <2> QED
    BY <1>2, <2>1, <2>3 DEF T
<1>4. {c[2] : c \in grid} = 1..Crowns!Size
  <2> DEFINE T == 1..Crowns!Size
             f == [c \in grid |-> c[2]]
  <2>1. f \in [grid -> T] /\ (\A a, b \in grid : f[a] = f[b] => a = b) /\ \A c \in grid : f[c] = c[2]
    BY <1>1, <1>2
  <2>2. IsFiniteSet(T) /\ Cardinality(grid) = Cardinality(T)
    BY <1>0
  <2> HIDE DEF f, T
  <2>3. \A t \in T : \E c \in grid : f[c] = t
    BY <2>1, <2>2, Onto
  <2> QED
    BY <1>2, <2>1, <2>3 DEF T
<1>5. {Crowns!Region(c) : c \in grid} = RegionsUsed
  <2> DEFINE f == [c \in grid |-> Crowns!Region(c)]
  <2>1. f \in [grid -> RegionsUsed] /\ (\A a, b \in grid : f[a] = f[b] => a = b)
        /\ \A c \in grid : f[c] = Crowns!Region(c)
    BY <1>1, <1>2
  <2> HIDE DEF f
  <2>2. \A t \in RegionsUsed : \E c \in grid : f[c] = t
    BY <1>0, <2>1, Onto
  <2> QED
    BY <1>2, <2>1, <2>2
<1> QED
  BY <1>3, <1>4, <1>5, CrownsCounts DEF Crowns!IsSolved, RegionsUsed

LEMMA FurtherApart ==
    ASSUME NEW x \in Int, NEW y \in Int, x \notin -1..1 \/ y \notin -1..1
    PROVE  Crowns!Max({x, -x, y, -y}) > 1
<1> DEFINE S == {x, -x, y, -y}
<1>1. \E m \in S : \A n \in S : m >= n
  OBVIOUS
<1>2. \E n \in S : n > 1
  OBVIOUS
<1> HIDE DEF S
<1>3. Crowns!Max(S) \in S /\ \A n \in S : Crowns!Max(S) >= n
  BY <1>1 DEF Crowns!Max
<1>4. \A n \in S : n \in Int
  BY DEF S
<1> QED
  BY <1>2, <1>3, <1>4 DEF S

LEMMA SolvedIsRight ==
    ASSUME CrownsPuzzle, NEW grid \in SUBSET Crowns!Cells, Crowns!IsSolved(grid)
    PROVE  [finalGrid |-> grid] \in Coronations
<1>1. ASSUME NEW c \in grid, NEW d \in grid, c # d
      PROVE  /\ c[1] # d[1] /\ c[2] # d[2] /\ Crowns!Region(c) # Crowns!Region(d)
             /\ d[1] - c[1] \notin -1..1 \/ d[2] - c[2] \notin -1..1
  BY <1>1 DEF Crowns!IsSolved, Crowns!GetConflicts
<1>2. ASSUME NEW i \in 1..Crowns!Size PROVE Cardinality({c \in grid : c[1] = i}) = 1
  <2>1. PICK c \in grid : c[1] = i
    BY DEF Crowns!IsSolved
  <2>2. {d \in grid : d[1] = i} = {c}
    BY <1>1, <2>1
  <2> QED
    BY <2>2, FS_Singleton
<1>3. ASSUME NEW i \in 1..Crowns!Size PROVE Cardinality({c \in grid : c[2] = i}) = 1
  <2>1. PICK c \in grid : c[2] = i
    BY DEF Crowns!IsSolved
  <2>2. {d \in grid : d[2] = i} = {c}
    BY <1>1, <2>1
  <2> QED
    BY <2>2, FS_Singleton
<1>4. ASSUME NEW c \in Crowns!Cells PROVE Cardinality({d \in grid : Crowns!Region(d) = Crowns!Region(c)}) = 1
  <2>1. PICK e \in grid : Crowns!Region(e) = Crowns!Region(c)
    BY DEF Crowns!IsSolved
  <2>2. {d \in grid : Crowns!Region(d) = Crowns!Region(c)} = {e}
    BY <1>1, <2>1
  <2> QED
    BY <2>2, FS_Singleton
<1>5. ASSUME NEW c \in grid, NEW d \in grid, c # d
      PROVE  Crowns!Max({c[1] - d[1], d[1] - c[1], c[2] - d[2], d[2] - c[2]}) > 1
  <2> DEFINE x == d[1] - c[1]
             y == d[2] - c[2]
  <2>1. c[1] \in Int /\ c[2] \in Int /\ d[1] \in Int /\ d[2] \in Int
    BY DEF Crowns!Cells, CrownsPuzzle
  <2>2. x \in Int /\ y \in Int /\ (x \notin -1..1 \/ y \notin -1..1)
    BY <1>1, <1>5, <2>1
  <2>3. c[1] - d[1] = -x /\ c[2] - d[2] = -y
    BY <2>1
  <2> HIDE DEF x, y
  <2>4. {-x, x, -y, y} = {x, -x, y, -y}
    OBVIOUS
  <2> QED
    BY <2>2, <2>3, <2>4, FurtherApart DEF x, y
<1> QED
  BY <1>2, <1>3, <1>4, <1>5, CrownsCounts DEF Coronations, Crowns!Right

LEMMA NeighboursOnBoard ==
    ASSUME CrownsPuzzle, NEW c \in Crowns!Cells PROVE Crowns!Neighbours(c) \subseteq Crowns!Cells
<1>1. ASSUME NEW i \in 1..Crowns!Size
      PROVE  /\ Crowns!Max({1, i - 1}) \in 1..Crowns!Size
             /\ Crowns!Min({Crowns!Size, i + 1}) \in 1..Crowns!Size
  <2>1. Crowns!Size \in Nat \ {0} /\ i \in Nat
    BY DEF CrownsPuzzle
  <2>2. Crowns!Max({1, i - 1}) \in {1, i - 1} /\ Crowns!Max({1, i - 1}) >= 1
    <3>1. \E m \in {1, i - 1} : \A n \in {1, i - 1} : m >= n
      BY <2>1
    <3>2. Crowns!Max({1, i - 1}) \in {1, i - 1} /\ \A n \in {1, i - 1} : Crowns!Max({1, i - 1}) >= n
      BY <3>1 DEF Crowns!Max
    <3> QED
      BY <3>2
  <2>3. Crowns!Min({Crowns!Size, i + 1}) \in {Crowns!Size, i + 1} /\ Crowns!Min({Crowns!Size, i + 1}) =< Crowns!Size
    <3> DEFINE S == {Crowns!Size, i + 1}
    <3>1. \E m \in S : \A n \in S : m =< n
      BY <2>1
    <3> HIDE DEF S
    <3>2. Crowns!Min(S) \in S /\ \A n \in S : Crowns!Min(S) =< n
      BY <3>1 DEF Crowns!Min
    <3> QED
      BY <3>2 DEF S
  <2> QED
    BY <2>1, <2>2, <2>3
<1>2. c[1] \in 1..Crowns!Size /\ c[2] \in 1..Crowns!Size
  BY DEF Crowns!Cells
<1> QED
  BY <1>1, <1>2 DEF Crowns!Neighbours, Crowns!Cells

LEMMA CrownsStep == CrownsPuzzle /\ CrownsInv /\ [Crowns!Next]_boardVars => CrownsInv'
<1> SUFFICES ASSUME CrownsPuzzle, CrownsInv, [Crowns!Next]_boardVars PROVE CrownsBoard(state', ended', sent')
  BY DEF CrownsInv
<1>0. /\ state \in CrownsStates /\ state.grid \in SUBSET Crowns!Cells /\ sent \in Seq(Coronations)
      /\ ended = state.isComplete /\ ended \in BOOLEAN
  BY DEF CrownsInv, CrownsBoard, CrownsStates
<1>1. CASE Crowns!ToggleQueen
  <2>1. PICK c \in Touched :
          LET grid == Crowns!SymDiff(state.grid, {c})
              next == [grid |-> grid, selectedCell |-> c, isComplete |-> Crowns!IsSolved(grid)]
          IN ~state.isComplete /\ Crowns!Shows(next, next.isComplete, Crowns!Finish(next))
    BY <1>1 DEF Crowns!ToggleQueen
  <2> DEFINE grid == Crowns!SymDiff(state.grid, {c})
             solved == Crowns!IsSolved(grid)
             data == [finalGrid |-> grid]
             next == [grid |-> grid, selectedCell |-> c, isComplete |-> solved]
  <2>2. c \in Crowns!Cells /\ grid \in SUBSET Crowns!Cells /\ solved \in BOOLEAN
    BY <1>0 DEF CrownsPuzzle, Crowns!SymDiff, Crowns!IsSolved
  <2>3. solved => data \in Coronations
    BY <2>2, SolvedIsRight
  <2>4. ended = FALSE /\ Shows(next, solved, data)
    BY <1>0, <2>1 DEF Crowns!Finish, Crowns!Shows, Shows
  <2>5. solved => Crowns!IsSolved(grid)
    OBVIOUS
  <2> HIDE DEF grid, solved
  <2>6. next \in CrownsStates /\ next.grid = grid /\ next.isComplete = solved
    BY <2>2 DEF CrownsStates
  <2> HIDE DEF next, data
  <2>7. /\ state' = next /\ ended' = solved /\ sent' \in Seq(Coronations)
        /\ solved => sent' # <<>> /\ Last(sent') = data
    BY <1>0, <2>2, <2>3, <2>4, Render
  <2>8. CrownsBoard(next, solved, sent')
    BY <2>5, <2>6, <2>7 DEF CrownsBoard, data
  <2> QED
    BY <2>7, <2>8
<1>2. CASE Crowns!ClearCell
  <2> DEFINE next == [state EXCEPT !.grid = state.grid \ {state.selectedCell}]
  <2>1. ~state.isComplete /\ state' = next /\ UNCHANGED <<ended, sent>>
    BY <1>2 DEF Crowns!ClearCell, Crowns!Plays
  <2>2. next \in CrownsStates /\ next.isComplete = state.isComplete
    BY <1>0 DEF CrownsStates
  <2> HIDE DEF next
  <2> QED
    BY <1>0, <2>1, <2>2 DEF CrownsBoard
<1>3. CASE Crowns!Move
  <2>1. PICK c \in IF state.selectedCell = Crowns!Nowhere
                   THEN {<<(Crowns!Size \div 2) + 1, (Crowns!Size \div 2) + 1>>} ELSE Crowns!Neighbours(state.selectedCell) :
          Crowns!Plays([state EXCEPT !.selectedCell = c])
    BY <1>3 DEF Crowns!Move
  <2> DEFINE next == [state EXCEPT !.selectedCell = c]
  <2>2. c \in Crowns!Cells
    <3>1. CASE state.selectedCell = Crowns!Nowhere
      <4>1. (Crowns!Size \div 2) + 1 \in 1..Crowns!Size
        BY DEF CrownsPuzzle
      <4> QED
        BY <2>1, <3>1, <4>1 DEF Crowns!Cells
    <3>2. CASE state.selectedCell # Crowns!Nowhere
      <4>1. state.selectedCell \in Crowns!Cells
        BY <1>0, <3>2 DEF CrownsStates
      <4> QED
        BY <2>1, <3>2, <4>1, NeighboursOnBoard
    <3> QED
      BY <3>1, <3>2
  <2>3. state' = next /\ UNCHANGED <<ended, sent>>
    BY <2>1 DEF Crowns!Plays
  <2>4. next \in CrownsStates /\ next.grid = state.grid /\ next.isComplete = state.isComplete
    BY <1>0, <2>2 DEF CrownsStates
  <2> HIDE DEF next
  <2>5. CrownsBoard(next, ended, sent)
    BY <2>4 DEF CrownsInv, CrownsBoard
  <2> QED
    BY <2>3, <2>5
<1>4. CASE Crowns!HandleReset
  <2> DEFINE next == [grid |-> {}, selectedCell |-> Crowns!Nowhere, isComplete |-> FALSE]
  <2>1. state' = next /\ ended' = FALSE /\ UNCHANGED sent
    BY <1>4 DEF Crowns!HandleReset, Crowns!CreateInitialState
  <2>2. next \in CrownsStates /\ next.isComplete = FALSE
    BY DEF CrownsStates
  <2> HIDE DEF next
  <2> QED
    BY <1>0, <2>1, <2>2 DEF CrownsBoard
<1>5. CASE UNCHANGED boardVars
  BY <1>5 DEF boardVars, CrownsInv
<1> QED
  BY <1>1, <1>2, <1>3, <1>4, <1>5 DEF Crowns!Next

(* queens-game.tsx: on any board with as many regions as rows, a complete  *)
(* board shows no conflict, a full board without conflicts is solved, and  *)
(* what is handed over has one crown in each row, column and region, none  *)
(* touching another.                                                       *)
THEOREM QueensCorrect ==
    ASSUME CrownsPuzzle
    PROVE  Crowns!Init /\ [][Crowns!Next]_boardVars =>
               [](/\ Crowns!Legal /\ Crowns!Explained /\ Crowns!Finished
                  /\ \A i \in DOMAIN sent : Crowns!Right(sent[i]))
<1>1. Crowns!Init => CrownsInv
  <2> SUFFICES ASSUME Crowns!Init PROVE CrownsBoard(state, ended, sent)
    BY DEF CrownsInv
  <2> DEFINE first == [grid |-> {}, selectedCell |-> Crowns!Nowhere, isComplete |-> FALSE]
  <2>1. state = first /\ ended = FALSE /\ sent = <<>>
    BY DEF Crowns!Init, Crowns!Starts, Crowns!CreateInitialState
  <2>2. first \in CrownsStates /\ first.isComplete = FALSE /\ <<>> \in Seq(Coronations)
    BY DEF CrownsStates
  <2> HIDE DEF first
  <2> QED
    BY <2>1, <2>2 DEF CrownsBoard
<1>2. CrownsInv /\ [Crowns!Next]_boardVars => CrownsInv'
  BY CrownsStep
<1>3. CrownsInv => /\ Crowns!Legal /\ Crowns!Explained /\ Crowns!Finished
                   /\ \A i \in DOMAIN sent : Crowns!Right(sent[i])
  <2> SUFFICES ASSUME CrownsInv PROVE /\ Crowns!Legal /\ Crowns!Explained /\ Crowns!Finished
                                      /\ \A i \in DOMAIN sent : Crowns!Right(sent[i])
    OBVIOUS
  <2>1. state \in CrownsStates /\ state.grid \in SUBSET Crowns!Cells
    BY DEF CrownsInv, CrownsBoard, CrownsStates
  <2>2. Crowns!Legal
    BY <2>1 DEF CrownsStates, Crowns!Legal
  <2>3. Crowns!Explained
    <3>1. state.isComplete => Crowns!GetConflictingCells = {}
      BY DEF CrownsInv, CrownsBoard, Crowns!IsSolved, Crowns!GetConflictingCells
    <3>2. ASSUME Crowns!Cardinality(state.grid) = Crowns!Size, Crowns!GetConflictingCells = {}
          PROVE  Crowns!IsSolved(state.grid)
      <4>1. \A c \in state.grid : Crowns!GetConflicts(state.grid, c) = {}
        BY <3>2 DEF Crowns!GetConflictingCells
      <4>2. Cardinality(state.grid) = Crowns!Size
        BY <3>2, CrownsCounts
      <4> QED
        BY <2>1, <4>1, <4>2, PeacefulIsSolved
    <3> QED
      BY <3>1, <3>2 DEF Crowns!Explained
  <2>4. Crowns!Finished
    BY DEF CrownsInv, CrownsBoard, Crowns!Finished, Crowns!Finish, Crowns!Last, Last
  <2>5. \A i \in DOMAIN sent : Crowns!Right(sent[i])
    BY DEF CrownsInv, CrownsBoard, Coronations
  <2> QED
    BY <2>2, <2>3, <2>4, <2>5
<1> QED
  BY <1>1, <1>2, <1>3, PTL

------------------------------------------------------------------------------
(* Killer Sudoku.                                                          *)
CONSTANTS Cages, Noted
Killer == INSTANCE KillerSudoku WITH Typed <- Entered

CagedGrids == [Squares -> Pencilled]
CagedClues == Killer!CreateInitialState.cells

CagedPuzzle ==
    /\ BOX_SIZE \in Nat \ {0}
    /\ \A c \in Squares : Puzzle[c[1]][c[2]] \in {0} \cup Digits
    /\ ~Killer!IsSolved(CagedClues)
    /\ DOMAIN Entered \subseteq Squares /\ \A c \in DOMAIN Entered : Entered[c] \subseteq Digits
    /\ \A cage \in Cages : cage.cells \subseteq Squares

(* The board that shows a handed over grid.                                *)
Written(f) == [c \in Squares |-> [value |-> f.finalGrid[c], notes |-> {}]]

(* What the module's Right says, each sum as the page adds it up.          *)
CagesAreRight(f) ==
    /\ FullHouses(f.finalGrid)
    /\ \A cage \in Cages : Killer!CageSum(Written(f), cage) = cage.sum
    /\ \A c \in Squares : Killer!IsGiven(c) => f.finalGrid[c] = Puzzle[c[1]][c[2]]

KeepsCaged(cells) ==
    /\ cells \in CagedGrids
    /\ \A c \in Squares : Killer!IsGiven(c) => cells[c] = CagedClues[c]
    /\ \A c \in Squares : cells[c].value # 0 => cells[c].notes = {}

CagedFinishes == {f \in [finalGrid : [Squares -> {0} \cup Digits]] : CagesAreRight(f)}

CagedState ==
    [cells : CagedGrids, selectedCell : DOMAIN Entered \cup {Killer!Nowhere}, notesMode : BOOLEAN,
     gameStatus : {"playing", "won"}, replay : BOOLEAN]

CagedBoard(s, over, finishes) ==
    /\ s \in CagedState /\ KeepsCaged(s.cells)
    /\ s.gameStatus = "won" <=> Killer!IsSolved(s.cells)
    /\ over \in BOOLEAN /\ finishes \in Seq(CagedFinishes)
    /\ GivenOnce(s.gameStatus = "won", s.replay, Killer!Finish(s), over, finishes)

CagedInv == CagedBoard(state, ended, sent)

LEMMA SquaresAreCaged ==
    /\ Killer!Cells = Squares /\ 1..Killer!GRID_SIZE = Digits
    /\ \A c : Killer!Box(c) = BoxOf(c)
  BY DEF Killer!Cells, Killer!GRID_SIZE, Squares, Digits, Killer!Box, BoxOf

(* A cage's sum, as the page adds it up and as a sum over its cells.       *)
LEMMA CageAdds ==
    ASSUME NEW cells, NEW cage, IsFiniteSet(cage.cells),
           NEW d \in [cage.cells -> Int], \A c \in cage.cells : d[c] = cells[c].value
    PROVE  \E F : Adds(F, cage.cells, d) /\ Killer!CageSum(cells, cage) = F[cage.cells]
<1> DEFINE S == cage.cells
           Is(g) == g = [s \in SUBSET S |-> IF s = {} THEN 0 ELSE g[s \ {Chosen(s)}] + cells[Chosen(s)].value]
           F == CHOOSE g : Is(g)
<1>1. Killer!CageSum(cells, cage) = F[S]
  BY DEF Killer!CageSum, Killer!FoldSet, Killer!MapThenFoldSet, Chosen
<1>2. \A s \in SUBSET S : s # {} => Chosen(s) \in S /\ d[Chosen(s)] = cells[Chosen(s)].value
  BY DEF Chosen
<1> HIDE DEF S
<1>3. PICK g : IsSum(g, S, d)
  BY SumExists DEF S
<1>4. Is(g)
  <2>1. ASSUME NEW s \in SUBSET S, s # {} PROVE g[s] = g[s \ {Chosen(s)}] + cells[Chosen(s)].value
    <3>1. g[s] = d[Chosen(s)] + g[s \ {Chosen(s)}] /\ g[s \ {Chosen(s)}] \in Int /\ d[Chosen(s)] \in Int
      BY <1>2, <1>3, <2>1 DEF IsSum, S
    <3>2. g[s] = g[s \ {Chosen(s)}] + d[Chosen(s)]
      BY <3>1
    <3> QED
      BY <1>2, <2>1, <3>2
  <2>2. g \in [SUBSET S -> Int] /\ g[{}] = 0
    BY <1>3 DEF IsSum
  <2> QED
    BY <2>1, <2>2
<1>5. Is(F)
  BY <1>4
<1> HIDE DEF F
<1>6. F[{}] = 0 /\ \A s \in SUBSET S : s # {} => F[s] = F[s \ {Chosen(s)}] + d[Chosen(s)]
  BY <1>2, <1>5
<1> HIDE DEF Is
<1>7. Adds(F, S, d)
  BY <1>2, <1>6, SumIsBackwards DEF S
<1> QED
  BY <1>1, <1>7 DEF S

SumOn(f, S) == Killer!MapThenSumSet(LAMBDA c : f.finalGrid[c], S)

LEMMA FinishAdds ==
    ASSUME NEW f, NEW S, IsFiniteSet(S), NEW d \in [S -> Int], \A c \in S : d[c] = f.finalGrid[c]
    PROVE  \E F : Adds(F, S, d) /\ SumOn(f, S) = F[S]
<1> DEFINE Is(g) == g = [s \in SUBSET S |-> IF s = {} THEN 0 ELSE f.finalGrid[Chosen(s)] + g[s \ {Chosen(s)}]]
           F == CHOOSE g : Is(g)
<1>1. SumOn(f, S) = F[S]
  BY DEF SumOn, Killer!MapThenSumSet, Killer!MapThenFoldSet, Chosen
<1>2. \A s \in SUBSET S : s # {} => d[Chosen(s)] = f.finalGrid[Chosen(s)]
  BY DEF Chosen
<1>3. \E g : Is(g)
  <2>1. PICK g : IsSum(g, S, d)
    BY SumExists
  <2>2. \A s \in SUBSET S : g[s] = IF s = {} THEN 0 ELSE f.finalGrid[Chosen(s)] + g[s \ {Chosen(s)}]
    BY <1>2, <2>1 DEF IsSum
  <2>3. g \in [SUBSET S -> Int]
    BY <2>1 DEF IsSum
  <2>4. Is(g)
    BY <2>2, <2>3
  <2> QED
    BY <2>4
<1>4. Is(F)
  BY <1>3
<1> HIDE DEF F
<1>5. F[{}] = 0 /\ \A s \in SUBSET S : s # {} => F[s] = d[Chosen(s)] + F[s \ {Chosen(s)}]
  BY <1>2, <1>4
<1> HIDE DEF Is
<1>6. Adds(F, S, d)
  BY <1>5, SumIs
<1> QED
  BY <1>1, <1>6

LEMMA RightCages ==
    ASSUME CagedPuzzle, NEW f \in [finalGrid : [Squares -> {0} \cup Digits]], CagesAreRight(f)
    PROVE  Killer!Right(f)
<1>1. IsFiniteSet(Squares)
  <2>1. IsFiniteSet(Digits)
    <3>1. BOX_SIZE * BOX_SIZE \in Nat
      BY DEF CagedPuzzle
    <3> QED
      BY <3>1, FirstNumbers DEF Digits
  <2> QED
    BY <2>1, FS_Product DEF Squares
<1>2. ASSUME NEW cage \in Cages PROVE SumOn(f, cage.cells) = cage.sum
  <2> DEFINE d == [c \in cage.cells |-> f.finalGrid[c]]
  <2>1. IsFiniteSet(cage.cells) /\ cage.cells \in SUBSET Squares
    BY <1>1, FS_Subset DEF CagedPuzzle
  <2>2. d \in [cage.cells -> Int] /\ (\A c \in cage.cells : d[c] = f.finalGrid[c])
    <3>1. \A n \in {0} \cup Digits : n \in Int
      BY DEF Digits
    <3> QED
      BY <2>1, <3>1
  <2>3. \A c \in cage.cells : d[c] = Written(f)[c].value
    BY <2>1 DEF Written
  <2> HIDE DEF d
  <2>4. PICK F : Adds(F, cage.cells, d) /\ Killer!CageSum(Written(f), cage) = F[cage.cells]
    BY <2>1, <2>2, <2>3, CageAdds
  <2>5. PICK G : Adds(G, cage.cells, d) /\ SumOn(f, cage.cells) = G[cage.cells]
    BY <2>1, <2>2, FinishAdds
  <2>6. F[cage.cells] = G[cage.cells]
    BY <2>4, <2>5, SumsAgree
  <2> QED
    BY <2>4, <2>5, <2>6 DEF CagesAreRight
<1>3. \A c \in Killer!Cells : Killer!IsGiven(c) => f.finalGrid[c] = Puzzle[c[1]][c[2]]
  BY SquaresAreCaged DEF CagesAreRight
<1>4. \A i \in 1..Killer!GRID_SIZE :
        /\ {f.finalGrid[<<i, j>>] : j \in 1..Killer!GRID_SIZE} = 1..Killer!GRID_SIZE
        /\ {f.finalGrid[<<j, i>>] : j \in 1..Killer!GRID_SIZE} = 1..Killer!GRID_SIZE
  <2>1. \A i \in Digits : {f.finalGrid[<<i, j>>] : j \in Digits} = Digits /\ {f.finalGrid[<<j, i>>] : j \in Digits} = Digits
    BY DEF CagesAreRight, FullHouses
  <2> QED
    BY <2>1, SquaresAreCaged
<1>5. \A c \in Killer!Cells :
        {f.finalGrid[d] : d \in {e \in Killer!Cells : Killer!Box(e) = Killer!Box(c)}} = 1..Killer!GRID_SIZE
  <2> SUFFICES ASSUME NEW c \in Killer!Cells
               PROVE  {f.finalGrid[d] : d \in {e \in Killer!Cells : Killer!Box(e) = Killer!Box(c)}}
                        = 1..Killer!GRID_SIZE
    OBVIOUS
  <2>1. {e \in Killer!Cells : Killer!Box(e) = Killer!Box(c)} = {e \in Squares : BoxOf(e) = BoxOf(c)}
    BY SquaresAreCaged
  <2>2. {f.finalGrid[d] : d \in {e \in Squares : BoxOf(e) = BoxOf(c)}} = Digits
    BY SquaresAreCaged DEF CagesAreRight, FullHouses
  <2> QED
    BY <2>1, <2>2, SquaresAreCaged
<1> QED
  BY <1>2, <1>3, <1>4, <1>5 DEF Killer!Right, SumOn

LEMMA SolvedCaged ==
    ASSUME CagedPuzzle, NEW s \in CagedState, KeepsCaged(s.cells), Killer!IsSolved(s.cells)
    PROVE  Killer!Finish(s) \in CagedFinishes
<1> DEFINE g == [c \in Squares |-> s.cells[c].value]
           f == [finalGrid |-> g]
<1>1. Killer!Finish(s) = f
  BY SquaresAreCaged DEF Killer!Finish
<1>2. \A c \in Squares : g[c] = s.cells[c].value /\ g[c] \in {0} \cup Digits /\ s.cells[c] \in Pencilled
  BY DEF KeepsCaged, CagedGrids, Pencilled
<1>3. /\ \A c \in Squares : s.cells[c].value # 0 /\ ~Killer!Clash(s.cells, c, Killer!SameLine(c))
      /\ \A cage \in Cages : Killer!CageSum(s.cells, cage) = cage.sum
  BY SquaresAreCaged DEF Killer!IsSolved
<1>4. g \in [Squares -> Digits]
  BY <1>2, <1>3
<1>5. \A c, e \in Squares : c # e /\ SameHouse(c, e) => g[c] # g[e]
  <2> SUFFICES ASSUME NEW c \in Squares, NEW e \in Squares, c # e, SameHouse(c, e) PROVE g[c] # g[e]
    OBVIOUS
  <2>1. e \in Killer!SameLine(c) \ {c}
    BY SquaresAreCaged DEF Killer!SameLine, SameHouse
  <2> QED
    BY <1>2, <1>3, <2>1 DEF Killer!Clash
<1>6. \A c \in Squares : Killer!IsGiven(c) => g[c] = Puzzle[c[1]][c[2]]
  <2>1. \A c \in Squares : CagedClues[c].value = Puzzle[c[1]][c[2]]
    BY SquaresAreCaged DEF CagedClues, Killer!CreateInitialState
  <2> QED
    BY <2>1 DEF KeepsCaged
<1> HIDE DEF g
<1>7. FullHouses(g)
  BY <1>4, <1>5, HousesAreFull DEF CagedPuzzle
<1>8. f.finalGrid = g
  OBVIOUS
<1> HIDE DEF f
<1>9. Written(f) = s.cells
  <2>1. s.cells = [c \in Squares |-> s.cells[c]]
    BY DEF KeepsCaged, CagedGrids
  <2>2. ASSUME NEW c \in Squares PROVE s.cells[c] = [value |-> f.finalGrid[c], notes |-> {}]
    BY <1>2, <1>3, <1>8 DEF KeepsCaged, Pencilled
  <2> QED
    BY <2>1, <2>2 DEF Written
<1>10. CagesAreRight(f)
  BY <1>3, <1>6, <1>7, <1>8, <1>9 DEF CagesAreRight
<1>11. f \in [finalGrid : [Squares -> {0} \cup Digits]]
  BY <1>4 DEF f
<1> QED
  BY <1>1, <1>10, <1>11 DEF CagedFinishes

(* A cell written over: the other cells keep what they have.               *)
LEMMA CellWritten ==
    ASSUME CagedPuzzle, NEW cells, KeepsCaged(cells), NEW here \in Squares, ~Killer!IsGiven(here),
           NEW cell \in Pencilled, cell.value # 0 => cell.notes = {}
    PROVE  LET next == [cells EXCEPT ![here] = cell]
           IN KeepsCaged(next) /\ (cell.value = 0 => ~Killer!IsSolved(next))
<1> DEFINE next == [cells EXCEPT ![here] = cell]
<1>1. next \in CagedGrids /\ next[here] = cell /\ \A c \in Squares : c # here => next[c] = cells[c]
  BY DEF KeepsCaged, CagedGrids
<1> HIDE DEF next
<1>2. KeepsCaged(next)
  BY <1>1 DEF KeepsCaged
<1>3. cell.value = 0 => ~Killer!IsSolved(next)
  BY <1>1, SquaresAreCaged DEF Killer!IsSolved
<1> QED
  BY <1>2, <1>3 DEF next

LEMMA CagedStart ==
    ASSUME CagedPuzzle
    PROVE  LET Dealt(s) == /\ s \in CagedState /\ KeepsCaged(s.cells) /\ s.gameStatus = "playing"
                           /\ ~Killer!IsSolved(s.cells)
               start == Killer!CreateInitialState
           IN /\ Dealt(start) /\ start.replay = FALSE
              /\ \A over \in BOOLEAN : LET s == [start EXCEPT !.replay = over] IN Dealt(s) /\ s.replay = over
<1> DEFINE s == Killer!CreateInitialState
<1>1. /\ s.cells = CagedClues /\ s.gameStatus = "playing" /\ s.replay = FALSE
      /\ s = [cells |-> CagedClues, selectedCell |-> Killer!Nowhere, notesMode |-> FALSE,
              gameStatus |-> "playing", replay |-> FALSE]
  BY DEF Killer!CreateInitialState, CagedClues
<1>2. CagedClues = [c \in Squares |-> [value |-> Puzzle[c[1]][c[2]], notes |-> {}]]
  BY SquaresAreCaged DEF CagedClues, Killer!CreateInitialState
<1>3. CagedClues \in CagedGrids
  BY <1>2 DEF CagedPuzzle, CagedGrids, Pencilled
<1>4. KeepsCaged(CagedClues)
  BY <1>2, <1>3 DEF KeepsCaged
<1>5. s \in CagedState
  BY <1>1, <1>3 DEF CagedState
<1> HIDE DEF s
<1>6. ASSUME NEW over \in BOOLEAN
      PROVE  LET t == [s EXCEPT !.replay = over]
             IN t \in CagedState /\ t.cells = s.cells /\ t.gameStatus = s.gameStatus /\ t.replay = over
  BY <1>5 DEF CagedState
<1> QED
  BY <1>1, <1>4, <1>5, <1>6 DEF CagedPuzzle, s

LEMMA CagedStep == CagedPuzzle /\ CagedInv /\ [Killer!Next]_boardVars => CagedInv'
<1> SUFFICES ASSUME CagedPuzzle, CagedInv, [Killer!Next]_boardVars PROVE CagedInv'
  OBVIOUS
<1>1. /\ state \in CagedState /\ KeepsCaged(state.cells)
      /\ state.gameStatus = "won" <=> Killer!IsSolved(state.cells)
      /\ ended \in BOOLEAN /\ sent \in Seq(CagedFinishes)
      /\ GivenOnce(state.gameStatus = "won", state.replay, Killer!Finish(state), ended, sent)
  BY DEF CagedInv, CagedBoard
<1> DEFINE here == state.selectedCell
<1>2. ASSUME Killer!Editable
      PROVE  /\ here \in Squares /\ here \in DOMAIN Entered /\ Entered[here] \subseteq Digits
             /\ ~Killer!IsGiven(here) /\ state.gameStatus = "playing"
             /\ state.cells[here] \in Pencilled
  <2>1. here # Killer!Nowhere /\ ~Killer!IsGiven(here) /\ state.gameStatus = "playing"
    BY <1>2 DEF Killer!Editable, Killer!Playing
  <2>2. here \in DOMAIN Entered \cup {Killer!Nowhere}
    BY <1>1 DEF CagedState
  <2>3. here \in Squares /\ here \in DOMAIN Entered /\ Entered[here] \subseteq Digits
    BY <2>1, <2>2 DEF CagedPuzzle
  <2> QED
    BY <1>1, <2>1, <2>3 DEF KeepsCaged, CagedGrids
<1>3. ASSUME state' \in CagedState, state'.cells = state.cells, state'.gameStatus = state.gameStatus,
             state'.replay = state.replay, ended' = ended, sent' = sent
      PROVE  CagedInv'
  BY <1>1, <1>3 DEF CagedInv, CagedBoard, Killer!Finish
<1>4. CASE Killer!SelectCell
  <2>1. PICK c \in DOMAIN Entered : state' = [state EXCEPT !.selectedCell = c] /\ ended' = ended /\ sent' = sent
    BY <1>4 DEF Killer!SelectCell, Killer!Plays
  <2>2. /\ state' \in CagedState /\ state'.cells = state.cells
        /\ state'.gameStatus = state.gameStatus /\ state'.replay = state.replay
    BY <1>1, <2>1 DEF CagedState
  <2> QED
    BY <1>3, <2>1, <2>2
<1>5. CASE Killer!ToggleNotesMode
  <2>1. state' = [state EXCEPT !.notesMode = ~@] /\ ended' = ended /\ sent' = sent
    BY <1>5 DEF Killer!ToggleNotesMode, Killer!Plays
  <2>2. /\ state' \in CagedState /\ state'.cells = state.cells
        /\ state'.gameStatus = state.gameStatus /\ state'.replay = state.replay
    BY <1>1, <2>1 DEF CagedState
  <2> QED
    BY <1>3, <2>1, <2>2
<1>6. CASE Killer!SetValue
  <2>1. Killer!Editable
    BY <1>6 DEF Killer!SetValue
  <2>2. PICK v \in Entered[here] :
          LET cells == [state.cells EXCEPT ![here] = [value |-> v, notes |-> {}]]
              next  == [state EXCEPT !.cells = cells, !.gameStatus = IF Killer!IsSolved(cells) THEN "won" ELSE @]
          IN Killer!Shows(next, Killer!IsSolved(cells), Killer!Finish(next))
    BY <1>6 DEF Killer!SetValue
  <2> DEFINE cell == [value |-> v, notes |-> {}]
             cells == [state.cells EXCEPT ![here] = cell]
             won == Killer!IsSolved(cells)
             next == [state EXCEPT !.cells = cells, !.gameStatus = IF won THEN "won" ELSE @]
             data == Killer!Finish(next)
  <2>3. Killer!Shows(next, won, data)
    BY <2>2
  <2>4. v \in Digits
    BY <1>2, <2>1
  <2>5. cell \in Pencilled /\ cell.notes = {}
    BY <2>4 DEF Pencilled
  <2>6. KeepsCaged(cells)
    <3> HIDE DEF cell
    <3> QED
      BY <1>1, <1>2, <2>1, <2>5, CellWritten
  <2>7. won \in BOOLEAN
    BY DEF Killer!IsSolved
  <2>8. /\ next \in CagedState /\ next.cells = cells /\ next.replay = state.replay
        /\ next.gameStatus = "won" <=> won
    <3>1. cells \in CagedGrids /\ state.gameStatus = "playing"
      BY <1>2, <2>1, <2>6 DEF KeepsCaged
    <3> HIDE DEF cells, won
    <3> QED
      BY <1>1, <2>7, <3>1 DEF CagedState
  <2>9. won => data \in CagedFinishes
    <3> HIDE DEF next, cells
    <3> QED
      BY <2>6, <2>8, SolvedCaged
  <2>10. /\ state' = next /\ ended' \in BOOLEAN /\ sent' \in Seq(CagedFinishes)
         /\ GivenOnce(won, state.replay, data, ended', sent')
    <3>1. Shows(next, won, data)
      BY <2>3 DEF Killer!Shows, Shows
    <3>2. /\ state.replay \in BOOLEAN /\ ended = state.replay
          /\ Len(sent) = (IF ended THEN 1 ELSE 0) /\ sent \in Seq(CagedFinishes)
      BY <1>1, <1>2, <2>1 DEF GivenOnce, CagedState
    <3> HIDE DEF next, won, data
    <3> QED
      BY <2>7, <2>9, <3>1, <3>2, RenderAgain
  <2>11. GivenOnce(next.gameStatus = "won", next.replay, data, ended', sent')
    <3> HIDE DEF won, next, data
    <3> QED
      BY <2>7, <2>8, <2>10 DEF GivenOnce
  <2>12. CagedBoard(next, ended', sent')
    <3> HIDE DEF next, cells
    <3> QED
      BY <2>6, <2>8, <2>10, <2>11 DEF CagedBoard
  <2> QED
    BY <2>10, <2>12 DEF CagedInv
<1>7. ASSUME Killer!Editable, NEW cell \in Pencilled, cell.value = 0,
             state' = [state EXCEPT !.cells = [state.cells EXCEPT ![here] = cell]], ended' = ended, sent' = sent
      PROVE  CagedInv'
  <2> DEFINE cells == [state.cells EXCEPT ![here] = cell]
  <2>1. KeepsCaged(cells) /\ ~Killer!IsSolved(cells)
    BY <1>1, <1>2, <1>7, CellWritten
  <2> HIDE DEF cells
  <2>2. state' = [state EXCEPT !.cells = cells] /\ cells \in CagedGrids /\ state.gameStatus = "playing"
    BY <1>2, <1>7, <2>1 DEF KeepsCaged, cells
  <2>3. /\ state' \in CagedState /\ state'.cells = cells
        /\ state'.gameStatus = "playing" /\ state'.replay = state.replay
    BY <1>1, <2>2 DEF CagedState
  <2>4. GivenOnce(FALSE, state.replay, Killer!Finish(state'), ended', sent')
    BY <1>1, <1>7, <2>2 DEF GivenOnce
  <2> QED
    BY <1>1, <1>7, <2>1, <2>3, <2>4 DEF CagedInv, CagedBoard
<1>8. CASE Killer!SetNote
  <2>1. Killer!Editable
    BY <1>8 DEF Killer!SetNote
  <2>2. PICK v \in Entered[here] :
          Killer!Plays([state EXCEPT !.cells[here] = [value |-> 0, notes |-> Killer!SymDiff(@.notes, {v})]])
    BY <1>8 DEF Killer!SetNote
  <2> DEFINE cell == [value |-> 0, notes |-> Killer!SymDiff(state.cells[here].notes, {v})]
  <2>3. v \in Digits /\ state.cells[here] \in Pencilled
    BY <1>2, <2>1
  <2>4. cell \in Pencilled /\ cell.value = 0
    BY <2>3 DEF Pencilled, Killer!SymDiff
  <2>5. state' = [state EXCEPT !.cells = [state.cells EXCEPT ![here] = cell]] /\ ended' = ended /\ sent' = sent
    BY <2>2 DEF Killer!Plays
  <2> HIDE DEF cell
  <2> QED
    BY <1>7, <2>1, <2>4, <2>5
<1>9. CASE Killer!ClearCell
  <2> DEFINE cell == [value |-> 0, notes |-> {}]
  <2>1. Killer!Editable
    BY <1>9 DEF Killer!ClearCell
  <2>2. state' = [state EXCEPT !.cells = [state.cells EXCEPT ![here] = cell]] /\ ended' = ended /\ sent' = sent
    BY <1>9 DEF Killer!ClearCell, Killer!Plays
  <2>3. cell \in Pencilled /\ cell.value = 0
    BY DEF Pencilled
  <2> HIDE DEF cell
  <2> QED
    BY <1>7, <2>1, <2>2, <2>3
<1>10. CASE Killer!StartOver
  <2>1. state' = [Killer!CreateInitialState EXCEPT !.replay = ended] /\ ended' = ended /\ sent' = sent
    BY <1>10 DEF Killer!StartOver, Killer!Replays, Killer!StartsOver, Killer!Plays
  <2>2. /\ state' \in CagedState /\ KeepsCaged(state'.cells) /\ state'.gameStatus = "playing"
        /\ state'.replay = ended /\ ~Killer!IsSolved(state'.cells)
    BY <1>1, <2>1, CagedStart
  <2>3. GivenOnce(FALSE, ended, Killer!Finish(state'), ended', sent')
    BY <1>1, <2>1 DEF GivenOnce
  <2> QED
    BY <1>1, <2>1, <2>2, <2>3 DEF CagedInv, CagedBoard
<1>11. CASE UNCHANGED boardVars
  <2>1. state' = state /\ ended' = ended /\ sent' = sent
    BY <1>11 DEF boardVars
  <2> QED
    BY <2>1 DEF CagedInv
<1> QED
  BY <1>4, <1>5, <1>6, <1>8, <1>9, <1>10, <1>11 DEF Killer!Next

(* Killer Sudoku: the clues stand, a cell with a value has no notes, a     *)
(* board is won exactly when every line and box is free of clashes and the *)
(* cages add up, what is marked red on a won board clashes in a cage only, *)
(* the first won board since the page was opened, and no other, is handed  *)
(* over as it is on show, and what is handed over has every digit in every *)
(* row, column and box, keeps the clues and adds up in every cage.         *)
THEOREM KillerSudokuCorrect ==
    ASSUME CagedPuzzle
    PROVE  Killer!Init /\ [][Killer!Next]_boardVars =>
               [](/\ Killer!Legal /\ Killer!Explained /\ Killer!Finished
                  /\ \A i \in DOMAIN sent : Killer!Right(sent[i]))
<1>1. Killer!Init => CagedInv
  <2> SUFFICES ASSUME Killer!Init PROVE CagedInv
    OBVIOUS
  <2>1. state = Killer!CreateInitialState /\ ended = FALSE /\ sent = <<>>
    BY DEF Killer!Init, Killer!Starts
  <2>2. /\ state \in CagedState /\ KeepsCaged(state.cells) /\ state.gameStatus = "playing"
        /\ state.replay = FALSE /\ ~Killer!IsSolved(state.cells)
    BY <2>1, CagedStart
  <2>3. sent \in Seq(CagedFinishes) /\ GivenOnce(FALSE, FALSE, Killer!Finish(state), ended, sent)
    BY <2>1 DEF GivenOnce
  <2> QED
    BY <2>1, <2>2, <2>3 DEF CagedInv, CagedBoard
<1>2. CagedInv /\ [Killer!Next]_boardVars => CagedInv'
  BY CagedStep
<1>3. CagedInv => /\ Killer!Legal /\ Killer!Explained /\ Killer!Finished
                  /\ \A i \in DOMAIN sent : Killer!Right(sent[i])
  <2> SUFFICES ASSUME CagedInv
               PROVE  /\ Killer!Legal /\ Killer!Explained /\ Killer!Finished
                      /\ \A i \in DOMAIN sent : Killer!Right(sent[i])
    OBVIOUS
  <2>1. /\ state \in CagedState /\ KeepsCaged(state.cells)
        /\ state.gameStatus = "won" <=> Killer!IsSolved(state.cells)
        /\ sent \in Seq(CagedFinishes)
        /\ GivenOnce(state.gameStatus = "won", state.replay, Killer!Finish(state), ended, sent)
    BY DEF CagedInv, CagedBoard
  <2>2. Killer!Legal
    BY <2>1, SquaresAreCaged DEF Killer!Legal, KeepsCaged, CagedClues
  <2>3. Killer!Explained
    BY <2>1 DEF Killer!Explained, Killer!IsSolved, Killer!HasConflict
  <2>4. Killer!Finished
    BY <2>1 DEF Killer!Finished, Killer!HandsOverTheFirst, GivenOnce
  <2>5. \A i \in DOMAIN sent : Killer!Right(sent[i])
    <3>1. \A i \in DOMAIN sent : sent[i] \in CagedFinishes
      BY <2>1
    <3> QED
      BY <3>1, RightCages DEF CagedFinishes
  <2> QED
    BY <2>2, <2>3, <2>4, <2>5
<1> QED
  BY <1>1, <1>2, <1>3, PTL

------------------------------------------------------------------------------
(* Word Ladder.                                                            *)
CONSTANTS WordList, StartWord, EndWord
Ladder == INSTANCE WordLadder

LadderPuzzle == StartWord # EndWord

Typed == WordList \cup {StartWord, <<>>, <<"?">>}

Ladders == {f \in [path : Seq(Typed)] : Ladder!Right(f)}

(* Words of the dictionary after the first, one letter apart, none twice.  *)
Rungs(path) ==
    /\ path \in Seq(Typed) /\ path # <<>> /\ path[1] = StartWord
    /\ \A i \in 2..Len(path) : path[i] \in WordList /\ Ladder!IsOneLetterChange(path[i - 1], path[i])
    /\ IsInjective(path)

Reached(path) == \E i \in DOMAIN path : path[i] = EndWord

(* What SubmitWord says of a word, once the rungs are these.               *)
RefusalAfter(path, word) ==
    CASE word \notin WordList                               -> "notInList"
      [] Len(word) # Len(StartWord)                         -> "wrongLength"
      [] ~Ladder!IsOneLetterChange(path[Len(path)], word)   -> "notOneChange"
      [] Ladder!Contains(path, word)                        -> "alreadyUsed"
      [] OTHER                                              -> "none"

LadderBoard(s, over, finishes) ==
    /\ s = [path |-> s.path, currentWord |-> s.currentWord, isComplete |-> over, error |-> s.error]
    /\ Rungs(s.path) /\ s.currentWord \in Typed
    /\ s.error # "none" => s.currentWord # <<>> /\ s.error = RefusalAfter(s.path, s.currentWord)
    /\ over \in BOOLEAN /\ (over <=> Reached(s.path))
    /\ finishes \in Seq(Ladders)
    /\ over => finishes # <<>> /\ Last(finishes) = [path |-> s.path]

LadderInv == LadderBoard(state, ended, sent)

LEMMA RungsFurther ==
    ASSUME NEW p, Rungs(p), NEW w \in WordList, Ladder!IsOneLetterChange(p[Len(p)], w), ~Ladder!Contains(p, w)
    PROVE  /\ Rungs(Append(p, w))
           /\ w = EndWord => [path |-> Append(p, w)] \in Ladders
           /\ Reached(Append(p, w)) <=> Reached(p) \/ w = EndWord
<1> DEFINE q == Append(p, w)
<1>1. p \in Seq(Typed) /\ Len(p) \in Nat \ {0} /\ w \in Typed
  BY DEF Rungs, Typed
<1>2. q \in Seq(Typed) /\ DOMAIN q = 1..(Len(p) + 1) /\ Len(q) = Len(p) + 1 /\ q[Len(p) + 1] = w
      /\ \A i \in 1..Len(p) : q[i] = p[i] /\ p[i] # w
  BY <1>1 DEF Ladder!Contains
<1>3. DOMAIN p = 1..Len(p)
  BY <1>1
<1> HIDE DEF q
<1>4. IsInjective(q)
  BY <1>1, <1>2, <1>3 DEF Rungs, IsInjective
<1>5. ASSUME NEW i \in 2..Len(q) PROVE q[i] \in WordList /\ Ladder!IsOneLetterChange(q[i - 1], q[i])
  <2>1. CASE i = Len(p) + 1
    BY <1>1, <1>2, <2>1
  <2>2. CASE i \in 2..Len(p)
    BY <1>2, <2>2 DEF Rungs
  <2> QED
    BY <1>1, <1>2, <2>1, <2>2
<1>6. q # <<>> /\ q[1] = StartWord
  BY <1>1, <1>2 DEF Rungs
<1>7. Rungs(q)
  BY <1>2, <1>4, <1>5, <1>6 DEF Rungs
<1>8. w = EndWord => [path |-> q] \in Ladders
  BY <1>1, <1>2, <1>5, <1>6 DEF Ladders, Ladder!Right, Ladder!IsLadder, Ladder!Last
<1>9. Reached(q) <=> Reached(p) \/ w = EndWord
  BY <1>1, <1>2, <1>3 DEF Reached
<1> QED
  BY <1>7, <1>8, <1>9 DEF q

LEMMA RungsBack ==
    ASSUME NEW p, Rungs(p), Len(p) > 1
    PROVE  LET q == SubSeq(p, 1, Len(p) - 1) IN Rungs(q) /\ (Reached(q) => Reached(p))
<1> DEFINE q == SubSeq(p, 1, Len(p) - 1)
<1>1. p \in Seq(Typed) /\ Len(p) \in Nat /\ DOMAIN p = 1..Len(p)
  BY DEF Rungs
<1>2. q \in Seq(Typed) /\ Len(q) = Len(p) - 1 /\ DOMAIN q = 1..(Len(p) - 1) /\ \A i \in 1..(Len(p) - 1) : q[i] = p[i]
  BY <1>1
<1> HIDE DEF q
<1>3. IsInjective(q)
  BY <1>1, <1>2, SMTT(30) DEF Rungs, IsInjective
<1>4. q # <<>> /\ q[1] = StartWord
  BY <1>1, <1>2 DEF Rungs
<1>5. \A i \in 2..Len(q) : q[i] \in WordList /\ Ladder!IsOneLetterChange(q[i - 1], q[i])
  BY <1>1, <1>2 DEF Rungs
<1>6. Reached(q) => Reached(p)
  BY <1>1, <1>2 DEF Reached
<1>7. Rungs(q)
  BY <1>2, <1>3, <1>4, <1>5 DEF Rungs
<1> QED
  BY <1>6, <1>7 DEF q

(* What the reducer's cases make of a board of the page.                   *)
LEMMA LadderFields ==
    ASSUME NEW p, NEW w, NEW over, NEW e, NEW s,
           s = [path |-> p, currentWord |-> w, isComplete |-> over, error |-> e], NEW q, NEW v, NEW f
    PROVE  /\ [s EXCEPT !.currentWord = v, !.error = f]
                  = [path |-> p, currentWord |-> v, isComplete |-> over, error |-> f]
           /\ [s EXCEPT !.path = q, !.error = f]
                  = [path |-> q, currentWord |-> w, isComplete |-> over, error |-> f]
           /\ [s EXCEPT !.error = f] = [path |-> p, currentWord |-> w, isComplete |-> over, error |-> f]
<1>1. [s EXCEPT !.error = f] = [path |-> p, currentWord |-> w, isComplete |-> over, error |-> f]
  OBVIOUS
<1>2. PICK t : t = [s EXCEPT !.currentWord = v]
  OBVIOUS
<1>3. t = [path |-> p, currentWord |-> v, isComplete |-> over, error |-> e]
  BY <1>2
<1>4. [t EXCEPT !.error = f] = [path |-> p, currentWord |-> v, isComplete |-> over, error |-> f]
  BY <1>3
<1>5. PICK u : u = [s EXCEPT !.path = q]
  OBVIOUS
<1>6. u = [path |-> q, currentWord |-> w, isComplete |-> over, error |-> e]
  BY <1>5
<1>7. [u EXCEPT !.error = f] = [path |-> q, currentWord |-> w, isComplete |-> over, error |-> f]
  BY <1>6
<1> QED
  BY <1>1, <1>2, <1>4, <1>5, <1>7, Zenon

LEMMA LadderStep == LadderInv /\ [Ladder!Next]_boardVars => LadderInv'
<1> SUFFICES ASSUME LadderInv, [Ladder!Next]_boardVars PROVE LadderBoard(state', ended', sent')
  BY DEF LadderInv
<1>f. PICK p, word, told : /\ state = [path |-> p, currentWord |-> word, isComplete |-> ended, error |-> told]
                           /\ p = state.path /\ word = state.currentWord /\ told = state.error
  BY DEF LadderInv, LadderBoard
<1>0. /\ Rungs(p) /\ p \in Seq(Typed) /\ Len(p) \in Nat \ {0} /\ word \in Typed
      /\ ended \in BOOLEAN /\ (ended <=> Reached(p)) /\ sent \in Seq(Ladders)
      /\ ended => sent # <<>> /\ Last(sent) = [path |-> p]
  BY <1>f DEF LadderInv, LadderBoard, Rungs
<1>r. Ladder!Refusal(word) = RefusalAfter(p, word)
  BY <1>f DEF Ladder!Refusal, RefusalAfter, Ladder!Last
<1>1. CASE Ladder!SetInput
  <2>1. PICK w \in WordList \cup {<<>>, <<"?">>} : state' = [state EXCEPT !.currentWord = w, !.error = "none"]
    BY <1>1 DEF Ladder!SetInput, Ladder!Plays
  <2>2. UNCHANGED <<ended, sent>> /\ w \in Typed
    BY <1>1 DEF Ladder!SetInput, Ladder!Plays, Typed
  <2> DEFINE next == [path |-> p, currentWord |-> w, isComplete |-> ended, error |-> "none"]
  <2>4. state' = next
    BY <1>f, <2>1, LadderFields
  <2>5. next.path = p /\ next.currentWord = w /\ next.error = "none"
    OBVIOUS
  <2>6. LadderBoard(next, ended, sent)
    BY <1>0, <2>2, <2>5 DEF LadderBoard
  <2> QED
    BY <2>2, <2>4, <2>6
<1>2. CASE Ladder!SubmitWord
  <2> DEFINE accepted == [path |-> Append(p, word), currentWord |-> <<>>,
                         isComplete |-> word = EndWord, error |-> "none"]
  <2>1. ended = FALSE /\ word # <<>> /\ word \in Typed /\ sent \in Seq(Ladders) /\ ~Reached(p)
    BY <1>0, <1>2, <1>f DEF Ladder!SubmitWord, Ladder!Playing
  <2>2. CASE Ladder!Refusal(word) # "none"
    <3> DEFINE next == [path |-> p, currentWord |-> word, isComplete |-> ended, error |-> RefusalAfter(p, word)]
    <3>1. ASSUME NEW refusal
          PROVE  [state EXCEPT !.error = refusal]
                    = [path |-> p, currentWord |-> word, isComplete |-> ended, error |-> refusal]
      BY <1>f
    <3>2. next = [state EXCEPT !.error = Ladder!Refusal(word)]
      BY <1>r, <3>1
    <3>3. Shows(next, ended, Ladder!Finish(next))
      BY <1>2, <1>f, <2>2, <3>2 DEF Ladder!SubmitWord, Ladder!Shows, Shows
    <3>4. state' = next /\ UNCHANGED <<ended, sent>>
      BY <2>1, <3>3 DEF Shows
    <3>5. LadderBoard(next, FALSE, sent)
      BY <1>0, <2>1 DEF LadderBoard
    <3> QED
      BY <2>1, <3>4, <3>5
  <2>3. CASE Ladder!Refusal(word) = "none"
    <3>1. Shows(accepted, accepted.isComplete, Ladder!Finish(accepted))
      BY <1>2, <1>f, <2>3 DEF Ladder!SubmitWord, Ladder!Shows, Shows
    <3>2. word \in WordList /\ Ladder!IsOneLetterChange(p[Len(p)], word) /\ ~Ladder!Contains(p, word)
      BY <1>r, <2>3 DEF RefusalAfter
    <3>3. /\ Rungs(accepted.path)
          /\ word = EndWord => [path |-> accepted.path] \in Ladders
          /\ Reached(accepted.path) <=> word = EndWord
      BY <1>0, <2>1, <3>2, RungsFurther
    <3>4. /\ accepted.isComplete = (word = EndWord) /\ (word = EndWord) \in BOOLEAN
          /\ Ladder!Finish(accepted) = [path |-> accepted.path]
          /\ accepted.currentWord = <<>> /\ accepted.error = "none"
      BY DEF Ladder!Finish
    <3>5. accepted = [path |-> accepted.path, currentWord |-> <<>>, isComplete |-> word = EndWord, error |-> "none"]
      OBVIOUS
    <3> HIDE DEF accepted
    <3>6. Shows(accepted, word = EndWord, [path |-> accepted.path])
      BY <3>1, <3>4
    <3>7. /\ state' = accepted /\ ended' = (word = EndWord) /\ sent' \in Seq(Ladders)
          /\ word = EndWord => sent' # <<>> /\ Last(sent') = [path |-> accepted.path]
      <4> DEFINE data == [path |-> accepted.path]
      <4>1. (word = EndWord) => data \in Ladders
        BY <3>3
      <4>2. Shows(accepted, word = EndWord, data)
        BY <3>6
      <4> HIDE DEF data
      <4>3. /\ state' = accepted /\ ended' = (word = EndWord) /\ sent' \in Seq(Ladders)
            /\ word = EndWord => sent' # <<>> /\ Last(sent') = data
        BY <2>1, <3>4, <4>1, <4>2, Render
      <4> QED
        BY <4>3 DEF data
    <3>8. LadderBoard(accepted, word = EndWord, sent')
      BY <3>3, <3>4, <3>5, <3>7 DEF LadderBoard, Typed
    <3> QED
      BY <3>7, <3>8
  <2> QED
    BY <2>2, <2>3
<1>3. CASE Ladder!Undo
  <2> DEFINE q == SubSeq(p, 1, Len(p) - 1)
  <2>1. ended = FALSE /\ ~Reached(p) /\ Len(p) > 1 /\ UNCHANGED <<ended, sent>>
        /\ state' = [state EXCEPT !.path = q, !.error = "none"]
    BY <1>0, <1>3, <1>f DEF Ladder!Undo, Ladder!Plays, Ladder!Front, Ladder!Playing
  <2>2. Rungs(q) /\ ~Reached(q)
    BY <1>0, <2>1, RungsBack
  <2> HIDE DEF q
  <2> DEFINE next == [path |-> q, currentWord |-> word, isComplete |-> FALSE, error |-> "none"]
  <2>4. state' = next
    BY <1>f, <2>1, LadderFields
  <2>5. LadderBoard(next, FALSE, sent)
    BY <1>0, <2>1, <2>2 DEF LadderBoard
  <2> QED
    BY <2>1, <2>4, <2>5
<1>4. CASE UNCHANGED boardVars
  BY <1>4 DEF boardVars, LadderInv
<1> QED
  BY <1>1, <1>2, <1>3, <1>4 DEF Ladder!Next

(* use-word-ladder.ts: with any dictionary, the rungs are words one letter *)
(* apart and none twice; a refusal on show is about the word on show; the  *)
(* ladder is handed over when, and only when, it reaches its end.          *)
THEOREM WordLadderCorrect ==
    ASSUME LadderPuzzle
    PROVE  Ladder!Init /\ [][Ladder!Next]_boardVars =>
               [](/\ Ladder!Legal /\ Ladder!Explained /\ Ladder!Finished
                  /\ \A i \in DOMAIN sent : Ladder!Right(sent[i]))
<1>1. Ladder!Init => LadderInv
  <2> SUFFICES ASSUME Ladder!Init PROVE LadderInv
    OBVIOUS
  <2>1. /\ state = [path |-> <<StartWord>>, currentWord |-> <<>>, isComplete |-> FALSE, error |-> "none"]
        /\ ended = FALSE /\ sent = <<>>
    BY DEF Ladder!Init, Ladder!Starts, Ladder!InitialState
  <2>2. Rungs(<<StartWord>>) /\ ~Reached(<<StartWord>>)
    BY DEF Rungs, Typed, IsInjective, Reached, LadderPuzzle
  <2>3. sent \in Seq(Ladders) /\ <<>> \in Typed
    BY <2>1 DEF Typed
  <2> QED
    BY <2>1, <2>2, <2>3 DEF LadderInv, LadderBoard
<1>2. LadderInv /\ [Ladder!Next]_boardVars => LadderInv'
  BY LadderStep
<1>3. LadderInv => /\ Ladder!Legal /\ Ladder!Explained /\ Ladder!Finished
                   /\ \A i \in DOMAIN sent : Ladder!Right(sent[i])
  <2> SUFFICES ASSUME LadderInv PROVE /\ Ladder!Legal /\ Ladder!Explained /\ Ladder!Finished
                                      /\ \A i \in DOMAIN sent : Ladder!Right(sent[i])
    OBVIOUS
  <2>1. Ladder!Legal
    BY DEF LadderInv, LadderBoard, Rungs, Ladder!Legal, Ladder!IsLadder, IsInjective, Ladder!IsInjective
  <2>2. Ladder!Explained
    BY DEF LadderInv, LadderBoard, Ladder!Explained, Ladder!Refusal, RefusalAfter, Ladder!Last
  <2>3. Ladder!Finished
    <3>1. state.isComplete = ended
      BY DEF LadderInv, LadderBoard
    <3>2. Ladder!Contains(state.path, EndWord) <=> Reached(state.path)
      BY SMTT(30) DEF LadderInv, LadderBoard, Rungs, Ladder!Contains, Reached
    <3> QED
      BY <3>1, <3>2 DEF LadderInv, LadderBoard, Ladder!Finished, Ladder!Finish, Last, Ladder!Last
  <2>4. \A i \in DOMAIN sent : Ladder!Right(sent[i])
    BY DEF LadderInv, LadderBoard, Ladders
  <2> QED
    BY <2>1, <2>2, <2>3, <2>4
<1> QED
  BY <1>1, <1>2, <1>3, PTL

------------------------------------------------------------------------------
(* Number Path.                                                            *)
CONSTANTS GridSize, Clues
Tour == INSTANCE NumberPath WITH Size <- GridSize

TourPuzzle == GridSize \in Nat \ {0} /\ Clues \in [Tour!Cells -> Nat]

Tours == {f \in [path : Seq(Tour!Cells)] : Tour!Right(f)}

(* A path on the board: it stays on the grid, crosses nothing and meets     *)
(* each clue at its own step.                                               *)
Drawn(path) ==
    /\ path \in Seq(Tour!Cells)
    /\ IsInjective(path) /\ Tour!IsPath(path)
    /\ path # <<>> => Clues[path[1]] = 1
    /\ \A i \in DOMAIN path : Clues[path[i]] \in {0, i}

TourInv ==
    /\ state = [path |-> state.path, gameStatus |-> IF ended THEN "won" ELSE "playing"]
    /\ Drawn(state.path)
    /\ ended \in BOOLEAN /\ (ended <=> Tour!IsSolved(state.path))
    /\ sent \in Seq(Tours)
    /\ ended => sent # <<>> /\ Last(sent) = Tour!Finish(state)

LEMMA TourCounts == ASSUME NEW S PROVE Tour!Cardinality(S) = Cardinality(S)
  BY DEF Tour!Cardinality, Cardinality

(* A solved path goes over every cell once: it does not cross itself.      *)
LEMMA SolvedIsTour ==
    ASSUME NEW p, Drawn(p), Tour!IsSolved(p) PROVE [path |-> p] \in Tours
<1>1. ASSUME NEW c \in Tour!Cells PROVE Cardinality({i \in DOMAIN p : p[i] = c}) = 1
  <2>1. PICK i \in DOMAIN p : p[i] = c
    BY DEF Tour!IsSolved, Tour!ToSet
  <2>2. {j \in DOMAIN p : p[j] = c} = {i}
    BY <2>1 DEF Drawn, IsInjective
  <2> QED
    BY <2>2, FS_Singleton
<1>2. ASSUME NEW i \in DOMAIN p, NEW c \in Tour!Cells, Clues[c] = i PROVE p[i] = c
  <2>1. Clues[c] # 0
    BY <1>2 DEF Drawn
  <2> QED
    BY <1>2, <2>1 DEF Tour!IsSolved
<1> QED
  BY <1>1, <1>2, TourCounts DEF Tours, Tour!Right, Drawn

LEMMA DrawnPrefix ==
    ASSUME NEW p, Drawn(p), NEW n \in 0..Len(p)
    PROVE  Drawn(SubSeq(p, 1, n)) /\ SubSeq(p, 1, n) = [i \in 1..n |-> p[i]]
<1> DEFINE q == SubSeq(p, 1, n)
<1>1. p \in Seq(Tour!Cells)
  BY DEF Drawn
<1>2. q \in Seq(Tour!Cells) /\ Len(q) = n /\ DOMAIN q = 1..n /\ \A i \in 1..n : q[i] = p[i] /\ i \in DOMAIN p
  BY <1>1
<1> HIDE DEF q
<1>3. IsInjective(q)
  BY <1>2 DEF Drawn, IsInjective
<1>4. Tour!IsPath(q)
  BY <1>1, <1>2 DEF Drawn, Tour!IsPath
<1>5. q # <<>> => Clues[q[1]] = 1
  BY <1>1, <1>2 DEF Drawn
<1>6. q = [i \in 1..n |-> p[i]]
  BY <1>2
<1>7. \A i \in DOMAIN q : Clues[q[i]] \in {0, i}
  BY <1>2 DEF Drawn
<1> QED
  BY <1>2, <1>3, <1>4, <1>5, <1>6, <1>7 DEF Drawn, q

LEMMA DrawnFurther ==
    ASSUME NEW p, Drawn(p), NEW c \in Tour!Cells, p # <<>>, c \notin ToSet(p),
           Tour!IsOrthogonalNeighbor(p[Len(p)], c), Clues[c] \in {0, Len(p) + 1}
    PROVE  Drawn(Append(p, c))
<1> DEFINE q == Append(p, c)
<1>1. p \in Seq(Tour!Cells) /\ Len(p) \in Nat \ {0}
  BY DEF Drawn
<1>2. q \in Seq(Tour!Cells) /\ DOMAIN q = 1..(Len(p) + 1) /\ Len(q) = Len(p) + 1 /\ q[Len(p) + 1] = c
      /\ \A i \in 1..Len(p) : q[i] = p[i] /\ i \in DOMAIN p /\ p[i] # c
  BY <1>1 DEF ToSet
<1> HIDE DEF q
<1>3. IsInjective(q)
  BY <1>1, <1>2 DEF Drawn, IsInjective
<1>4. Tour!IsPath(q)
  <2>1. ASSUME NEW i \in 2..Len(q) PROVE Tour!IsOrthogonalNeighbor(q[i - 1], q[i])
    BY <1>1, <1>2 DEF Drawn, Tour!IsPath
  <2> QED
    BY <2>1 DEF Tour!IsPath
<1>5. Clues[q[1]] = 1
  BY <1>1, <1>2 DEF Drawn
<1>6. \A i \in DOMAIN q : Clues[q[i]] \in {0, i}
  BY <1>1, <1>2 DEF Drawn
<1> QED
  BY <1>2, <1>3, <1>4, <1>5, <1>6 DEF Drawn, q

(* A path that is shorter than a path of the board, or empty, is no tour.   *)
LEMMA ShorterUnsolved ==
    ASSUME TourPuzzle
    PROVE  /\ ~Tour!IsSolved(<<>>)
           /\ \A p : Drawn(p) /\ p # <<>> => ~Tour!IsSolved(SubSeq(p, 1, Len(p) - 1))
<1>1. ~Tour!IsSolved(<<>>)
  <2>1. <<1, 1>> \in Tour!Cells
    BY DEF TourPuzzle, Tour!Cells
  <2>2. Tour!ToSet(<<>>) = {}
    BY DEF Tour!ToSet
  <2> QED
    BY <2>1, <2>2 DEF Tour!IsSolved
<1>2. ASSUME NEW p, Drawn(p), p # <<>> PROVE ~Tour!IsSolved(SubSeq(p, 1, Len(p) - 1))
  <2>1. p \in Seq(Tour!Cells) /\ Len(p) \in DOMAIN p /\ Len(p) - 1 \in 0..Len(p)
    BY <1>2 DEF Drawn
  <2>2. SubSeq(p, 1, Len(p) - 1) = [i \in 1..(Len(p) - 1) |-> p[i]]
    BY <1>2, <2>1, DrawnPrefix
  <2>3. p[Len(p)] \in Tour!Cells
    BY <2>1
  <2>4. p[Len(p)] \notin Tour!ToSet(SubSeq(p, 1, Len(p) - 1))
    BY <1>2, <2>1, <2>2 DEF Tour!ToSet, Drawn, IsInjective
  <2> QED
    BY <2>3, <2>4 DEF Tour!IsSolved
<1> QED
  BY <1>1, <1>2

LEMMA TourChecked ==
    ASSUME TourInv, Tour!Playing, NEW p, Drawn(p), Tour!WithWinCheck(p)
    PROVE  TourInv'
<1> DEFINE won  == Tour!IsSolved(p)
           next == [path |-> p, gameStatus |-> IF won THEN "won" ELSE "playing"]
<1>1. ended = FALSE /\ sent \in Seq(Tours)
  BY DEF TourInv, Tour!Playing
<1>2. Shows(next, won, Tour!Finish(next)) /\ won \in BOOLEAN
  BY DEF Tour!WithWinCheck, Tour!Shows, Shows, Tour!IsSolved
<1>3. Tour!Finish(next) = [path |-> p]
  BY DEF Tour!Finish
<1>4. won => Tour!Finish(next) \in Tours
  BY <1>3, SolvedIsTour
<1> HIDE DEF won, next
<1>5. /\ state' = next /\ ended' = won /\ sent' \in Seq(Tours)
      /\ won => sent' # <<>> /\ Last(sent') = Tour!Finish(next)
  BY <1>1, <1>2, <1>4, Render
<1>6. state'.path = p
  BY <1>5 DEF next
<1>7. Drawn(state.path)' /\ (Tour!IsSolved(state.path))' = won /\ Tour!Finish(state)' = Tour!Finish(next)
  BY <1>3, <1>6 DEF Drawn, Tour!IsSolved, won, Tour!Finish
<1> QED
  BY <1>2, <1>5, <1>6, <1>7 DEF TourInv, next

(* A board not over is shown with another path.                            *)
LEMMA TourPlays ==
    ASSUME TourInv, Tour!Playing, NEW p, Drawn(p), ~Tour!IsSolved(p),
           state' = [path |-> p, gameStatus |-> "playing"], UNCHANGED <<ended, sent>>
    PROVE  TourInv'
<1>1. ended = FALSE
  BY DEF TourInv, Tour!Playing
<1> QED
  BY <1>1 DEF TourInv, Drawn, Tour!IsSolved, Tour!IsPath, Tour!ToSet

LEMMA EmptyDrawn == Drawn(<<>>)
  BY DEF Drawn, IsInjective, Tour!IsPath

LEMMA TourStep == TourPuzzle /\ TourInv /\ [Tour!Next]_boardVars => TourInv'
<1> SUFFICES ASSUME TourPuzzle, TourInv, [Tour!Next]_boardVars PROVE TourInv'
  OBVIOUS
<1> DEFINE p == state.path
<1>0. Drawn(p) /\ p \in Seq(Tour!Cells)
  BY DEF TourInv, Drawn
<1>1. CASE Tour!TouchStart
  <2>1. PICK c \in Tour!Cells : Clues[c] = 1 /\ Tour!WithWinCheck(<<c>>)
    BY <1>1 DEF Tour!TouchStart
  <2>2. Drawn(<<c>>)
    BY <2>1 DEF Drawn, IsInjective, Tour!IsPath
  <2> QED
    BY <1>1, <2>1, <2>2, TourChecked DEF Tour!TouchStart
<1>2. CASE Tour!TouchBack
  <2>1. PICK i \in DOMAIN p : Tour!WithWinCheck(SubSeq(p, 1, i))
    BY <1>2 DEF Tour!TouchBack
  <2>2. Drawn(SubSeq(p, 1, i))
    BY <1>0, DrawnPrefix
  <2> QED
    BY <1>2, <2>1, <2>2, TourChecked DEF Tour!TouchBack
<1>3. CASE Tour!TouchNext
  <2>1. PICK c \in Tour!Cells \ Tour!ToSet(p) :
          /\ Tour!IsOrthogonalNeighbor(Tour!Last(p), c)
          /\ Clues[c] \in {0, Len(p) + 1}
          /\ Tour!WithWinCheck(Append(p, c))
    BY <1>3 DEF Tour!TouchNext
  <2>2. p # <<>> /\ c \notin ToSet(p) /\ Tour!IsOrthogonalNeighbor(p[Len(p)], c)
    BY <1>3, <2>1 DEF Tour!TouchNext, Tour!ToSet, ToSet, Tour!Last
  <2>3. Drawn(Append(p, c))
    BY <1>0, <2>1, <2>2, DrawnFurther
  <2> QED
    BY <1>3, <2>1, <2>3, TourChecked DEF Tour!TouchNext
<1>4. CASE Tour!Undo
  <2>1. p # <<>> /\ Tour!Playing /\ state' = [state EXCEPT !.path = SubSeq(p, 1, Len(p) - 1)] /\ UNCHANGED <<ended, sent>>
    BY <1>4 DEF Tour!Undo, Tour!Plays, Tour!Front
  <2>2. state' = [path |-> SubSeq(p, 1, Len(p) - 1), gameStatus |-> "playing"]
    BY <2>1 DEF TourInv, Tour!Playing
  <2>3. Drawn(SubSeq(p, 1, Len(p) - 1)) /\ ~Tour!IsSolved(SubSeq(p, 1, Len(p) - 1))
    BY <1>0, <2>1, DrawnPrefix, ShorterUnsolved
  <2> QED
    BY <2>1, <2>2, <2>3, TourPlays
<1>5. CASE Tour!HandleReset
  <2>1. Tour!Playing /\ state' = [path |-> <<>>, gameStatus |-> "playing"] /\ UNCHANGED <<ended, sent>>
    BY <1>5 DEF Tour!HandleReset, Tour!StartsOver, Tour!Plays, Tour!CreateInitialState
  <2> QED
    BY <2>1, EmptyDrawn, ShorterUnsolved, TourPlays
<1>6. CASE UNCHANGED boardVars
  BY <1>6 DEF boardVars, TourInv, Drawn, Tour!IsSolved, Tour!IsPath, Tour!ToSet, Tour!Finish
<1> QED
  BY <1>1, <1>2, <1>3, <1>4, <1>5, <1>6 DEF Tour!Next

LEMMA TourStart == TourPuzzle /\ Tour!Init => TourInv
<1> SUFFICES ASSUME TourPuzzle, Tour!Init PROVE TourInv
  OBVIOUS
<1>1. state = [path |-> <<>>, gameStatus |-> "playing"] /\ ended = FALSE /\ sent = <<>>
  BY DEF Tour!Init, Tour!Starts, Tour!CreateInitialState
<1>2. state.path = <<>> /\ sent \in Seq(Tours)
  BY <1>1
<1> QED
  BY <1>1, <1>2, EmptyDrawn, ShorterUnsolved DEF TourInv

(* use-number-path.ts: on a grid of any size, with any clues, the path     *)
(* stays a path that meets its clues; what is handed over is a tour of the *)
(* grid, with the clue of each step on its cell, and a tour is handed over *)
(* as soon as it is drawn.                                                 *)
THEOREM NumberPathCorrect ==
    ASSUME TourPuzzle
    PROVE  Tour!Init /\ [][Tour!Next]_boardVars =>
               [](/\ Tour!Legal /\ Tour!Explained /\ Tour!Finished
                  /\ \A i \in DOMAIN sent : Tour!Right(sent[i]))
<1>1. Tour!Init => TourInv
  BY TourStart
<1>2. TourInv /\ [Tour!Next]_boardVars => TourInv'
  BY TourStep
<1>3. TourInv => /\ Tour!Legal /\ Tour!Explained /\ Tour!Finished
                 /\ \A i \in DOMAIN sent : Tour!Right(sent[i])
  <2> SUFFICES ASSUME TourInv PROVE /\ Tour!Legal /\ Tour!Explained /\ Tour!Finished
                                    /\ \A i \in DOMAIN sent : Tour!Right(sent[i])
    OBVIOUS
  <2>1. Tour!Legal
    BY DEF TourInv, Drawn, Tour!Legal, IsInjective, Tour!IsInjective
  <2>2. Tour!Explained
    BY DEF TourInv, Drawn, Tour!Explained
  <2>3. Tour!Finished
    <3>1. state.gameStatus = IF ended THEN "won" ELSE "playing"
      BY DEF TourInv
    <3> QED
      BY <3>1 DEF TourInv, Tour!Finished, Last, Tour!Last
  <2>4. \A i \in DOMAIN sent : Tour!Right(sent[i])
    BY DEF TourInv, Tours
  <2> QED
    BY <2>1, <2>2, <2>3, <2>4
<1> QED
  BY <1>1, <1>2, <1>3, PTL

------------------------------------------------------------------------------
(* Block Slide.                                                            *)
CONSTANTS Blocks, Target, Width, Height, Start, GridWidth, GridHeight, ExitX, ExitY, MaxMoves
Slide == INSTANCE BlockSlide

Positions == Int \X Int

(* What the page is given: a legal board that is not won.                  *)
ServedBoard ==
    /\ IsFiniteSet(Blocks)
    /\ GridWidth \in Int /\ GridHeight \in Int
    /\ Width \in [Blocks -> Int] /\ Height \in [Blocks -> Int]
    /\ Start \in [Blocks -> Positions]
    /\ \A b \in Blocks : Slide!InGrid(b, Start[b])
    /\ \A a, b \in Blocks : a # b => ~Slide!BlocksOverlap(a, Start[a], b, Start[b])
    /\ ~Slide!IsWin(Start)

BoardType == state \in [blocks : [Blocks -> Positions], moveCount : Int,
                        status : {"playing", "won", "gave_up"}, selectedBlockId : Blocks \cup {Slide!NoBlock}]

LEMMA OverlapIsMutual ==
    ASSUME ServedBoard, NEW a \in Blocks, NEW b \in Blocks, NEW p \in Positions, NEW q \in Positions
    PROVE  Slide!BlocksOverlap(a, p, b, q) <=> Slide!BlocksOverlap(b, q, a, p)
  BY DEF Slide!BlocksOverlap

LEMMA NextPosition == ASSUME NEW p \in Positions, NEW d \in Slide!Directions PROVE Slide!Towards(p, d) \in Positions
  BY DEF Positions, Slide!Directions, Slide!Towards

LEMMA ShownState == ASSUME NEW s, NEW over, NEW data, Slide!Shows(s, over, data) PROVE state' = s
  BY DEF Slide!Shows

(* One block moves; CanMove looked at the border and at every other block. *)
LEMMA SlideKeepsLegal ==
    ASSUME ServedBoard, BoardType, Slide!Legal, NEW b \in Blocks, NEW d \in Slide!Directions, NEW selected \in Blocks \cup {Slide!NoBlock},
           Slide!Slides(b, d, selected)
    PROVE  BoardType' /\ Slide!Legal'
<1> DEFINE to == Slide!Towards(state.blocks[b], d)
           blocks == [state.blocks EXCEPT ![b] = Slide!Towards(@, d)]
<1>1. state.blocks \in [Blocks -> Positions] /\ state.moveCount \in Int
  BY DEF BoardType
<1>2. to \in Positions
  BY <1>1, NextPosition
<1>3. blocks \in [Blocks -> Positions] /\ blocks[b] = to /\ \A c \in Blocks \ {b} : blocks[c] = state.blocks[c]
  BY <1>1, <1>2
<1>4. Slide!CanMove(state.blocks, b, d)
  BY DEF Slide!Slides
<1>5. Slide!InGrid(b, to) /\ \A c \in Blocks \ {b} : ~Slide!BlocksOverlap(b, to, c, state.blocks[c])
  BY <1>4 DEF Slide!CanMove
<1>6. state' = [blocks |-> blocks, moveCount |-> state.moveCount + 1, selectedBlockId |-> selected,
                status |-> IF Slide!IsWin(blocks) THEN "won" ELSE "playing"]
  BY ShownState DEF Slide!Slides
<1> HIDE DEF blocks, to
<1>7. state'.blocks = blocks
  BY <1>6
<1>8. BoardType'
  BY <1>1, <1>3, <1>6 DEF BoardType
<1>9. Slide!InBounds'
  BY <1>3, <1>5, <1>7 DEF Slide!InBounds, Slide!Legal
<1>10. ASSUME NEW c \in Blocks \ {b} PROVE ~Slide!BlocksOverlap(b, blocks[b], c, blocks[c]) /\ ~Slide!BlocksOverlap(c, blocks[c], b, blocks[b])
  <2>1. ~Slide!BlocksOverlap(b, blocks[b], c, blocks[c])
    BY <1>3, <1>5
  <2>2. blocks[b] \in Positions /\ blocks[c] \in Positions
    BY <1>3
  <2> QED
    BY <2>1, <2>2, OverlapIsMutual
<1>11. Slide!NoOverlap'
  BY <1>3, <1>7, <1>10 DEF Slide!NoOverlap, Slide!Legal
<1> QED
  BY <1>8, <1>9, <1>11 DEF Slide!Legal

LEMMA SameBlocks ==
    ASSUME BoardType, Slide!Legal, state'.blocks = state.blocks PROVE Slide!Legal'
  BY DEF Slide!Legal, Slide!InBounds, Slide!NoOverlap, BoardType

LEMMA LegalInit == ServedBoard /\ Slide!Init => BoardType /\ Slide!Legal
<1> SUFFICES ASSUME ServedBoard, Slide!Init PROVE BoardType /\ Slide!Legal
  OBVIOUS
<1>1. state = [blocks |-> Start, moveCount |-> 0, status |-> "playing", selectedBlockId |-> Slide!NoBlock]
  BY DEF Slide!Init, Slide!Starts, Slide!CreateInitialState
<1> QED
  BY <1>1 DEF BoardType, Slide!Legal, Slide!InBounds, Slide!NoOverlap, ServedBoard

LEMMA LegalStep == ServedBoard /\ BoardType /\ Slide!Legal /\ [Slide!Next]_boardVars => (BoardType /\ Slide!Legal)'
<1> SUFFICES ASSUME ServedBoard, BoardType, Slide!Legal, [Slide!Next]_boardVars PROVE (BoardType /\ Slide!Legal)'
  OBVIOUS
<1>1. CASE Slide!SelectBlock
  <2>1. PICK b \in Blocks : state' = [state EXCEPT !.selectedBlockId = IF @ = b THEN Slide!NoBlock ELSE b]
    BY <1>1 DEF Slide!SelectBlock, Slide!Plays
  <2>2. BoardType' /\ state'.blocks = state.blocks
    BY <2>1 DEF BoardType
  <2> QED
    BY <2>2, SameBlocks
<1>2. CASE Slide!Move
  <2>1. PICK d \in Slide!Directions : Slide!Slides(state.selectedBlockId, d, state.selectedBlockId)
    BY <1>2 DEF Slide!Move
  <2>2. state.selectedBlockId \in Blocks
    BY <1>2 DEF Slide!Move, BoardType
  <2> QED
    BY <2>1, <2>2, SlideKeepsLegal
<1>3. CASE Slide!DragMove
  <2>1. PICK b \in Blocks, d \in Slide!Directions :
            Slide!Slides(b, d, IF Slide!IsWin([state.blocks EXCEPT ![b] = Slide!Towards(@, d)]) THEN Slide!NoBlock ELSE b)
    BY <1>3 DEF Slide!DragMove
  <2> QED
    BY <2>1, SlideKeepsLegal
<1>4. CASE Slide!GiveUp
  <2>1. state' = [state EXCEPT !.status = "gave_up"]
    BY <1>4, ShownState DEF Slide!GiveUp
  <2>2. BoardType' /\ state'.blocks = state.blocks
    BY <2>1 DEF BoardType
  <2> QED
    BY <2>2, SameBlocks
<1>5. CASE Slide!HandleReset
  <2>1. state' = [blocks |-> Start, moveCount |-> 0, status |-> "playing", selectedBlockId |-> Slide!NoBlock]
    BY <1>5 DEF Slide!HandleReset, Slide!StartsOver, Slide!Plays, Slide!CreateInitialState
  <2> QED
    BY <2>1 DEF BoardType, Slide!Legal, Slide!InBounds, Slide!NoOverlap, ServedBoard
<1>6. CASE UNCHANGED boardVars
  <2>1. state' = state
    BY <1>6 DEF boardVars
  <2> QED
    BY <2>1, SameBlocks DEF BoardType
<1> QED
  BY <1>1, <1>2, <1>3, <1>4, <1>5, <1>6 DEF Slide!Next

(* How far the blocks are from where they were served.                     *)
Gone(blocks, b) ==
    LET Abs(n) == Slide!Max({n, -n})
    IN Abs(blocks[b][1] - Start[b][1]) + Abs(blocks[b][2] - Start[b][2])

Way(blocks) == Slide!MapThenSumSet(LAMBDA b : Gone(blocks, b), Blocks)

Walked(blocks, n) == n >= Way(blocks) /\ (n - Way(blocks)) % 2 = 0

LEMMA ExplainedByWay ==
    (Slide!Explained <=> Walked(state.blocks, state.moveCount)) /\ (Slide!Explained' <=> Walked(state.blocks, state.moveCount)')
  BY DEF Slide!Explained, Slide!Distance, Walked, Way, Gone, Slide!MapThenSumSet

LEMMA Absolute ==
    ASSUME NEW n \in Int
    PROVE  Slide!Max({n, -n}) = IF n >= 0 THEN n ELSE -n
  BY DEF Slide!Max

LEMMA GoneIs ==
    ASSUME ServedBoard, NEW blocks \in [Blocks -> Positions], NEW b \in Blocks
    PROVE  LET dx == blocks[b][1] - Start[b][1]
               dy == blocks[b][2] - Start[b][2]
           IN /\ dx \in Int /\ dy \in Int
              /\ Gone(blocks, b) = (IF dx >= 0 THEN dx ELSE -dx) + (IF dy >= 0 THEN dy ELSE -dy)
<1> DEFINE dx == blocks[b][1] - Start[b][1]
           dy == blocks[b][2] - Start[b][2]
<1>1. dx \in Int /\ dy \in Int
  BY DEF ServedBoard, Positions
<1>2. Gone(blocks, b) = Slide!Max({dx, -dx}) + Slide!Max({dy, -dy})
  BY DEF Gone
<1> HIDE DEF dx, dy
<1>3. Gone(blocks, b) = (IF dx >= 0 THEN dx ELSE -dx) + (IF dy >= 0 THEN dy ELSE -dy)
  BY <1>1, <1>2, Absolute
<1> QED
  BY <1>1, <1>3 DEF dx, dy

LEMMA WaySum ==
    ASSUME IsFiniteSet(Blocks), NEW blocks, NEW d \in [Blocks -> Int], \A b \in Blocks : d[b] = Gone(blocks, b)
    PROVE  \E F : Adds(F, Blocks, d) /\ Way(blocks) = F[Blocks]
<1> DEFINE Is(g) == g = [s \in SUBSET Blocks |-> IF s = {} THEN 0 ELSE Gone(blocks, Chosen(s)) + g[s \ {Chosen(s)}]]
           F == CHOOSE g : Is(g)
<1>1. Way(blocks) = F[Blocks]
  BY DEF Way, Slide!MapThenSumSet, Slide!MapThenFoldSet, Chosen
<1>2. \A s \in SUBSET Blocks : s # {} => d[Chosen(s)] = Gone(blocks, Chosen(s))
  BY DEF Chosen
<1>3. \E g : Is(g)
  <2>1. PICK g : IsSum(g, Blocks, d)
    BY SumExists
  <2>2. \A s \in SUBSET Blocks : g[s] = IF s = {} THEN 0 ELSE Gone(blocks, Chosen(s)) + g[s \ {Chosen(s)}]
    BY <1>2, <2>1 DEF IsSum
  <2>3. g \in [SUBSET Blocks -> Int]
    BY <2>1 DEF IsSum
  <2>4. Is(g)
    BY <2>2, <2>3
  <2> QED
    BY <2>4
<1>4. Is(F)
  BY <1>3
<1> HIDE DEF F
<1>5. F[{}] = 0 /\ \A s \in SUBSET Blocks : s # {} => F[s] = d[Chosen(s)] + F[s \ {Chosen(s)}]
  BY <1>2, <1>4
<1> HIDE DEF Is
<1>6. Adds(F, Blocks, d)
  BY <1>5, SumIs
<1> QED
  BY <1>1, <1>6

(* A block that moves one cell goes one cell further or comes one back.    *)
LEMMA OneCell ==
    ASSUME ServedBoard, NEW blocks \in [Blocks -> Positions], NEW b \in Blocks, NEW d \in Slide!Directions,
           NEW next, next = [blocks EXCEPT ![b] = Slide!Towards(@, d)],
           NEW n \in Int, Walked(blocks, n)
    PROVE  Walked(next, n + 1)
<1> DEFINE far == [c \in Blocks |-> Gone(blocks, c)]
           wide == [c \in Blocks |-> Gone(next, c)]
           x == blocks[b][1]  y == blocks[b][2]  ox == Start[b][1]  oy == Start[b][2]
<1>1. next \in [Blocks -> Positions] /\ next[b] = Slide!Towards(blocks[b], d) /\ \A c \in Blocks \ {b} : next[c] = blocks[c]
  BY NextPosition
<1>2. far \in [Blocks -> Int] /\ wide \in [Blocks -> Int]
  <2>1. \A c \in Blocks : Gone(blocks, c) \in Int /\ Gone(next, c) \in Int
    <3>1. ASSUME NEW at \in [Blocks -> Positions], NEW c \in Blocks PROVE Gone(at, c) \in Int
      BY GoneIs
    <3> QED
      BY <1>1, <3>1
  <2> QED
    BY <2>1
<1>3. \A c \in Blocks \ {b} : far[c] = wide[c]
  BY <1>1 DEF Gone
<1>4. wide[b] - far[b] \in {-1, 1}
  <2>1. x \in Int /\ y \in Int /\ ox \in Int /\ oy \in Int
    BY DEF ServedBoard, Positions
  <2>2. \/ next[b][1] = x - 1 /\ next[b][2] = y
        \/ next[b][1] = x + 1 /\ next[b][2] = y
        \/ next[b][1] = x /\ next[b][2] = y - 1
        \/ next[b][1] = x /\ next[b][2] = y + 1
    BY <1>1, <2>1 DEF Slide!Towards, Slide!Directions
  <2>3. Gone(blocks, b) = (IF x - ox >= 0 THEN x - ox ELSE -(x - ox)) + (IF y - oy >= 0 THEN y - oy ELSE -(y - oy))
    BY GoneIs
  <2>4. Gone(next, b) = (IF next[b][1] - ox >= 0 THEN next[b][1] - ox ELSE -(next[b][1] - ox))
                        + (IF next[b][2] - oy >= 0 THEN next[b][2] - oy ELSE -(next[b][2] - oy))
    BY <1>1, GoneIs
  <2>5. wide[b] = Gone(next, b) /\ far[b] = Gone(blocks, b)
    OBVIOUS
  <2> HIDE DEF x, y, ox, oy, far, wide
  <2> QED
    BY <2>1, <2>2, <2>3, <2>4, <2>5
<1>5. (\A c \in Blocks : far[c] = Gone(blocks, c)) /\ (\A c \in Blocks : wide[c] = Gone(next, c))
  OBVIOUS
<1> HIDE DEF far, wide
<1>6. IsFiniteSet(Blocks)
  BY DEF ServedBoard
<1>7. PICK F : Adds(F, Blocks, far) /\ Way(blocks) = F[Blocks]
  BY <1>2, <1>5, <1>6, WaySum
<1>8. PICK G : Adds(G, Blocks, wide) /\ Way(next) = G[Blocks]
  BY <1>2, <1>5, <1>6, WaySum
<1>9. Way(next) - Way(blocks) = wide[b] - far[b]
  BY <1>3, <1>7, <1>8, OneSummand
<1>10. Way(blocks) \in Int /\ Way(next) \in Int
  BY <1>7, <1>8 DEF Adds
<1>11. Way(next) = Way(blocks) + 1 \/ Way(next) = Way(blocks) - 1
  BY <1>4, <1>9, <1>10
<1> QED
  BY <1>10, <1>11 DEF Walked

LEMMA NoWay == ServedBoard => Walked(Start, 0)
<1> SUFFICES ASSUME ServedBoard PROVE Walked(Start, 0)
  OBVIOUS
<1> DEFINE d == [b \in Blocks |-> 0]
<1>1. ASSUME NEW b \in Blocks PROVE d[b] = Gone(Start, b)
  <2>1. Start \in [Blocks -> Positions] /\ Start[b][1] \in Int /\ Start[b][2] \in Int
    BY DEF ServedBoard, Positions
  <2>2. Start[b][1] - Start[b][1] = 0 /\ Start[b][2] - Start[b][2] = 0
    BY <2>1
  <2>3. Gone(Start, b) = 0
    BY <2>1, <2>2, GoneIs
  <2> QED
    BY <2>3
<1>2. d \in [Blocks -> Int] /\ \A b \in Blocks : d[b] = 0
  OBVIOUS
<1> HIDE DEF d
<1>3. PICK F : Adds(F, Blocks, d) /\ Way(Start) = F[Blocks]
  BY <1>1, <1>2, WaySum DEF ServedBoard
<1>4. Way(Start) = 0
  BY <1>2, <1>3, NothingToAdd
<1> QED
  BY <1>4 DEF Walked

LEMMA WalkedStep ==
    ASSUME ServedBoard, BoardType, Walked(state.blocks, state.moveCount), [Slide!Next]_boardVars
    PROVE  Walked(state.blocks, state.moveCount)'
<1>1. state.blocks \in [Blocks -> Positions] /\ state.moveCount \in Int
  BY DEF BoardType
<1>2. ASSUME state'.blocks = state.blocks, state'.moveCount = state.moveCount PROVE Walked(state.blocks, state.moveCount)'
  BY <1>2
<1>3. ASSUME NEW b \in Blocks, NEW d \in Slide!Directions, NEW selected, Slide!Slides(b, d, selected)
      PROVE  Walked(state.blocks, state.moveCount)'
  <2> DEFINE blocks == [state.blocks EXCEPT ![b] = Slide!Towards(@, d)]
  <2>1. state' = [blocks |-> blocks, moveCount |-> state.moveCount + 1, selectedBlockId |-> selected,
                  status |-> IF Slide!IsWin(blocks) THEN "won" ELSE "playing"]
    BY <1>3, ShownState DEF Slide!Slides
  <2>2. Walked(blocks, state.moveCount + 1)
    BY <1>1, OneCell
  <2> HIDE DEF blocks
  <2>3. state'.blocks = blocks /\ state'.moveCount = state.moveCount + 1
    BY <2>1
  <2> QED
    BY <2>2, <2>3
<1>4. CASE Slide!SelectBlock
  <2>1. PICK b \in Blocks : state' = [state EXCEPT !.selectedBlockId = IF @ = b THEN Slide!NoBlock ELSE b]
    BY <1>4 DEF Slide!SelectBlock, Slide!Plays
  <2> QED
    BY <1>2, <2>1 DEF BoardType
<1>5. CASE Slide!Move
  <2>1. PICK d \in Slide!Directions : Slide!Slides(state.selectedBlockId, d, state.selectedBlockId)
    BY <1>5 DEF Slide!Move
  <2>2. state.selectedBlockId \in Blocks
    BY <1>5 DEF Slide!Move, BoardType
  <2> QED
    BY <1>3, <2>1, <2>2
<1>6. CASE Slide!DragMove
  BY <1>3, <1>6 DEF Slide!DragMove
<1>7. CASE Slide!GiveUp
  <2>1. state' = [state EXCEPT !.status = "gave_up"]
    BY <1>7, ShownState DEF Slide!GiveUp
  <2> QED
    BY <1>2, <2>1 DEF BoardType
<1>8. CASE Slide!HandleReset
  <2>1. state' = [blocks |-> Start, moveCount |-> 0, status |-> "playing", selectedBlockId |-> Slide!NoBlock]
    BY <1>8 DEF Slide!HandleReset, Slide!StartsOver, Slide!Plays, Slide!CreateInitialState
  <2> QED
    BY <2>1, NoWay
<1>9. CASE UNCHANGED boardVars
  BY <1>2, <1>9 DEF boardVars
<1> QED
  BY <1>4, <1>5, <1>6, <1>7, <1>8, <1>9 DEF Slide!Next

(* The finish is handed over once, and the board then stays.               *)
SlideHanded ==
    /\ ended \in BOOLEAN /\ (ended <=> state.status # "playing")
    /\ Slide!IsWin(state.blocks) <=> state.status = "won"
    /\ sent = IF ended THEN <<Slide!Finish(state)>> ELSE <<>>

LEMMA SlideHandedStep ==
    ASSUME ServedBoard, BoardType, SlideHanded, [Slide!Next]_boardVars
    PROVE  SlideHanded'
<1>1. ASSUME NEW s, NEW over \in BOOLEAN, Slide!Shows(s, over, Slide!Finish(s)), Slide!Playing,
             over <=> s.status # "playing", Slide!IsWin(s.blocks) <=> s.status = "won"
      PROVE  SlideHanded'
  <2>1. ended = FALSE /\ sent = <<>>
    BY <1>1 DEF SlideHanded, Slide!Playing
  <2>2. state' = s /\ ended' = over /\ sent' = IF over THEN <<Slide!Finish(s)>> ELSE <<>>
    <3>1. CASE over
      BY <1>1, <2>1, <3>1 DEF Slide!Shows
    <3>2. CASE ~over
      BY <1>1, <2>1, <3>2 DEF Slide!Shows
    <3> QED
      BY <1>1, <3>1, <3>2
  <2> QED
    BY <1>1, <2>2 DEF SlideHanded, Slide!IsWin, Slide!Finish
<1>2. ASSUME Slide!Playing, NEW s, state' = s, UNCHANGED <<ended, sent>>,
             s.status = "playing", ~Slide!IsWin(s.blocks)
      PROVE  SlideHanded'
  BY <1>2 DEF SlideHanded, Slide!Playing, Slide!IsWin
<1>3. ASSUME NEW b, NEW d, NEW selected, Slide!Slides(b, d, selected) PROVE SlideHanded'
  <2> DEFINE blocks == [state.blocks EXCEPT ![b] = Slide!Towards(@, d)]
             next == [blocks |-> blocks, moveCount |-> state.moveCount + 1, selectedBlockId |-> selected,
                      status |-> IF Slide!IsWin(blocks) THEN "won" ELSE "playing"]
  <2>1. Slide!Shows(next, Slide!IsWin(blocks), Slide!Finish(next)) /\ Slide!Playing
    BY <1>3 DEF Slide!Slides
  <2>2. Slide!IsWin(blocks) \in BOOLEAN
    BY DEF Slide!IsWin
  <2> HIDE DEF blocks
  <2>3. next.blocks = blocks /\ next.status = IF Slide!IsWin(blocks) THEN "won" ELSE "playing"
    OBVIOUS
  <2> HIDE DEF next
  <2> QED
    BY <1>1, <2>1, <2>2, <2>3
<1>4. CASE Slide!SelectBlock
  <2>1. PICK b \in Blocks : state' = [state EXCEPT !.selectedBlockId = IF @ = b THEN Slide!NoBlock ELSE b]
    BY <1>4 DEF Slide!SelectBlock, Slide!Plays
  <2>2. Slide!Playing /\ UNCHANGED <<ended, sent>>
    BY <1>4 DEF Slide!SelectBlock, Slide!Plays
  <2>3. state'.status = "playing" /\ state'.blocks = state.blocks /\ ~Slide!IsWin(state.blocks)
    BY <2>1, <2>2 DEF BoardType, SlideHanded, Slide!Playing
  <2> QED
    BY <1>2, <2>2, <2>3
<1>5. CASE Slide!Move
  BY <1>3, <1>5 DEF Slide!Move
<1>6. CASE Slide!DragMove
  BY <1>3, <1>6 DEF Slide!DragMove
<1>7. CASE Slide!GiveUp
  <2> DEFINE next == [state EXCEPT !.status = "gave_up"]
  <2>1. Slide!Playing /\ Slide!Shows(next, TRUE, Slide!Finish(next))
    BY <1>7 DEF Slide!GiveUp
  <2>2. next.status = "gave_up" /\ next.blocks = state.blocks /\ ~Slide!IsWin(state.blocks)
    BY <2>1 DEF BoardType, SlideHanded, Slide!Playing
  <2> HIDE DEF next
  <2> QED
    BY <1>1, <2>1, <2>2
<1>8. CASE Slide!HandleReset
  <2>1. /\ Slide!Playing /\ UNCHANGED <<ended, sent>>
        /\ state' = [blocks |-> Start, moveCount |-> 0, status |-> "playing", selectedBlockId |-> Slide!NoBlock]
    BY <1>8 DEF Slide!HandleReset, Slide!StartsOver, Slide!Plays, Slide!CreateInitialState
  <2> QED
    BY <1>2, <2>1 DEF ServedBoard
<1>9. CASE UNCHANGED boardVars
  BY <1>9 DEF boardVars, SlideHanded, Slide!IsWin, Slide!Finish
<1> QED
  BY <1>4, <1>5, <1>6, <1>7, <1>8, <1>9 DEF Slide!Next

(* types.ts canMove, use-block-slide.ts: from a served board that is legal *)
(* and not won, on a grid and with blocks of any size, the blocks stay in  *)
(* the grid and never cover one another, the moves counted are as many as  *)
(* the blocks are cells away from where they started, or more by moves     *)
(* there and back, and the board is handed over when the target is at the  *)
(* exit, as won with the moves made, or when given up.                     *)
THEOREM BlockSlideCorrect ==
    ASSUME ServedBoard
    PROVE  Slide!Spec => [](/\ Slide!Legal /\ Slide!Explained /\ Slide!Finished
                            /\ \A i \in DOMAIN sent : Slide!Right(sent[i]))
<1> DEFINE Inv == BoardType /\ Slide!Legal /\ Walked(state.blocks, state.moveCount) /\ SlideHanded
<1>1. Slide!Init => Inv
  <2> SUFFICES ASSUME Slide!Init PROVE Inv
    OBVIOUS
  <2>1. /\ state = [blocks |-> Start, moveCount |-> 0, status |-> "playing", selectedBlockId |-> Slide!NoBlock]
        /\ ended = FALSE /\ sent = <<>>
    BY DEF Slide!Init, Slide!Starts, Slide!CreateInitialState
  <2>2. SlideHanded
    BY <2>1 DEF SlideHanded, ServedBoard
  <2>3. Walked(state.blocks, state.moveCount)
    BY <2>1, NoWay
  <2> QED
    BY <2>2, <2>3, LegalInit
<1>2. Inv /\ [Slide!Next]_(Slide!boardVars) => Inv'
  BY LegalStep, SlideHandedStep, WalkedStep DEF Slide!boardVars, boardVars
<1>3. Inv => /\ Slide!Legal /\ Slide!Explained /\ Slide!Finished
             /\ \A i \in DOMAIN sent : Slide!Right(sent[i])
  <2> SUFFICES ASSUME SlideHanded, BoardType PROVE Slide!Finished /\ \A i \in DOMAIN sent : Slide!Right(sent[i])
    BY ExplainedByWay
  <2>1. Slide!Finished
    BY DEF SlideHanded, Slide!Finished, Slide!Last
  <2>2. ASSUME NEW i \in DOMAIN sent PROVE Slide!Right(sent[i])
    <3>1. sent[i] = [status |-> IF state.status = "won" THEN "won" ELSE "lost", moveCount |-> state.moveCount]
      BY <2>2 DEF SlideHanded, Slide!Finish
    <3> QED
      BY <3>1 DEF SlideHanded, Slide!Right
  <2> QED
    BY <2>1, <2>2
<1> QED
  BY <1>1, <1>2, <1>3, PTL DEF Slide!Spec

------------------------------------------------------------------------------
(* Word Box.                                                               *)
CONSTANTS Side, MinLength, MaxLength, MaxWords
Box == INSTANCE WordBox

BoxPuzzle == Box!Letters # {} /\ MinLength \in Nat \ {0}

Spelled == {w \in Seq(Box!Letters) : w # <<>> /\ Box!HasValidSideTransitions(w)}

Boxes == {f \in [words : Seq(Spelled)] : Box!Right(f)}

BoxStates == [words : Seq(Spelled), currentWord : Seq(Box!Letters),
              usedLetters : SUBSET Box!Letters, gameStatus : {"playing", "won"}, replay : BOOLEAN]

BoxBoard(s, over, finishes) ==
    /\ s \in BoxStates
    /\ Box!Chained(s.words) /\ Box!HasValidSideTransitions(s.currentWord)
    /\ s.usedLetters = Box!GetUsedLetters(s.words)
    /\ s.gameStatus = "won" <=> s.usedLetters = Box!Letters
    /\ over \in BOOLEAN /\ finishes \in Seq(Boxes)
    /\ GivenOnce(s.gameStatus = "won", s.replay, Box!Finish(s), over, finishes)

BoxInv == BoxBoard(state, ended, sent)

LEMMA BoxEmpty ==
    ASSUME BoxPuzzle, NEW again \in BOOLEAN, NEW finishes \in Seq(Boxes),
           Len(finishes) = IF again THEN 1 ELSE 0, NEW s,
           \/ s = Box!CreateInitialState /\ again = FALSE
           \/ s = [Box!CreateInitialState EXCEPT !.replay = again]
    PROVE  BoxBoard(s, again, finishes)
<1>1. Box!GetUsedLetters(<<>>) = {}
  BY DEF Box!GetUsedLetters
<1>2. <<>> \in Seq(Spelled) /\ <<>> \in Seq(Box!Letters)
  OBVIOUS
<1>3. Box!Chained(<<>>) /\ Box!HasValidSideTransitions(<<>>)
  BY DEF Box!Chained, Box!HasValidSideTransitions
<1>4. Box!CreateInitialState \in BoxStates
  BY <1>2 DEF Box!CreateInitialState, BoxStates
<1>5. s \in BoxStates /\ s.replay = again
  <2>1. Box!CreateInitialState.replay = FALSE
    BY DEF Box!CreateInitialState
  <2> QED
    BY <1>4, <2>1 DEF BoxStates
<1>6. s.words = <<>> /\ s.currentWord = <<>> /\ s.usedLetters = {} /\ s.gameStatus = "playing"
  BY DEF Box!CreateInitialState
<1>7. GivenOnce(s.gameStatus = "won", s.replay, Box!Finish(s), again, finishes)
  BY <1>5, <1>6 DEF GivenOnce
<1> QED
  BY <1>1, <1>3, <1>5, <1>6, <1>7 DEF BoxBoard, BoxPuzzle

(* A word that chains is taken in, and its letters are used from then on.  *)
LEMMA BoxFurther ==
    ASSUME NEW ws \in Seq(Spelled), Box!Chained(ws), NEW w \in Spelled, Box!StartsWithLastLetter(ws, w)
    PROVE  /\ Append(ws, w) \in Seq(Spelled) /\ Box!Chained(Append(ws, w))
           /\ Box!GetUsedLetters(Append(ws, w)) \in SUBSET Box!Letters
<1> DEFINE q == Append(ws, w)
<1>1. q \in Seq(Spelled) /\ Len(q) = Len(ws) + 1 /\ DOMAIN q = 1..(Len(ws) + 1) /\ q[Len(ws) + 1] = w
      /\ Len(ws) \in Nat /\ \A i \in 1..Len(ws) : q[i] = ws[i]
  OBVIOUS
<1> HIDE DEF q
<1>2. Box!Chained(q)
  <2> SUFFICES ASSUME NEW i \in 2..Len(q) PROVE Box!Last(q[i - 1]) = Head(q[i])
    BY DEF Box!Chained
  <2>1. CASE i = Len(ws) + 1
    <3>1. ws # <<>> /\ q[i] = w /\ q[i - 1] = ws[Len(ws)]
      BY <1>1, <2>1
    <3> QED
      BY <3>1 DEF Box!StartsWithLastLetter, Box!Last
  <2>2. CASE i \in 2..Len(ws)
    <3>1. q[i] = ws[i] /\ q[i - 1] = ws[i - 1]
      BY <1>1, <2>2
    <3> QED
      BY <2>2, <3>1 DEF Box!Chained
  <2> QED
    BY <1>1, <2>1, <2>2
<1>3. Box!GetUsedLetters(q) \in SUBSET Box!Letters
  <2> SUFFICES ASSUME NEW i \in DOMAIN q PROVE Box!ToSet(q[i]) \subseteq Box!Letters
    BY DEF Box!GetUsedLetters
  <2>1. q[i] \in Seq(Box!Letters)
    BY <1>1 DEF Spelled
  <2> QED
    BY <2>1 DEF Box!ToSet
<1> QED
  BY <1>1, <1>2, <1>3 DEF q

LEMMA BoxStep == BoxPuzzle /\ BoxInv /\ [Box!Next]_boardVars => BoxInv'
<1> SUFFICES ASSUME BoxPuzzle, BoxInv, [Box!Next]_boardVars PROVE BoxBoard(state', ended', sent')
  BY DEF BoxInv
<1>0. /\ state \in BoxStates /\ ended \in BOOLEAN /\ sent \in Seq(Boxes)
      /\ state.words \in Seq(Spelled) /\ state.currentWord \in Seq(Box!Letters)
      /\ Box!Chained(state.words) /\ Box!HasValidSideTransitions(state.currentWord)
      /\ state.replay \in BOOLEAN
      /\ GivenOnce(state.gameStatus = "won", state.replay, Box!Finish(state), ended, sent)
  BY DEF BoxInv, BoxBoard, BoxStates
<1>t. ASSUME NEW w \in Seq(Box!Letters), Box!HasValidSideTransitions(w),
             Box!Plays([state EXCEPT !.currentWord = w])
      PROVE  BoxBoard(state', ended', sent')
  <2> DEFINE next == [state EXCEPT !.currentWord = w]
  <2>1. state' = next /\ UNCHANGED <<ended, sent>>
    BY <1>t DEF Box!Plays
  <2>2. next \in BoxStates /\ next.words = state.words /\ next.currentWord = w
        /\ next.usedLetters = state.usedLetters /\ next.gameStatus = state.gameStatus
        /\ next.replay = state.replay
    BY <1>0 DEF BoxStates
  <2> HIDE DEF next
  <2>3. BoxBoard(next, ended, sent)
    BY <1>t, <2>2 DEF BoxInv, BoxBoard, Box!Finish
  <2> QED
    BY <2>1, <2>3
<1>1. CASE Box!AddLetter
  <2>1. PICK l \in Box!Letters : /\ Box!HasValidSideTransitions(Append(state.currentWord, l))
                                /\ Box!Plays([state EXCEPT !.currentWord = Append(state.currentWord, l)])
    BY <1>1 DEF Box!AddLetter
  <2>2. Append(state.currentWord, l) \in Seq(Box!Letters)
    BY <1>0
  <2> QED
    BY <1>t, <2>1, <2>2
<1>2. CASE Box!DeleteLetter
  <2> DEFINE w == SubSeq(state.currentWord, 1, Len(state.currentWord) - 1)
  <2>1. state.currentWord # <<>> /\ Box!Plays([state EXCEPT !.currentWord = w])
    BY <1>2 DEF Box!DeleteLetter, Box!Front
  <2>2. w \in Seq(Box!Letters) /\ Len(w) = Len(state.currentWord) - 1 /\ Len(state.currentWord) \in Nat
        /\ \A i \in 1..Len(w) : w[i] = state.currentWord[i]
    BY <1>0, <2>1
  <2> HIDE DEF w
  <2>3. Box!HasValidSideTransitions(w)
    <3> SUFFICES ASSUME NEW i \in 2..Len(w) PROVE Side[w[i - 1]] # Side[w[i]]
      BY DEF Box!HasValidSideTransitions
    <3>1. i \in 2..Len(state.currentWord) /\ w[i] = state.currentWord[i] /\ w[i - 1] = state.currentWord[i - 1]
      BY <2>2
    <3> QED
      BY <1>0, <3>1 DEF Box!HasValidSideTransitions
  <2> QED
    BY <1>t, <2>1, <2>2, <2>3
<1>3. CASE Box!SubmitWord
  <2> DEFINE ws == Append(state.words, state.currentWord)
             used == Box!GetUsedLetters(ws)
             won == Box!Letters \subseteq used
             next == [state EXCEPT !.words = ws, !.currentWord = <<>>, !.usedLetters = used,
                                   !.gameStatus = IF won THEN "won" ELSE "playing"]
  <2>1. /\ state.gameStatus = "playing" /\ Len(state.currentWord) >= MinLength
        /\ Box!StartsWithLastLetter(state.words, state.currentWord)
        /\ Box!Shows(next, next.gameStatus = "won", Box!Finish(next))
    BY <1>3 DEF Box!SubmitWord, Box!Playing
  <2>2. state.currentWord \in Spelled
    BY <1>0, <2>1 DEF Spelled, BoxPuzzle
  <2>3. ws \in Seq(Spelled) /\ Box!Chained(ws) /\ used \in SUBSET Box!Letters
    BY <1>0, <2>1, <2>2, BoxFurther
  <2>4. <<>> \in Seq(Box!Letters) /\ Box!HasValidSideTransitions(<<>>)
    BY DEF Box!HasValidSideTransitions
  <2>5. won => [words |-> ws] \in Boxes
    BY <2>3, Zenon DEF Boxes, Box!Right
  <2> HIDE DEF ws, used
  <2>6. next \in BoxStates /\ next.words = ws /\ next.currentWord = <<>> /\ next.usedLetters = used
        /\ (next.gameStatus = "won" <=> won) /\ (won <=> used = Box!Letters) /\ next.replay = state.replay
    BY <1>0, <2>3, <2>4 DEF BoxStates
  <2> HIDE DEF won, next
  <2> DEFINE over == next.gameStatus = "won"
             data == Box!Finish(next)
  <2>7. /\ state' = next /\ ended' \in BOOLEAN /\ sent' \in Seq(Boxes)
        /\ GivenOnce(over, state.replay, data, ended', sent')
    <3>1. over \in BOOLEAN /\ (over => data \in Boxes) /\ Shows(next, over, data)
      BY <2>1, <2>5, <2>6 DEF Box!Finish, Box!Shows, Shows
    <3>2. /\ state.replay \in BOOLEAN /\ ended = state.replay
          /\ Len(sent) = (IF ended THEN 1 ELSE 0) /\ sent \in Seq(Boxes)
      BY <1>0, <2>1 DEF GivenOnce
    <3> HIDE DEF over, data
    <3> QED
      BY <3>1, <3>2, RenderAgain
  <2>8. BoxBoard(next, ended', sent')
    BY <2>3, <2>4, <2>6, <2>7 DEF BoxBoard, used
  <2> QED
    BY <2>7, <2>8
<1>4. CASE Box!HandleReset
  <2> DEFINE s == [Box!CreateInitialState EXCEPT !.replay = ended]
  <2>1. state' = s /\ ended' = ended /\ sent' = sent
    BY <1>4 DEF Box!HandleReset, Box!Replays, Box!StartsOver, Box!Plays
  <2>2. Len(sent) = IF ended THEN 1 ELSE 0
    BY <1>0 DEF GivenOnce
  <2>3. BoxBoard(s, ended, sent)
    BY <1>0, <2>2, BoxEmpty
  <2> QED
    BY <2>1, <2>3
<1>5. CASE UNCHANGED boardVars
  BY <1>5 DEF boardVars, BoxInv
<1> QED
  BY <1>1, <1>2, <1>3, <1>4, <1>5 DEF Box!Next

(* word-box-game.tsx: on any box, what is typed or accepted never stays on *)
(* a side and the words chain; the letters shown as used are those of the  *)
(* words; the game is won when, and only when, every letter is used; the   *)
(* first box won since the page was opened, and no other, is handed over,  *)
(* and what is handed over is a win.                                       *)
THEOREM WordBoxCorrect ==
    ASSUME BoxPuzzle
    PROVE  Box!Init /\ [][Box!Next]_boardVars =>
               [](/\ Box!Legal /\ Box!Explained /\ Box!Finished
                  /\ \A i \in DOMAIN sent : Box!Right(sent[i]))
<1>1. Box!Init => BoxInv
  <2> SUFFICES ASSUME Box!Init PROVE BoxInv
    OBVIOUS
  <2>1. state = Box!CreateInitialState /\ ended = FALSE /\ sent = <<>>
    BY DEF Box!Init, Box!Starts
  <2>2. sent \in Seq(Boxes) /\ Len(sent) = (IF FALSE THEN 1 ELSE 0) /\ FALSE \in BOOLEAN
    BY <2>1
  <2>3. BoxBoard(state, FALSE, sent)
    BY <2>1, <2>2, BoxEmpty
  <2> QED
    BY <2>1, <2>3 DEF BoxInv
<1>2. BoxInv /\ [Box!Next]_boardVars => BoxInv'
  BY BoxStep
<1>3. BoxInv => /\ Box!Legal /\ Box!Explained /\ Box!Finished
                /\ \A i \in DOMAIN sent : Box!Right(sent[i])
  <2> SUFFICES ASSUME BoxInv PROVE /\ Box!Legal /\ Box!Explained /\ Box!Finished
                                   /\ \A i \in DOMAIN sent : Box!Right(sent[i])
    OBVIOUS
  <2>1. Box!Legal
    <3>1. \A i \in DOMAIN state.words : state.words[i] \in Spelled
      BY DEF BoxInv, BoxBoard, BoxStates
    <3> QED
      BY <3>1 DEF BoxInv, BoxBoard, Box!Legal, Spelled
  <2>2. Box!Explained
    BY DEF BoxInv, BoxBoard, Box!Explained, Box!GetUsedLetters
  <2>3. Box!Finished
    BY DEF BoxInv, BoxBoard, Box!Finished, Box!HandsOverTheFirst, GivenOnce
  <2>4. \A i \in DOMAIN sent : Box!Right(sent[i])
    BY DEF BoxInv, BoxBoard, Boxes
  <2> QED
    BY <2>1, <2>2, <2>3, <2>4
<1> QED
  BY <1>1, <1>2, <1>3, PTL
==============================================================================
