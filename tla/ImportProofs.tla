----------------------------- MODULE ImportProofs -----------------------------
(* What Import promises, for any export, number of processes, runs and       *)
(* batches: no line twice, none passed over, and what "completed" and the     *)
(* order of the DocTypes mean.                                                *)
EXTENDS Import, FiniteSetTheorems, NaturalsInduction, WellFoundedInduction, TLAPS

-----------------------------------------------------------------------------
(* Induction, over sets of numbers: a set of numbers has a least one.        *)

LEMMA LeastOf ==
  ASSUME NEW S, S \subseteq Nat, S # {}
  PROVE  \E m \in S : \A n \in S : m <= n
<1> DEFINE below == OpToRel(<, Nat)
<1>1. IsWellFoundedOn(below, Nat)  BY NatLessThanWellFounded
<1>2. \A y, x \in Nat : y < x => <<y, x>> \in below  BY DEF OpToRel
<1> HIDE DEF below
<1>3. PICK x \in S : \A y \in S : <<y, x>> \notin below  BY <1>1, WFMin, Zenon
<1>4. \A y \in S : y \in Nat /\ ~(y < x)  BY <1>2, <1>3
<1> QED  BY <1>4

LEMMA EveryNumber ==
  ASSUME NEW S, 0 \in S, \A n \in Nat : n \in S => n + 1 \in S
  PROVE  Nat \subseteq S
<1> SUFFICES ASSUME Nat \ S # {}  PROVE FALSE
  OBVIOUS
<1>1. PICK m \in Nat \ S : \A n \in Nat \ S : m <= n  BY LeastOf
<1>2. m # 0 /\ m - 1 \in Nat  BY <1>1
<1> QED  BY <1>1, <1>2

-----------------------------------------------------------------------------
(* The order.                                                              *)

LEMMA DoctypesAreFew == IsFiniteSet(Doctypes) /\ Cardinality(Doctypes) = D /\ Doctypes \subseteq Nat
BY ImportAssumption, FS_Interval DEF Doctypes

LEMMA CountUpTo == \A n \in Nat : IsFiniteSet(0..(n - 1)) /\ Cardinality(0..(n - 1)) = n
<1> TAKE n \in Nat
<1>1. 0 \in Int /\ n - 1 \in Int  OBVIOUS
<1>2. IsFiniteSet(0..(n - 1)) /\ Cardinality(0..(n - 1)) = IF 0 > n - 1 THEN 0 ELSE n - 1 - 0 + 1
  BY <1>1, FS_Interval
<1> QED  BY <1>2

Rank(S, d) == Cardinality({e \in S : e < d})

\* Each member of a set has its own rank in it, and each rank its member.
LEMMA Ranks ==
  ASSUME NEW S \in SUBSET Doctypes
  PROVE  /\ Cardinality(S) \in Nat
         /\ \A d \in S : Rank(S, d) \in 0..(Cardinality(S) - 1)
         /\ \A d, e \in S : Rank(S, d) = Rank(S, e) => d = e
         /\ \A i \in 0..(Cardinality(S) - 1) : \E d \in S : Rank(S, d) = i
<1> DEFINE rank == [d \in S |-> Rank(S, d)]
           n == Cardinality(S)
<1>1. IsFiniteSet(S) /\ n \in Nat /\ S \subseteq Nat
  BY DoctypesAreFew, FS_Subset, FS_CardinalityType
<1>2. ASSUME NEW d \in S  PROVE rank[d] \in 0..(n - 1)
  <2> DEFINE low == {e \in S : e < d}
  <2>1. low \in SUBSET S /\ low # S  BY <1>1
  <2>2. Cardinality(low) <= n /\ Cardinality(low) # n /\ Cardinality(low) \in Nat
    BY <1>1, <2>1, FS_Subset, FS_CardinalityType
  <2> QED  BY <1>1, <2>2 DEF Rank
<1>3. ASSUME NEW d \in S, NEW e \in S, d < e  PROVE rank[d] < rank[e]
  <2> DEFINE low == {x \in S : x < d}
             high == {x \in S : x < e}
  <2>1. low \subseteq high
    <3>1. \A x \in S : x < d => x < e  BY <1>1, <1>3
    <3> QED  BY <3>1
  <2>4. d \in high /\ d \notin low  BY <1>1, <1>3
  <2>2. IsFiniteSet(high) /\ Cardinality(high) \in Nat /\ Cardinality(low) \in Nat
    BY <1>1, FS_Subset, FS_CardinalityType
  <2>3. Cardinality(low) <= Cardinality(high) /\ Cardinality(low) # Cardinality(high)
    BY <2>1, <2>2, <2>4, FS_Subset
  <2> QED  BY <2>2, <2>3 DEF Rank
<1>4. \A d, e \in S : rank[d] = rank[e] => d = e
  <2>1. \A d, e \in S : d < e \/ e < d \/ d = e  BY <1>1
  <2>2. \A d \in S : rank[d] \in Nat  BY <1>2
  <2> HIDE DEF rank
  <2> QED  BY <1>3, <2>1, <2>2
<1>5. IsFiniteSet(0..(n - 1)) /\ Cardinality(0..(n - 1)) = n
  BY <1>1, CountUpTo
<1>6. rank \in Injection(S, 0..(n - 1))
  BY <1>2, <1>4 DEF Injection, IsInjective
<1>7. rank \in Surjection(S, 0..(n - 1))
  BY <1>5, <1>6, FS_Injection
<1> QED  BY <1>1, <1>2, <1>4, <1>7 DEF Surjection

\* Sorted lists each member once.
LEMMA SortedLists ==
  ASSUME NEW S \in SUBSET Doctypes
  PROVE  /\ Sorted(S) \in [1..Cardinality(S) -> S]
         /\ \A d \in S : \E i \in 1..Cardinality(S) : Sorted(S)[i] = d
         /\ Sorted(S) \in Seq(S) /\ Len(Sorted(S)) = Cardinality(S)
<1>1. Cardinality(S) \in Nat  BY Ranks
<1>2. ASSUME NEW i \in 1..Cardinality(S)
      PROVE  Sorted(S)[i] \in S /\ Rank(S, Sorted(S)[i]) = i - 1
  <2>1. i - 1 \in 0..(Cardinality(S) - 1)  BY <1>1
  <2>2. \E d \in S : Rank(S, d) = i - 1  BY <2>1, Ranks
  <2>3. Sorted(S)[i] = CHOOSE d \in S : Rank(S, d) = i - 1  BY DEF Sorted, Rank
  <2> QED  BY <2>2, <2>3
<1>3. \A d \in S : \E i \in 1..Cardinality(S) : Sorted(S)[i] = d
  <2> TAKE d \in S
  <2>1. PICK i \in 1..Cardinality(S) : i - 1 = Rank(S, d)
    <3>1. Rank(S, d) \in 0..(Cardinality(S) - 1)  BY Ranks
    <3>2. Rank(S, d) + 1 \in 1..Cardinality(S)  BY <1>1, <3>1
    <3> QED  BY <3>1, <3>2
  <2>2. Sorted(S)[i] = d  BY <1>2, <2>1, Ranks
  <2> QED  BY <2>2
<1>4. Sorted(S) \in [1..Cardinality(S) -> S]  BY <1>2 DEF Sorted
<1> QED  BY <1>1, <1>3, <1>4

\* A round always finds someone to place, and only who is left.
LEMMA ReadyIsLeft ==
  ASSUME NEW links, NEW placed \in SUBSET Doctypes
  PROVE  /\ Ready(links, placed) \subseteq Doctypes \ placed
         /\ placed # Doctypes => Ready(links, placed) # {}
<1> DEFINE left == Doctypes \ placed
           waits(d) == Cardinality(Deps(links, d) \ placed)
           best == {d \in left : \A e \in left : waits(d) <= waits(e)}
           free == {d \in left : Deps(links, d) \subseteq placed}
<1>1. ASSUME placed # Doctypes  PROVE fewestDeps(links, placed) \in left
  <2>1. left # {} /\ left \subseteq Nat  BY <1>1, DoctypesAreFew
  <2>2. \A d \in left : waits(d) \in Nat
    <3> TAKE d \in left
    <3>1. (Deps(links, d) \ placed) \in SUBSET Doctypes  BY DEF Deps
    <3> QED  BY <3>1, DoctypesAreFew, FS_Subset, FS_CardinalityType
  <2>3. best # {}
    <3> DEFINE counts == {waits(d) : d \in left}
    <3>1. counts \subseteq Nat /\ counts # {}  BY <2>1, <2>2
    <3>2. PICK m \in counts : \A n \in counts : m <= n  BY <3>1, LeastOf
    <3>3. PICK d \in left : waits(d) = m  BY <3>2
    <3>4. \A e \in left : waits(e) \in counts  OBVIOUS
    <3> HIDE DEF waits, counts
    <3>5. \A e \in left : waits(d) <= waits(e)  BY <3>2, <3>3, <3>4
    <3> QED  BY <3>5
  <2>4. best \subseteq Nat  BY <2>1
  <2>5. \E d \in best : \A e \in best : d <= e  BY <2>3, <2>4, LeastOf
  <2>6. fewestDeps(links, placed) = CHOOSE d \in best : \A e \in best : d <= e
    BY DEF fewestDeps
  <2> QED  BY <2>5, <2>6
<1>2. Ready(links, placed) = IF free = {} /\ placed # Doctypes THEN {fewestDeps(links, placed)} ELSE free
  BY DEF Ready
<1> QED  BY <1>1, <1>2

\* The recursive function is what its equation says.
IsPlaced(links, f, m) ==
  f = [n \in 0..m |-> IF n = 0 THEN <<>> ELSE f[n - 1] \o Sorted(Ready(links, ToSet(f[n - 1])))]

LEMMA PlacedExists ==
  ASSUME NEW links  PROVE \A m \in Nat : \E f : IsPlaced(links, f, m)
<1> DEFINE S == {m \in Nat : \E f : IsPlaced(links, f, m)}
           After(s) == s \o Sorted(Ready(links, ToSet(s)))
<1>1. 0 \in S
  <2>1. IsPlaced(links, [n \in 0..0 |-> <<>>], 0)  BY DEF IsPlaced
  <2> QED  BY <2>1
<1>2. ASSUME NEW k \in Nat, k \in S  PROVE k + 1 \in S
  <2>1. PICK f : IsPlaced(links, f, k)  BY <1>2
  <2> HIDE DEF After
  <2>2. \A n \in 0..k : f[n] = IF n = 0 THEN <<>> ELSE After(f[n - 1])  BY <2>1 DEF IsPlaced, After
  <2> DEFINE g == [n \in 0..(k + 1) |-> IF n = 0 THEN <<>> ELSE After(f[n - 1])]
  <2>3. \A n \in 0..k : g[n] = f[n]  BY <2>2
  <2>4. g = [n \in 0..(k + 1) |-> IF n = 0 THEN <<>> ELSE After(g[n - 1])]
    <3>1. ASSUME NEW n \in 0..(k + 1)
          PROVE  (IF n = 0 THEN <<>> ELSE After(f[n - 1])) = IF n = 0 THEN <<>> ELSE After(g[n - 1])
      <4>1. n # 0 => n - 1 \in 0..k  OBVIOUS
      <4>2. n # 0 => g[n - 1] = f[n - 1]  BY <2>3, <4>1
      <4> HIDE DEF g
      <4> QED  BY <4>2
    <3> QED  BY <3>1
  <2>5. IsPlaced(links, g, k + 1)  BY <2>4 DEF IsPlaced, After
  <2> QED  BY <2>5
<1> HIDE DEF S
<1>3. Nat \subseteq S  BY <1>1, <1>2, EveryNumber
<1> QED  BY <1>3 DEF S

LEMMA PlacedIs ==
  ASSUME NEW links
  PROVE  /\ Placed(links)[0] = <<>>
         /\ \A n \in 1..D : Placed(links)[n] =
              Placed(links)[n - 1] \o Sorted(Ready(links, ToSet(Placed(links)[n - 1])))
<1>1. D \in Nat  BY ImportAssumption
<1>2. \E f : f = [n \in 0..D |-> IF n = 0 THEN <<>> ELSE f[n - 1] \o Sorted(Ready(links, ToSet(f[n - 1])))]
  BY <1>1, PlacedExists DEF IsPlaced
<1>3. Placed(links) = [n \in 0..D |-> IF n = 0 THEN <<>>
                        ELSE Placed(links)[n - 1] \o Sorted(Ready(links, ToSet(Placed(links)[n - 1])))]
  BY <1>2 DEF Placed
<1> HIDE DEF Placed
<1> QED  BY <1>1, <1>3

LEMMA ListedIn == ASSUME NEW s \in Seq(Doctypes)  PROVE ToSet(s) = {s[i] : i \in 1..Len(s)}
<1>1. DOMAIN s = 1..Len(s)  OBVIOUS
<1> QED  BY <1>1 DEF ToSet

\* No DocType is listed twice.
Lists(s) == s \in Seq(Doctypes) /\ Len(s) = Cardinality(ToSet(s))

\* Links that do not go round in a circle, those of a DocType to itself aside.
Acyclic(links) ==
  \A S \in SUBSET Doctypes : S # {} => \E d \in S : Deps(links, d) \cap S = {}

\* Everything is listed after what it has a link to.
Follows(links, s) ==
  \A i \in 1..Len(s) : \A t \in Deps(links, s[i]) : \E j \in 1..(i - 1) : s[j] = t

LEMMA ARoundMore ==
  ASSUME NEW links, NEW s, Lists(s), Acyclic(links) => Follows(links, s),
         NEW t, t = s \o Sorted(Ready(links, ToSet(s)))
  PROVE  /\ Lists(t)
         /\ Acyclic(links) => Follows(links, t)
         /\ ToSet(s) = Doctypes => ToSet(t) = Doctypes
         /\ ToSet(s) # Doctypes => Len(t) > Len(s)
<1> DEFINE placed == ToSet(s)
           R == Ready(links, placed)
           r == Sorted(R)
<1>1. /\ placed = {s[i] : i \in 1..Len(s)}
      /\ placed \in SUBSET Doctypes
  <2>1. placed = {s[i] : i \in 1..Len(s)}  BY ListedIn DEF Lists
  <2>2. \A i \in 1..Len(s) : s[i] \in Doctypes  BY DEF Lists
  <2> HIDE DEF placed
  <2> QED  BY <2>1, <2>2
<1>2. R \subseteq Doctypes \ placed /\ (placed # Doctypes => R # {})  BY <1>1, ReadyIsLeft
<1>3. IsFiniteSet(R) /\ IsFiniteSet(placed) /\ Cardinality(R) \in Nat /\ Cardinality(placed) \in Nat
  BY <1>1, <1>2, DoctypesAreFew, FS_Subset, FS_CardinalityType
<1>4. /\ r \in Seq(R) /\ Len(r) = Cardinality(R)
      /\ \A d \in R : \E i \in 1..Len(r) : r[i] = d
  BY <1>2, SortedLists
<1> HIDE DEF R, r, placed
<1>5. /\ t \in Seq(Doctypes) /\ Len(t) = Len(s) + Len(r)
      /\ Len(s) \in Nat /\ Len(r) \in Nat
      /\ \A i \in 1..Len(s) : t[i] = s[i]
      /\ \A i \in 1..Len(r) : t[Len(s) + i] = r[i]
      /\ \A i \in 1..Len(t) : i <= Len(s) \/ (i - Len(s) \in 1..Len(r) /\ t[i] = r[i - Len(s)])
  <2>1. r \in Seq(Doctypes) /\ s \in Seq(Doctypes) /\ t = s \o r  BY <1>2, <1>4 DEF Lists, r, R, placed
  <2> QED  BY <2>1
<1>6. ToSet(t) = placed \cup R
  <2>1. \A d \in placed : \E i \in 1..Len(t) : t[i] = d
    BY <1>1, <1>5
  <2>2. \A d \in R : \E i \in 1..Len(t) : t[i] = d
    <3> TAKE d \in R
    <3>1. PICK i \in 1..Len(r) : r[i] = d  BY <1>4
    <3>2. Len(s) + i \in 1..Len(t) /\ t[Len(s) + i] = d  BY <1>5, <3>1
    <3> QED  BY <3>2
  <2>3. \A i \in 1..Len(t) : t[i] \in placed \cup R
    <3> TAKE i \in 1..Len(t)
    <3>1. CASE i <= Len(s)
      <4>1. i \in 1..Len(s)  BY <1>5, <3>1
      <4> QED  BY <1>1, <1>5, <4>1
    <3>2. CASE ~(i <= Len(s))  BY <1>4, <1>5, <3>2
    <3> QED  BY <3>1, <3>2
  <2>4. ToSet(t) = {t[i] : i \in 1..Len(t)}  BY <1>5, ListedIn
  <2> QED  BY <2>1, <2>2, <2>3, <2>4
<1>7. Cardinality(placed \cup R) = Cardinality(placed) + Cardinality(R)
  <2>1. placed \cap R = {}  BY <1>2
  <2>2. Cardinality(placed \cup R) = Cardinality(placed) + Cardinality(R) - Cardinality(placed \cap R)
    BY <1>3, FS_Union
  <2>3. Cardinality(placed \cap R) = 0  BY <2>1, FS_EmptySet
  <2> QED  BY <1>3, <2>2, <2>3
<1>8. Lists(t)  BY <1>4, <1>5, <1>6, <1>7 DEF Lists, placed
<1>9. ASSUME Acyclic(links)  PROVE Follows(links, t)
  <2>1. \A d \in R : Deps(links, d) \subseteq placed
    <3>1. CASE placed = Doctypes  BY <1>2, <3>1
    <3>2. CASE placed # Doctypes
      <4>1. PICK d \in Doctypes \ placed : Deps(links, d) \cap (Doctypes \ placed) = {}
        BY <1>1, <1>9, <3>2 DEF Acyclic, placed
      <4>2. Deps(links, d) \subseteq placed  BY <4>1 DEF Deps
      <4>3. R = {e \in Doctypes \ placed : Deps(links, e) \subseteq placed}
        BY <4>1, <4>2 DEF R, Ready
      <4> QED  BY <4>3
    <3> QED  BY <3>1, <3>2
  <2>2. SUFFICES ASSUME NEW i \in 1..Len(t), NEW d \in Deps(links, t[i])
                 PROVE  \E j \in 1..(i - 1) : t[j] = d
    BY DEF Follows
  <2>3. CASE i <= Len(s)
    <3>1. i \in 1..Len(s) /\ t[i] = s[i]  BY <1>5, <2>3
    <3>2. PICK j \in 1..(i - 1) : s[j] = d  BY <1>9, <3>1 DEF Follows
    <3>3. j \in 1..Len(s)  BY <1>5, <3>1
    <3> QED  BY <1>5, <3>2, <3>3
  <2>4. CASE ~(i <= Len(s))
    <3>1. t[i] \in R  BY <1>4, <1>5, <2>4
    <3>2. d \in placed  BY <2>1, <3>1
    <3>3. PICK j \in 1..Len(s) : s[j] = d  BY <1>1, <3>2
    <3>4. j \in 1..(i - 1)  BY <1>5, <2>4
    <3> QED  BY <1>5, <3>3, <3>4
  <2> QED  BY <2>3, <2>4
<1>10. placed # Doctypes => Len(r) # 0
  BY <1>2, <1>3, <1>4, FS_EmptySet
<1> QED  BY <1>2, <1>5, <1>6, <1>8, <1>9, <1>10 DEF placed

\* The order has every DocType, at one place each.
Enumerates(order) ==
  /\ order \in Seq(Doctypes) /\ Len(order) = D
  /\ \A d \in Doctypes : \E i \in 1..D : order[i] = d
  /\ \A i, j \in 1..D : order[i] = order[j] => i = j

LEMMA OrderEnumerates ==
  ASSUME NEW links
  PROVE  /\ Enumerates(ImportOrder(links))
         /\ Acyclic(links) => Follows(links, ImportOrder(links))
<1> DEFINE after == Placed(links)
           S == {n \in Nat : n <= D => /\ Lists(after[n])
                                       /\ Acyclic(links) => Follows(links, after[n])
                                       /\ ToSet(after[n]) = Doctypes \/ Len(after[n]) >= n}
<1>1. D \in Nat  BY ImportAssumption
<1>2. 0 \in S
  <2>1. after[0] = <<>>  BY PlacedIs
  <2>2. <<>> \in Seq(Doctypes) /\ Len(<<>>) = 0  OBVIOUS
  <2>3. ToSet(<<>>) = {}
    <3>1. DOMAIN <<>> = {}  OBVIOUS
    <3> QED  BY <3>1 DEF ToSet
  <2>4. Lists(after[0])  BY <2>1, <2>2, <2>3, FS_EmptySet DEF Lists
  <2>5. Follows(links, after[0])  BY <2>1, <2>2 DEF Follows
  <2> QED  BY <2>1, <2>2, <2>4, <2>5
<1>3. ASSUME NEW n \in Nat, n \in S  PROVE n + 1 \in S
  <2>1. SUFFICES ASSUME n + 1 <= D  PROVE n + 1 \in S
    BY <1>1
  <2>2. n + 1 \in 1..D /\ (n + 1) - 1 = n /\ n <= D  BY <1>1, <2>1
  <2>3. after[n + 1] = after[n] \o Sorted(Ready(links, ToSet(after[n])))  BY <2>2, PlacedIs
  <2>4. /\ Lists(after[n]) /\ (Acyclic(links) => Follows(links, after[n]))
        /\ ToSet(after[n]) = Doctypes \/ Len(after[n]) >= n
    BY <1>3, <2>2
  <2> HIDE DEF after
  <2>5. /\ Lists(after[n + 1])
        /\ Acyclic(links) => Follows(links, after[n + 1])
        /\ ToSet(after[n]) = Doctypes => ToSet(after[n + 1]) = Doctypes
        /\ ToSet(after[n]) # Doctypes => Len(after[n + 1]) > Len(after[n])
    BY <2>3, <2>4, ARoundMore
  <2>6. Len(after[n]) \in Nat /\ Len(after[n + 1]) \in Nat  BY <2>4, <2>5 DEF Lists
  <2> QED  BY <2>4, <2>5, <2>6
<1> HIDE DEF S
<1>4. D \in S  BY <1>1, <1>2, <1>3, EveryNumber
<1> DEFINE order == ImportOrder(links)
<1>5. /\ Lists(order)
      /\ Acyclic(links) => Follows(links, order)
      /\ ToSet(order) = Doctypes \/ Len(order) >= D
  BY <1>1, <1>4 DEF S, ImportOrder
<1> HIDE DEF order
<1>6. ToSet(order) = {order[i] : i \in 1..Len(order)} /\ ToSet(order) \in SUBSET Doctypes
  <2>1. \A i \in 1..Len(order) : order[i] \in Doctypes  BY <1>5 DEF Lists
  <2> QED  BY <1>5, <2>1, ListedIn DEF Lists
<1>7. ToSet(order) = Doctypes /\ Len(order) = D
  <2>1. Cardinality(ToSet(order)) <= D /\ (Cardinality(ToSet(order)) = D => ToSet(order) = Doctypes)
    BY <1>6, DoctypesAreFew, FS_Subset
  <2>2. Len(order) \in Nat /\ Len(order) = Cardinality(ToSet(order))  BY <1>5 DEF Lists
  <2> QED  BY <1>1, <1>5, <2>1, <2>2, DoctypesAreFew
<1>8. \A d \in Doctypes : \E i \in 1..D : order[i] = d  BY <1>6, <1>7
<1>9. \A i, j \in 1..D : order[i] = order[j] => i = j
  <2>1. order \in [1..D -> Doctypes]  BY <1>5, <1>7 DEF Lists
  <2>2. order \in Surjection(1..D, Doctypes)  BY <1>8, <2>1 DEF Surjection
  <2>3. order \in Injection(1..D, Doctypes)
    BY <2>2, DoctypesAreFew, FS_SurjSameCardinalityImpliesInj DEF Doctypes
  <2> QED  BY <2>3 DEF Injection, IsInjective
<1> QED  BY <1>5, <1>7, <1>8, <1>9 DEF Enumerates, Lists, order

\* Where the links of an export go round in no circle, the order leaves for the
\* end only the links of a DocType to itself: everything is loaded after what
\* it has a link to (import_order.go:5).
THEOREM OrderIsTopological ==
  \A links : links \subseteq Doctypes \X Doctypes /\ Acyclic(links) =>
    Deferred(links, ImportOrder(links)) = {f \in links : f[1] = f[2]}
<1> SUFFICES ASSUME NEW links, links \subseteq Doctypes \X Doctypes, Acyclic(links),
                    NEW f \in links, f[1] # f[2],
                    NEW i \in Doctypes, NEW j \in Doctypes, i < j,
                    ImportOrder(links)[i] = f[1], ImportOrder(links)[j] = f[2]
             PROVE  FALSE
  BY DEF Deferred
<1> DEFINE order == ImportOrder(links)
<1>1. Enumerates(order) /\ Follows(links, order)  BY OrderEnumerates
<1>2. f = <<f[1], f[2]>> /\ f[2] \in Doctypes  OBVIOUS
<1>3. f[2] \in Deps(links, order[i])  BY <1>2 DEF Deps
<1> HIDE DEF order
<1>4. PICK k \in 1..(i - 1) : order[k] = f[2]
  <2>1. i \in 1..Len(order)  BY <1>1 DEF Enumerates, Doctypes
  <2>2. \A t \in Deps(links, order[i]) : \E k \in 1..(i - 1) : order[k] = t
    BY <1>1, <2>1 DEF Follows
  <2> QED  BY <1>3, <2>2
<1>5. k \in 1..D /\ k # j  BY <1>4, ImportAssumption DEF Doctypes
<1> QED  BY <1>1, <1>4, <1>5 DEF Enumerates, Doctypes, order

-----------------------------------------------------------------------------
(* The invariant.                                                          *)

Statuses == {"none", "running", "paused", "failed", "completed", "completed_with_errors"}
Cursors == [Doctypes -> 0..Length]
RunRows == [status: Statuses, cursor: Cursors, erred: BOOLEAN, unsaved: BOOLEAN, lost: BOOLEAN]
Counts == Nat \ {0}
Calls == [pc: {"idle", "batch", "look", "write", "commit", "save"}, run: Runs \cup {None},
          cursor: Cursors, erred: BOOLEAN, k: Counts, i: Counts, batches: Nat,
          careful: BOOLEAN, known: BOOLEAN, docs: SUBSET Lines, marks: SUBSET Lines,
          bad: BOOLEAN, status: Statuses]
Errors == [run: Runs, line: Lines, cause: {"duplicate", "invalid", "link"}]

PlanTypes ==
  /\ plan.links \subseteq Doctypes \X Doctypes
  /\ plan.deferred = Deferred(plan.links, plan.order)
  /\ Enumerates(plan.order)

Types ==
  /\ PlanTypes
  /\ site \in [Lines -> {"absent", "same", "differs"}]
  /\ inserted \in [Lines -> Nat]
  /\ ledger \subseteq Lines /\ touched \subseteq Lines /\ errors \subseteq Errors
  /\ DOMAIN run \subseteq Runs /\ run \in [DOMAIN run -> RunRows]
  /\ loader \in [DOMAIN loader -> Calls]
  /\ faults \in Nat

\* A line is behind its run when it is loaded, or the run has the reason.
Settled(r, x) == x \in ledger \/ \E e \in errors : e.run = r /\ e.line = x
Behind(r, cursor) == \A d \in Doctypes : \A n \in 1..cursor[d] : Settled(r, <<d, n>>)
Loaded(cursor) == \A d \in Doctypes : \A n \in 1..cursor[d] : <<d, n>> \in ledger

\* What a run's row says holds of the tables: its cursor has passed nothing
\* over and, unless errors were counted, or lost with the call that had counted
\* them, what the cursor has passed is loaded.
RunInv(r) ==
  /\ Behind(r, run[r].cursor)
  /\ ~run[r].lost /\ ~run[r].unsaved /\ ~run[r].erred => Loaded(run[r].cursor)
  /\ run[r].status = "completed" /\ ~run[r].lost => ledger = Lines

Working(c) == c.pc \in {"look", "write", "commit"}

\* The same of a call's memory, and of what its transaction has written: the
\* lines of the batch it has been through are marked, loaded before, or have
\* their reason.
CallInv(c) ==
  /\ c.pc # "idle" => /\ c.run \in DOMAIN run
                      /\ Behind(c.run, c.cursor)
                      /\ ~run[c.run].lost /\ ~c.erred => Loaded(c.cursor)
                      /\ \A j \in 1..D : j < c.k => c.cursor[plan.order[j]] = Length
  /\ c.pc = "save" /\ c.status = "completed" => c.k > D /\ ~c.erred
  /\ ~Working(c) => c.docs = {} /\ c.marks = {}
  /\ Working(c) =>
       /\ c.k <= D /\ FirstLine(c) <= Length
       /\ FirstLine(c) + c.i - 1 <= IF c.pc = "commit" THEN LastLine(c) + 1 ELSE LastLine(c)
       /\ c.pc = "commit" => FirstLine(c) + c.i - 1 > LastLine(c)
       /\ \A n \in 1..Length : FirstLine(c) <= n /\ n < FirstLine(c) + c.i - 1 =>
            /\ <<Stage(c), n>> \in c.marks \/ Settled(c.run, <<Stage(c), n>>)
            /\ ~c.bad => <<Stage(c), n>> \in c.marks \cup ledger
  /\ c.pc = "write" /\ c.known => site[Record(c)] # "absent" \/ Record(c) \in touched
  /\ c.docs \subseteq c.marks /\ c.marks \cap ledger = {}
  /\ \A x \in c.marks \ c.docs : site[x] # "absent" \/ x \in touched

\* No two transactions hold a key.
Apart == \A l, m \in DOMAIN loader : l # m => loader[l].marks \cap loader[m].marks = {}

\* What is in the ledger is on the site, unless a user took it away.
LedgerTold == \A x \in ledger : site[x] # "absent" \/ x \in touched

IInv ==
  /\ Types /\ Apart /\ LedgerTold /\ LoadedOnce /\ OrderServes
  /\ \A r \in DOMAIN run : RunInv(r)
  /\ \A l \in DOMAIN loader : CallInv(loader[l])

-----------------------------------------------------------------------------
(* Where a call is.                                                        *)

LEMMA Places ==
  ASSUME PlanTypes, NEW c \in Calls, c.k <= D
  PROVE  /\ Stage(c) \in Doctypes
         /\ c.cursor[Stage(c)] \in 0..Length /\ FirstLine(c) = c.cursor[Stage(c)] + 1
         /\ FirstLine(c) \in 1..(Length + 1)
         /\ LastLine(c) \in 1..Length
         /\ FirstLine(c) <= Length => FirstLine(c) <= LastLine(c)
<1>1. c.k \in 1..D  BY ImportAssumption DEF Calls, Counts
<1>2. Stage(c) \in Doctypes  BY <1>1 DEF PlanTypes, Enumerates, Stage
<1>3. c.cursor[Stage(c)] \in 0..Length  BY <1>2 DEF Calls, Cursors
<1>4. FirstLine(c) = c.cursor[Stage(c)] + 1  BY DEF FirstLine
<1> QED  BY <1>2, <1>3, <1>4, ImportAssumption DEF LastLine

LEMMA RecordIsLine ==
  ASSUME PlanTypes, NEW c \in Calls, CallInv(c), c.pc \in {"look", "write"}
  PROVE  /\ Record(c) \in Lines /\ Record(c) = <<Stage(c), FirstLine(c) + c.i - 1>>
         /\ FirstLine(c) + c.i - 1 \in 1..Length /\ FirstLine(c) + c.i - 1 <= LastLine(c)
<1>1. c.k <= D /\ FirstLine(c) + c.i - 1 <= LastLine(c)
  BY DEF CallInv, Working
<1>2. /\ Stage(c) \in Doctypes /\ FirstLine(c) \in 1..(Length + 1) /\ LastLine(c) \in 1..Length
  BY <1>1, Places
<1>3. c.i \in Nat \ {0}  BY DEF Calls, Counts
<1> QED  BY <1>1, <1>2, <1>3, ImportAssumption DEF Record, Lines

-----------------------------------------------------------------------------
(* What no step takes back.                                                *)

Grows ==
  /\ plan' = plan /\ DOMAIN run' = DOMAIN run /\ DOMAIN loader' = DOMAIN loader
  /\ ledger \subseteq ledger' /\ errors \subseteq errors' /\ touched \subseteq touched'
  /\ \A x \in Lines : site[x] # "absent" => site'[x] # "absent" \/ x \in touched'
  /\ \A r \in DOMAIN run : run[r].lost => run'[r].lost

LEMMA SettledGrows ==
  ASSUME Grows, NEW r, NEW x, Settled(r, x)  PROVE Settled(r, x)'
BY DEF Grows, Settled

LEMMA BehindGrows ==
  ASSUME Grows, NEW r, NEW cursor, Behind(r, cursor)  PROVE Behind(r, cursor)'
BY SettledGrows DEF Behind

LEMMA LoadedGrows ==
  ASSUME Grows, NEW cursor, Loaded(cursor)  PROVE Loaded(cursor)'
BY DEF Grows, Loaded

\* A call that does not move keeps what it knew, if none of its keys is taken.
LEMMA CallStays ==
  ASSUME Types, Grows, NEW l \in DOMAIN loader, loader'[l] = loader[l], CallInv(loader[l]),
         loader[l].marks \cap ledger' = {}
  PROVE  CallInv(loader[l])'
<1> DEFINE c == loader[l]
<1>1. c \in Calls /\ PlanTypes  BY DEF Types
<1>2. PICK d : d = c  OBVIOUS
<1>3. /\ Stage(d)' = Stage(d) /\ FirstLine(d)' = FirstLine(d) /\ LastLine(d)' = LastLine(d)
      /\ Record(d)' = Record(d)
  BY DEF Grows, Stage, FirstLine, LastLine, Record
<1>4. CASE c.pc = "idle"
  BY <1>2, <1>4 DEF CallInv, Working
<1>5. CASE c.pc # "idle"
  <2>1. /\ d.run \in DOMAIN run' /\ Behind(d.run, d.cursor)'
        /\ ~run'[d.run].lost /\ ~d.erred => Loaded(d.cursor)'
        /\ \A j \in 1..D : j < d.k => d.cursor[plan'.order[j]] = Length
    BY <1>2, <1>5, BehindGrows, LoadedGrows DEF CallInv, Grows
  <2>2. Working(d) =>
          \A n \in 1..Length : FirstLine(d) <= n /\ n < FirstLine(d) + d.i - 1 =>
            /\ <<Stage(d), n>> \in d.marks \/ Settled(d.run, <<Stage(d), n>>)'
            /\ ~d.bad => <<Stage(d), n>> \in d.marks \cup ledger'
    <3> SUFFICES ASSUME Working(d), NEW n \in 1..Length, FirstLine(d) <= n, n < FirstLine(d) + d.i - 1
                 PROVE  /\ <<Stage(d), n>> \in d.marks \/ Settled(d.run, <<Stage(d), n>>)'
                        /\ ~d.bad => <<Stage(d), n>> \in d.marks \cup ledger'
      OBVIOUS
    <3>1. CallInv(d)  BY <1>2
    <3>2. /\ <<Stage(d), n>> \in d.marks \/ Settled(d.run, <<Stage(d), n>>)
          /\ ~d.bad => <<Stage(d), n>> \in d.marks \cup ledger
      BY <3>1 DEF CallInv
    <3>3. <<Stage(d), n>> \in d.marks \/ Settled(d.run, <<Stage(d), n>>)'
      <4>1. PICK x : x = <<Stage(d), n>>  OBVIOUS
      <4>2. x \in d.marks \/ Settled(d.run, x)'  BY <3>2, <4>1, SettledGrows
      <4> QED  BY <1>3, <4>1, <4>2
    <3> QED  BY <3>2, <3>3 DEF Grows
  <2>3. d.pc = "write" /\ d.known => site'[Record(d)] # "absent" \/ Record(d) \in touched'
    BY <1>1, <1>2, RecordIsLine DEF CallInv, Grows
  <2>4. \A x \in d.marks \ d.docs : site'[x] # "absent" \/ x \in touched'
    BY <1>1, <1>2 DEF CallInv, Grows, Calls
  <2>5. CallInv(d)'
    BY <1>2, <1>3, <2>1, <2>2, <2>3, <2>4 DEF CallInv, Working
  <2> QED  BY <1>2, <2>5
<1> QED  BY <1>4, <1>5

\* What a step is to leave, but for the call that takes it.
Others(l) == \A m \in DOMAIN loader : m # l => CallInv(loader[m])'

\* A step that commits nothing leaves the others where they were.
LEMMA OthersStay ==
  ASSUME IInv, Grows, NEW l, UNCHANGED ledger, NEW c,
         loader' = [loader EXCEPT ![l] = c]
  PROVE  Others(l)
<1> SUFFICES ASSUME NEW m \in DOMAIN loader, m # l  PROVE CallInv(loader[m])'
  BY DEF Others
<1>1. loader'[m] = loader[m]  BY DEF IInv, Types
<1>2. CallInv(loader[m]) /\ loader[m].marks \cap ledger' = {}  BY DEF IInv, CallInv
<1> QED  BY <1>1, <1>2, CallStays DEF IInv

LEMMA TogetherTheyKeep ==
  ASSUME IInv, Grows, NEW l \in DOMAIN loader, Others(l), CallInv(loader[l])',
         Types', Apart', LedgerTold', LoadedOnce', OrderServes', \A r \in DOMAIN run : RunInv(r)'
  PROVE  IInv'
<1>1. \A m \in DOMAIN loader : CallInv(loader[m])'  BY DEF Others
<1> QED  BY <1>1 DEF IInv, Grows

\* A step that touches the memory of one call only.
LEMMA MemoryKeeps ==
  ASSUME IInv, NEW l \in DOMAIN loader, NEW c \in Calls, loader' = [loader EXCEPT ![l] = c],
         UNCHANGED <<plan, site, ledger, errors, inserted, touched>>, faults' \in Nat,
         DOMAIN run' = DOMAIN run, run' \in [DOMAIN run -> RunRows],
         \A r \in DOMAIN run : RunInv(r)' /\ (run[r].lost => run'[r].lost),
         c.marks \subseteq loader[l].marks, CallInv(loader[l])'
  PROVE  IInv'
<1>1. loader \in [DOMAIN loader -> Calls]  BY DEF IInv, Types
<1>2. DOMAIN loader' = DOMAIN loader /\ loader'[l] = c /\ \A m \in DOMAIN loader \ {l} : loader'[m] = loader[m]
  BY <1>1
<1>3. Grows  BY <1>2 DEF Grows
<1>4. Others(l)  BY <1>3, OthersStay
<1>5. Types'  BY <1>1, <1>2 DEF IInv, Types, PlanTypes
<1>6. Apart'  BY <1>2 DEF IInv, Apart
<1>7. LedgerTold' /\ LoadedOnce' /\ OrderServes'
  BY DEF IInv, LedgerTold, LoadedOnce, OrderServes
<1> QED  BY <1>3, <1>4, <1>5, <1>6, <1>7, TogetherTheyKeep

LEMMA RunStays ==
  ASSUME IInv, Grows, NEW r \in DOMAIN run, run'[r] = run[r], ledger' \subseteq Lines
  PROVE  RunInv(r)'
<1>1. RunInv(r)  BY DEF IInv
<1>2. PICK c : c = run[r].cursor  OBVIOUS
<1>3. Behind(r, c)'  BY <1>1, <1>2, BehindGrows DEF RunInv
<1>4. ~run[r].lost /\ ~run[r].unsaved /\ ~run[r].erred => Loaded(c)'
  BY <1>1, <1>2, LoadedGrows DEF RunInv
<1>5. ledger = Lines => ledger' = Lines  BY DEF Grows
<1> QED  BY <1>1, <1>2, <1>3, <1>4, <1>5 DEF RunInv

LEMMA IdleIsACall == Idle \in Calls /\ [d \in Doctypes |-> 0] \in Cursors /\ NoRun \in RunRows
BY ImportAssumption DEF Idle, NoRun, Calls, RunRows, Statuses, Cursors, Lines, Counts

LEMMA NothingBehind == \A r : Behind(r, [d \in Doctypes |-> 0]) /\ Loaded([d \in Doctypes |-> 0])
BY DEF Behind, Loaded

LEMMA InitIInv == Init => IInv
<1> SUFFICES ASSUME Init  PROVE IInv
  OBVIOUS
<1>1. PICK export \in Exports :
        /\ plan = [links |-> export.links, bad |-> export.bad, order |-> ImportOrder(export.links),
                   deferred |-> Deferred(export.links, ImportOrder(export.links))]
        /\ run = [r \in export.runs |-> NoRun]
        /\ loader = [l \in export.loaders |-> Idle]
        /\ site = [x \in Lines |-> IF x \in export.present THEN "same" ELSE "absent"]
  BY DEF Init
<1>2. export.links \subseteq Doctypes \X Doctypes /\ export.runs \subseteq Runs
  BY ImportAssumption
<1>3. PlanTypes
  BY <1>1, <1>2, OrderEnumerates DEF PlanTypes
<1>4. Types
  BY <1>1, <1>2, <1>3, IdleIsACall DEF Types, Init
<1>5. \A r \in DOMAIN run : RunInv(r)
  BY <1>1, NothingBehind DEF RunInv, NoRun
<1>6. \A l \in DOMAIN loader : CallInv(loader[l])
  BY <1>1 DEF CallInv, Idle, Working
<1>7. Apart  BY <1>1 DEF Apart, Idle
<1>8. LedgerTold /\ LoadedOnce /\ OrderServes
  BY DEF Init, LedgerTold, LoadedOnce, OrderServes
<1> QED  BY <1>4, <1>5, <1>6, <1>7, <1>8 DEF IInv

-----------------------------------------------------------------------------
(* The steps that only a call's memory, or a run's row, takes part in.     *)

\* A new call, with what it read of its run.
LEMMA NewCallKeeps ==
  ASSUME IInv, NEW l \in DOMAIN loader, NEW c \in Calls, c.run \in DOMAIN run,
         c.pc = "batch", c.k = 1, c.docs = {}, c.marks = {},
         Behind(c.run, c.cursor), ~run'[c.run].lost /\ ~c.erred => Loaded(c.cursor),
         loader' = [loader EXCEPT ![l] = c],
         UNCHANGED <<plan, site, ledger, errors, inserted, touched, faults>>,
         DOMAIN run' = DOMAIN run, run' \in [DOMAIN run -> RunRows],
         \A q \in DOMAIN run : RunInv(q)' /\ (run[q].lost => run'[q].lost)
  PROVE  IInv'
<1>1. loader'[l] = c  BY DEF IInv, Types
<1>2. Behind(c.run, c.cursor)' /\ (~run'[c.run].lost /\ ~c.erred => Loaded(c.cursor)')
  BY DEF Behind, Loaded, Settled
<1>3. CallInv(c)'  BY <1>2 DEF CallInv, Working
<1>4. CallInv(loader[l])'  BY <1>1, <1>3
<1>5. c.marks \subseteq loader[l].marks /\ faults' \in Nat  BY DEF IInv, Types
<1> QED  BY <1>4, <1>5, MemoryKeeps

LEMMA BeginKeeps ==
  ASSUME IInv, NEW l \in DOMAIN loader, NEW r \in DOMAIN run, Begin(l, r)
  PROVE  IInv'
<1> DEFINE zero == [d \in Doctypes |-> 0]
<1>1. run \in [DOMAIN run -> RunRows]  BY DEF IInv, Types
<1>2. run' = [run EXCEPT ![r].status = "running"]  BY DEF Begin
<1>3. DOMAIN run' = DOMAIN run /\ run' \in [DOMAIN run -> RunRows]
  BY <1>1, <1>2 DEF RunRows, Statuses
<1>4. \A q \in DOMAIN run : RunInv(q)' /\ (run[q].lost => run'[q].lost)
  <2> TAKE q \in DOMAIN run
  <2>1. RunInv(q)  BY DEF IInv
  <2>2. /\ run'[q].cursor = run[q].cursor /\ run'[q].lost = run[q].lost /\ run'[q].unsaved = run[q].unsaved
        /\ run'[q].erred = run[q].erred
        /\ run'[q].status = "completed" => run[q].status = "completed"
    BY <1>1, <1>2 DEF RunRows
  <2>3. UNCHANGED <<ledger, errors>>  BY DEF Begin
  <2> QED  BY <2>1, <2>2, <2>3 DEF RunInv, Behind, Loaded, Settled
<1> DEFINE c == [Idle EXCEPT !.pc = "batch", !.run = r]
<1>5. /\ c \in Calls /\ c.run = r /\ c.pc = "batch" /\ c.k = 1 /\ c.docs = {} /\ c.marks = {}
      /\ c.cursor = zero
  <2>1. r \in Runs  BY DEF IInv, Types
  <2>2. c \in Calls  BY <2>1, IdleIsACall DEF Calls
  <2> QED  BY <2>2 DEF Idle
<1>6. Behind(r, zero) /\ Loaded(zero)  BY NothingBehind
<1>7. /\ loader' = [loader EXCEPT ![l] = c]
      /\ UNCHANGED <<plan, site, ledger, errors, inserted, touched, faults>>
  BY DEF Begin, Set
<1> HIDE DEF zero, c
<1> QED  BY <1>3, <1>4, <1>5, <1>6, <1>7, NewCallKeeps

LEMMA ResumeKeeps ==
  ASSUME IInv, NEW l \in DOMAIN loader, NEW r \in DOMAIN run, openImportRun(l, r)
  PROVE  IInv'
<1>1. run \in [DOMAIN run -> RunRows]  BY DEF IInv, Types
<1>2. run' = [run EXCEPT ![r].lost = @ \/ run[r].unsaved]  BY DEF openImportRun
<1>3. DOMAIN run' = DOMAIN run /\ run' \in [DOMAIN run -> RunRows]
  BY <1>1, <1>2 DEF RunRows
<1>4. UNCHANGED <<plan, site, ledger, errors, inserted, touched, faults>>  BY DEF openImportRun
<1>5. \A q \in DOMAIN run : RunInv(q)' /\ (run[q].lost => run'[q].lost)
  <2> TAKE q \in DOMAIN run
  <2>1. RunInv(q)  BY DEF IInv
  <2>2. /\ run'[q].cursor = run[q].cursor /\ run'[q].unsaved = run[q].unsaved
        /\ run'[q].erred = run[q].erred /\ run'[q].status = run[q].status
        /\ run[q].lost => run'[q].lost
    BY <1>1, <1>2 DEF RunRows
  <2> QED  BY <1>4, <2>1, <2>2 DEF RunInv, Behind, Loaded, Settled
<1>6. run[r].cursor \in Cursors /\ run[r].erred \in BOOLEAN  BY <1>1 DEF RunRows
<1>7. RunInv(r)  BY DEF IInv
<1>8. run'[r].lost <=> run[r].lost \/ run[r].unsaved  BY <1>1, <1>2 DEF RunRows
<1>9. Behind(r, run[r].cursor) /\ (~run'[r].lost /\ ~run[r].erred => Loaded(run[r].cursor))
  BY <1>7, <1>8 DEF RunInv
<1> DEFINE c == [Idle EXCEPT !.pc = "batch", !.run = r, !.cursor = run[r].cursor, !.erred = run[r].erred]
<1>10. /\ c \in Calls /\ c.run = r /\ c.pc = "batch" /\ c.k = 1 /\ c.docs = {} /\ c.marks = {}
       /\ c.cursor = run[r].cursor /\ c.erred = run[r].erred
  <2>1. r \in Runs  BY DEF IInv, Types
  <2>2. c \in Calls  BY <1>6, <2>1, IdleIsACall DEF Calls
  <2> QED  BY <2>2 DEF Idle
<1>11. loader' = [loader EXCEPT ![l] = c]  BY DEF openImportRun, Set
<1> HIDE DEF c
<1> QED  BY <1>3, <1>4, <1>5, <1>9, <1>10, <1>11, NewCallKeeps

LEMMA BatchKeeps ==
  ASSUME IInv, NEW l \in DOMAIN loader, importBatch(l)
  PROVE  IInv'
<1> DEFINE c == loader[l]
<1>1. c \in Calls /\ CallInv(c) /\ PlanTypes /\ c.pc = "batch"
  BY DEF IInv, Types, importBatch
<1>2. UNCHANGED <<plan, site, ledger, errors, run, inserted, touched, faults>>  BY DEF importBatch
<1>3. D \in Nat /\ MaxBatches \in Nat /\ Length \in Nat  BY ImportAssumption
<1>4. \A r \in DOMAIN run : RunInv(r)'
  BY <1>2 DEF IInv, RunInv, Behind, Loaded, Settled
<1>5. ASSUME NEW d \in Calls, loader' = [loader EXCEPT ![l] = d],
             d.run = c.run, d.cursor = c.cursor, d.erred = c.erred, d.docs = c.docs, d.marks = c.marks,
             d.pc # "idle" /\ d.pc # "write" /\ d.pc # "commit",
             d.k = c.k \/ (d.k = c.k + 1 /\ c.cursor[Stage(c)] = Length),
             d.pc = "save" /\ d.status = "completed" => d.k > D /\ ~d.erred,
             d.pc = "look" => d.k = c.k /\ c.k <= D /\ FirstLine(c) <= Length /\ d.i = 1
      PROVE  IInv'
  <2>1. loader'[l] = d  BY <1>5 DEF IInv, Types
  <2>2. c.docs = {} /\ c.marks = {}  BY <1>1 DEF CallInv, Working
  <2>3. /\ d.run \in DOMAIN run' /\ Behind(d.run, d.cursor)'
        /\ ~run'[d.run].lost /\ ~d.erred => Loaded(d.cursor)'
    BY <1>1, <1>2, <1>5, ZenonT(60) DEF CallInv, Behind, Loaded, Settled
  <2>4. \A j \in 1..D : j < d.k => d.cursor[plan'.order[j]] = Length
    <3>1. \A j \in 1..D : j < c.k => c.cursor[plan.order[j]] = Length  BY <1>1 DEF CallInv
    <3>2. c.k \in Nat  BY <1>1 DEF Calls, Counts
    <3> QED  BY <1>2, <1>5, <3>1, <3>2 DEF Stage
  <2>5. Working(d) =>
          /\ d.k <= D /\ FirstLine(d)' <= Length
          /\ FirstLine(d)' + d.i - 1 <= LastLine(d)'
          /\ \A n \in 1..Length : ~(FirstLine(d)' <= n /\ n < FirstLine(d)' + d.i - 1)
    <3> SUFFICES ASSUME Working(d)
                 PROVE  /\ d.k <= D /\ FirstLine(d)' <= Length
                        /\ FirstLine(d)' + d.i - 1 <= LastLine(d)'
                        /\ \A n \in 1..Length : ~(FirstLine(d)' <= n /\ n < FirstLine(d)' + d.i - 1)
      OBVIOUS
    <3>1. d.pc = "look"  BY <1>5 DEF Working
    <3>2. FirstLine(d)' = FirstLine(c) /\ LastLine(d)' = LastLine(c)
      BY <1>2, <1>5, <3>1 DEF FirstLine, LastLine, Stage
    <3>3. FirstLine(c) \in 1..(Length + 1) /\ FirstLine(c) <= LastLine(c) /\ LastLine(c) \in 1..Length
      BY <1>1, <1>5, <3>1, Places
    <3> QED  BY <1>3, <1>5, <3>1, <3>2, <3>3
  <2>6. CallInv(d)'
    BY <1>2, <1>5, <2>2, <2>3, <2>4, <2>5 DEF CallInv, Working
  <2>7. CallInv(loader[l])'  BY <2>1, <2>6
  <2>8. faults' \in Nat /\ run \in [DOMAIN run -> RunRows]  BY <1>2 DEF IInv, Types
  <2>9. UNCHANGED <<plan, site, ledger, errors, inserted, touched>>
        /\ DOMAIN run' = DOMAIN run /\ run' \in [DOMAIN run -> RunRows]
        /\ \A r \in DOMAIN run : RunInv(r)' /\ (run[r].lost => run'[r].lost)
    BY <1>2, <1>4, <2>8
  <2>10. d.marks \subseteq loader[l].marks  BY <1>5
  <2> HIDE DEF c
  <2> QED  BY <1>5, <2>7, <2>8, <2>9, <2>10, MemoryKeeps
<1>6. CASE c.k > D
  <2> DEFINE d == [c EXCEPT !.pc = "save", !.status = IF c.erred \/ ~verifyDeferredLinks
                                                        THEN "completed_with_errors" ELSE "completed"]
  <2>1. d \in Calls  BY <1>1 DEF Calls, Statuses
  <2>2. /\ d.run = c.run /\ d.cursor = c.cursor /\ d.erred = c.erred /\ d.docs = c.docs /\ d.marks = c.marks
        /\ d.pc = "save" /\ d.k = c.k /\ (d.status = "completed" => ~d.erred)
    BY <1>1 DEF Calls
  <2>3. ~(c.k <= D) /\ ~(c.k <= D /\ FirstLine(c) > Length)  BY <1>1, <1>3, <1>6 DEF Calls, Counts
  <2>4. loader' = [loader EXCEPT ![l] = d]  BY <1>6, <2>3 DEF importBatch, Set
  <2> HIDE DEF d, c
  <2> QED  BY <1>5, <1>6, <2>1, <2>2, <2>4
<1>7. CASE c.k <= D /\ MaxBatches > 0 /\ c.batches >= MaxBatches
  <2> DEFINE d == [c EXCEPT !.pc = "save", !.status = "paused"]
  <2>1. d \in Calls  BY <1>1 DEF Calls, Statuses
  <2>2. /\ d.run = c.run /\ d.cursor = c.cursor /\ d.erred = c.erred /\ d.docs = c.docs /\ d.marks = c.marks
        /\ d.pc = "save" /\ d.k = c.k /\ d.status = "paused"
    BY <1>1 DEF Calls
  <2>3. ~(c.k > D) /\ ~(MaxBatches > 0 => c.batches < MaxBatches)  BY <1>1, <1>3, <1>7 DEF Calls, Counts
  <2>4. loader' = [loader EXCEPT ![l] = d]  BY <1>7, <2>3 DEF importBatch, Set
  <2> HIDE DEF d, c
  <2> QED  BY <1>5, <2>1, <2>2, <2>4
<1>8. CASE c.k <= D /\ (MaxBatches > 0 => c.batches < MaxBatches) /\ FirstLine(c) > Length
  <2> DEFINE d == [c EXCEPT !.k = @ + 1, !.batches = IF MaxBatches > 0 THEN @ + 1 ELSE 0]
  <2>1. d \in Calls
    <3>1. PICK e \in Calls : e = c  BY <1>1
    <3>3. e.k + 1 \in Counts /\ (IF MaxBatches > 0 THEN e.batches + 1 ELSE 0) \in Nat  BY DEF Calls, Counts
    <3>2. [e EXCEPT !.k = @ + 1, !.batches = IF MaxBatches > 0 THEN @ + 1 ELSE 0] \in Calls
      BY <3>3 DEF Calls
    <3> QED  BY <3>1, <3>2
  <2>2. /\ d.run = c.run /\ d.cursor = c.cursor /\ d.erred = c.erred /\ d.docs = c.docs /\ d.marks = c.marks
        /\ d.pc = "batch" /\ d.k = c.k + 1
    BY <1>1 DEF Calls
  <2>3. ~(c.k > D) /\ ~(MaxBatches > 0 /\ c.batches >= MaxBatches)  BY <1>1, <1>3, <1>8 DEF Calls, Counts
  <2>4. loader' = [loader EXCEPT ![l] = d]  BY <1>8, <2>3 DEF importBatch, Set
  <2>5. c.cursor[Stage(c)] = Length  BY <1>1, <1>3, <1>8, Places
  <2> HIDE DEF d, c
  <2> QED  BY <1>5, <2>1, <2>2, <2>4, <2>5
<1>9. CASE c.k <= D /\ (MaxBatches > 0 => c.batches < MaxBatches) /\ ~(FirstLine(c) > Length)
  <2> DEFINE d == [c EXCEPT !.pc = "look", !.i = 1, !.careful = FALSE]
  <2>1. d \in Calls
    <3>1. PICK e \in Calls : e = c  BY <1>1
    <3>3. 1 \in Counts  BY DEF Counts
    <3>2. [e EXCEPT !.pc = "look", !.i = 1, !.careful = FALSE] \in Calls
      BY <3>3 DEF Calls
    <3> QED  BY <3>1, <3>2
  <2>2. /\ d.run = c.run /\ d.cursor = c.cursor /\ d.erred = c.erred /\ d.docs = c.docs /\ d.marks = c.marks
        /\ d.pc = "look" /\ d.k = c.k /\ d.i = 1
    BY <1>1 DEF Calls
  <2>3. ~(c.k > D) /\ ~(MaxBatches > 0 /\ c.batches >= MaxBatches)  BY <1>1, <1>3, <1>9 DEF Calls, Counts
  <2>4. loader' = [loader EXCEPT ![l] = d]  BY <1>9, <2>3 DEF importBatch, Set
  <2>5. FirstLine(c) <= Length  BY <1>1, <1>3, <1>9, Places
  <2> HIDE DEF d, c
  <2> QED  BY <1>5, <1>9, <2>1, <2>2, <2>4, <2>5
<1>10. \/ c.k > D
       \/ c.k <= D /\ MaxBatches > 0 /\ c.batches >= MaxBatches
       \/ c.k <= D /\ (MaxBatches > 0 => c.batches < MaxBatches)
  BY <1>1, <1>3 DEF Calls, Counts
<1> QED  BY <1>6, <1>7, <1>8, <1>9, <1>10

LEMMA SaveKeeps ==
  ASSUME IInv, NEW l \in DOMAIN loader, saveImportRun(l)
  PROVE  IInv'
<1> DEFINE c == loader[l]
           row == run'[c.run]
<1>1. c \in Calls /\ CallInv(c) /\ PlanTypes /\ c.pc = "save" /\ c.run \in DOMAIN run
  BY DEF IInv, Types, saveImportRun, CallInv
<1>2. UNCHANGED <<plan, site, ledger, errors, inserted, touched, faults>>  BY DEF saveImportRun
<1>3. run \in [DOMAIN run -> RunRows]  BY DEF IInv, Types
<1>4. run' = [run EXCEPT ![c.run] = [run[c.run] EXCEPT !.status = c.status, !.cursor = c.cursor,
                                       !.erred = c.erred, !.unsaved = FALSE]]
  BY <1>1, <1>3 DEF saveImportRun
<1>5. /\ DOMAIN run' = DOMAIN run /\ run' \in [DOMAIN run -> RunRows]
      /\ \A r \in DOMAIN run : r # c.run => run'[r] = run[r]
      /\ row.status = c.status /\ row.cursor = c.cursor /\ row.erred = c.erred /\ row.lost = run[c.run].lost
  <2>1. c.status \in Statuses /\ c.cursor \in Cursors /\ c.erred \in BOOLEAN  BY <1>1 DEF Calls
  <2> DEFINE new == [run[c.run] EXCEPT !.status = c.status, !.cursor = c.cursor,
                                       !.erred = c.erred, !.unsaved = FALSE]
  <2>2. /\ new \in RunRows /\ new.status = c.status /\ new.cursor = c.cursor
        /\ new.erred = c.erred /\ new.lost = run[c.run].lost
    BY <1>1, <1>3, <2>1, ZenonT(60) DEF RunRows
  <2>3. run' = [run EXCEPT ![c.run] = new]  BY <1>4
  <2> HIDE DEF new, c
  <2> QED  BY <1>1, <1>3, <2>2, <2>3
<1>6. Idle \in Calls /\ loader' = [loader EXCEPT ![l] = Idle] /\ loader'[l] = Idle
  BY IdleIsACall DEF saveImportRun, Set, IInv, Types
<1>7. ASSUME c.status = "completed", Loaded(c.cursor)  PROVE ledger = Lines
  <2>1. c.k > D /\ \A j \in 1..D : j < c.k => c.cursor[plan.order[j]] = Length  BY <1>1, <1>7 DEF CallInv
  <2>2. \A d \in Doctypes : c.cursor[d] = Length
    <3> TAKE d \in Doctypes
    <3>1. PICK j \in 1..D : plan.order[j] = d  BY <1>1 DEF PlanTypes, Enumerates
    <3>2. j < c.k  BY <1>1, <2>1, ImportAssumption DEF Calls, Counts
    <3> QED  BY <2>1, <3>1, <3>2
  <2>3. \A d \in Doctypes, n \in 1..Length : <<d, n>> \in ledger  BY <1>7, <2>2 DEF Loaded
  <2> QED  BY <2>3 DEF Lines, IInv, Types
<1>8. ASSUME NEW r \in DOMAIN run  PROVE RunInv(r)' /\ (run[r].lost => run'[r].lost)
  <2>1. CASE r = c.run
    <3>1. Behind(r, c.cursor) /\ (~run[r].lost /\ ~c.erred => Loaded(c.cursor))
      BY <1>1, <2>1 DEF CallInv
    <3>2. c.status = "completed" => ~c.erred  BY <1>1 DEF CallInv
    <3>3. row.status = "completed" /\ ~row.lost => ledger = Lines
      BY <1>5, <1>7, <2>1, <3>1, <3>2
    <3> QED  BY <1>2, <1>5, <2>1, <3>1, <3>3 DEF RunInv, Behind, Loaded, Settled
  <2>2. CASE r # c.run
    <3>1. RunInv(r) /\ run'[r] = run[r]  BY <1>5, <2>2 DEF IInv
    <3> QED  BY <1>2, <3>1 DEF RunInv, Behind, Loaded, Settled
  <2> QED  BY <2>1, <2>2
<1>9. CallInv(loader[l])'  BY <1>6 DEF CallInv, Working, Idle
<1>10. Idle.marks \subseteq loader[l].marks /\ faults' \in Nat  BY <1>2 DEF Idle, IInv, Types
<1> QED  BY <1>2, <1>5, <1>6, <1>8, <1>9, <1>10, MemoryKeeps

LEMMA StopKeeps ==
  ASSUME IInv, NEW l \in DOMAIN loader, Stop(l)
  PROVE  IInv'
<1>1. UNCHANGED <<plan, site, ledger, errors, run, inserted, touched>> /\ faults' \in Nat
  BY DEF Stop, Fault, IInv, Types
<1>2. Idle \in Calls /\ loader' = [loader EXCEPT ![l] = Idle] /\ loader'[l] = Idle
  BY IdleIsACall DEF Stop, Set, IInv, Types
<1>3. run \in [DOMAIN run -> RunRows]  BY DEF IInv, Types
<1>4. \A r \in DOMAIN run : RunInv(r)'
  BY <1>1 DEF IInv, RunInv, Behind, Loaded, Settled
<1>5. CallInv(loader[l])'  BY <1>2 DEF CallInv, Working, Idle
<1>6. Idle.marks \subseteq loader[l].marks  BY DEF Idle
<1> QED  BY <1>1, <1>2, <1>3, <1>4, <1>5, <1>6, MemoryKeeps

-----------------------------------------------------------------------------
(* The steps of a transaction.                                             *)

\* The call is through with a record: it has marked it, found it in the ledger
\* or left the reason.
LEMMA ThroughRecord ==
  ASSUME IInv, NEW l \in DOMAIN loader, NEW c, c = loader[l], c.pc \in {"look", "write"}, NEW d \in Calls,
         UNCHANGED <<plan, site, ledger, run, touched>>, Grows,
         d.pc = (IF FirstLine(c) + c.i - 1 = LastLine(c) THEN "commit" ELSE "look"),
         d.run = c.run, d.cursor = c.cursor, d.erred = c.erred, d.k = c.k, d.i = c.i + 1,
         d.docs \subseteq d.marks, c.marks \subseteq d.marks, d.marks \subseteq c.marks \cup {Record(c)},
         c.docs \subseteq d.docs,
         Record(c) \in d.marks \ c.marks =>
           /\ Record(c) \notin ledger
           /\ Record(c) \in d.docs \/ site[Record(c)] # "absent" \/ Record(c) \in touched,
         Record(c) \in d.marks \/ Settled(c.run, Record(c))',
         ~d.bad => ~c.bad /\ Record(c) \in d.marks \cup ledger
  PROVE  CallInv(d)'
<1>1. c \in Calls /\ PlanTypes /\ CallInv(c)  BY DEF IInv, Types
<1>2. /\ Record(c) \in Lines /\ Record(c) = <<Stage(c), FirstLine(c) + c.i - 1>>
      /\ FirstLine(c) + c.i - 1 \in 1..Length /\ FirstLine(c) + c.i - 1 <= LastLine(c)
  BY <1>1, RecordIsLine
<1>3. /\ Stage(d)' = Stage(c) /\ FirstLine(d)' = FirstLine(c) /\ LastLine(d)' = LastLine(c)
  BY DEF Stage, FirstLine, LastLine
<1>4. /\ Stage(c) \in Doctypes /\ FirstLine(c) \in 1..(Length + 1) /\ LastLine(c) \in 1..Length
      /\ c.k <= D /\ FirstLine(c) <= Length /\ c.i \in Nat
  BY <1>1, Places DEF CallInv, Working, Calls, Counts
<1>6. /\ d.run \in DOMAIN run' /\ Behind(d.run, d.cursor)'
      /\ ~run'[d.run].lost /\ ~d.erred => Loaded(d.cursor)'
      /\ \A j \in 1..D : j < d.k => d.cursor[plan'.order[j]] = Length
  BY <1>1, BehindGrows, LoadedGrows DEF CallInv
<1>7. FirstLine(c) + d.i - 1 <= IF d.pc = "commit" THEN LastLine(c) + 1 ELSE LastLine(c)
  BY <1>2, <1>4
<1>8. d.pc = "commit" => FirstLine(c) + d.i - 1 > LastLine(c)
  BY <1>2, <1>4
<1>9. ASSUME NEW n \in 1..Length, FirstLine(c) <= n, n < FirstLine(c) + d.i - 1
      PROVE  /\ <<Stage(c), n>> \in d.marks \/ Settled(d.run, <<Stage(c), n>>)'
             /\ ~d.bad => <<Stage(c), n>> \in d.marks \cup ledger'
  <2>1. PICK x : x = <<Stage(c), n>>  OBVIOUS
  <2>2. CASE n = FirstLine(c) + c.i - 1
    <3>1. x = Record(c)  BY <1>2, <2>1, <2>2
    <3>2. PICK q : q = Record(c)  OBVIOUS
    <3>3. Record(c)' = Record(c)  BY DEF Record, Stage, FirstLine
    <3>4. Stage(c)' = Stage(c)  BY DEF Stage
    <3> QED  BY <2>1, <3>1, <3>2, <3>3, <3>4
  <2>3. CASE n # FirstLine(c) + c.i - 1
    <3>1. n < FirstLine(c) + c.i - 1  BY <1>2, <1>4, <1>9, <2>3
    <3>2. /\ x \in c.marks \/ Settled(c.run, x)
          /\ ~c.bad => x \in c.marks \cup ledger
      BY <1>1, <1>9, <2>1, <3>1 DEF CallInv, Working
    <3>3. x \in d.marks \/ Settled(d.run, x)'  BY <3>2, SettledGrows
    <3>4. Stage(c)' = Stage(c)  BY DEF Stage
    <3> QED  BY <2>1, <3>2, <3>3, <3>4
  <2> QED  BY <2>2, <2>3
<1>10. d.marks \cap ledger' = {} /\ \A x \in d.marks \ d.docs : site'[x] # "absent" \/ x \in touched'
  BY <1>1 DEF CallInv
<1>11. d.pc \in {"look", "commit"}  OBVIOUS
<1>12. Stage(c)' = Stage(c)  BY DEF Stage
<1> QED  BY <1>3, <1>4, <1>6, <1>7, <1>8, <1>9, <1>10, <1>11, <1>12 DEF CallInv, Working

\* A step that writes nothing that others can see but reasons.
LEMMA QuietKeeps ==
  ASSUME IInv, NEW l \in DOMAIN loader, NEW d \in Calls, loader' = [loader EXCEPT ![l] = d],
         UNCHANGED <<plan, site, ledger, run, inserted, touched>>, faults' \in Nat,
         errors \subseteq errors', errors' \subseteq Errors,
         \A m \in DOMAIN loader \ {l} : d.marks \cap loader[m].marks = {},
         CallInv(loader[l])', OrderServes'
  PROVE  IInv'
<1>1. loader \in [DOMAIN loader -> Calls]  BY DEF IInv, Types
<1>2. DOMAIN loader' = DOMAIN loader /\ loader'[l] = d /\ \A m \in DOMAIN loader \ {l} : loader'[m] = loader[m]
  BY <1>1
<1>3. Grows  BY <1>2 DEF Grows
<1>4. Others(l)  BY <1>3, OthersStay
<1>5. Types'  BY <1>1, <1>2 DEF IInv, Types, PlanTypes
<1>6. Apart'  BY <1>2 DEF IInv, Apart
<1>7. LedgerTold' /\ LoadedOnce'
  BY DEF IInv, LedgerTold, LoadedOnce
<1>8. \A r \in DOMAIN run : RunInv(r)'  BY <1>3, RunStays DEF IInv, Types
<1> QED  BY <1>3, <1>4, <1>5, <1>6, <1>7, <1>8, TogetherTheyKeep

LEMMA RolledIsACall ==
  ASSUME NEW c \in Calls
  PROVE  /\ Rolled(c) \in Calls
         /\ Rolled(c).run = c.run /\ Rolled(c).cursor = c.cursor /\ Rolled(c).erred = c.erred /\ Rolled(c).k = c.k
         /\ Rolled(c).docs = {} /\ Rolled(c).marks = {}
         /\ \/ Rolled(c).pc = "save" /\ Rolled(c).status = "failed"
            \/ Rolled(c).pc = "look" /\ Rolled(c).i = 1
<1>1. 1 \in Counts  BY DEF Counts
<1> QED  BY <1>1, ZenonT(60) DEF Rolled, Calls, Statuses

\* A batch is replayed from its first line, or its call ends.
LEMMA RolledFine ==
  ASSUME Types, NEW l \in DOMAIN loader, CallInv(loader[l]), Working(loader[l]), Grows,
         loader'[l] = Rolled(loader[l])
  PROVE  CallInv(loader[l])'
<1>1. PICK c \in Calls : c = loader[l]  BY DEF Types
<1>2. PICK d \in Calls : d = Rolled(c)  BY RolledIsACall
<1>3. /\ d.run = c.run /\ d.cursor = c.cursor /\ d.erred = c.erred /\ d.k = c.k
      /\ d.docs = {} /\ d.marks = {}
      /\ (d.pc = "save" /\ d.status = "failed") \/ (d.pc = "look" /\ d.i = 1)
  BY <1>2, RolledIsACall
<1>4. CallInv(c) /\ Working(c) /\ c.pc # "idle" /\ PlanTypes  BY <1>1 DEF Working, Types
<1>5. /\ d.run \in DOMAIN run' /\ Behind(d.run, d.cursor)'
      /\ ~run'[d.run].lost /\ ~d.erred => Loaded(d.cursor)'
      /\ \A j \in 1..D : j < d.k => d.cursor[plan'.order[j]] = Length
  BY <1>3, <1>4, BehindGrows, LoadedGrows DEF CallInv, Grows
<1>6. FirstLine(d)' = FirstLine(c) /\ LastLine(d)' = LastLine(c)
  BY <1>3 DEF FirstLine, LastLine, Stage, Grows
<1>7. /\ c.k <= D /\ FirstLine(c) <= Length /\ FirstLine(c) \in 1..(Length + 1)
      /\ FirstLine(c) <= LastLine(c) /\ LastLine(c) \in 1..Length
  BY <1>4, Places DEF CallInv
<1>8. Working(d) =>
        /\ d.k <= D /\ FirstLine(d)' <= Length /\ FirstLine(d)' + d.i - 1 <= LastLine(d)'
        /\ \A n \in 1..Length : ~(FirstLine(d)' <= n /\ n < FirstLine(d)' + d.i - 1)
  BY <1>3, <1>6, <1>7, ImportAssumption DEF Working
<1>9. CallInv(d)'
  BY <1>3, <1>5, <1>8 DEF CallInv, Working
<1> QED  BY <1>1, <1>2, <1>9

\* What a call has after a record but for what it has written.
Next1Of(c, d) ==
  /\ d.pc = (IF FirstLine(c) + c.i - 1 = LastLine(c) THEN "commit" ELSE "look")
  /\ d.run = c.run /\ d.cursor = c.cursor /\ d.erred = c.erred /\ d.k = c.k /\ d.i = c.i + 1

LEMMA Next1IsACall ==
  ASSUME NEW c \in Calls
  PROVE  /\ Next1(c) \in Calls /\ Next1Of(c, Next1(c))
         /\ Next1(c).bad = c.bad /\ Next1(c).docs = c.docs /\ Next1(c).marks = c.marks
<1>1. c.i + 1 \in Counts  BY DEF Calls, Counts
<1>2. (IF Record(c)[2] = LastLine(c) THEN "commit" ELSE "look") \in {"look", "commit"}  OBVIOUS
<1>3. Next1(c) \in Calls  BY <1>1, <1>2 DEF Next1, Calls
<1>4. Record(c)[2] = FirstLine(c) + c.i - 1  BY DEF Record
<1> QED  BY <1>3, <1>4 DEF Next1, Next1Of, Calls

\* A step of a call through one more record.
LEMMA ThroughKeeps ==
  ASSUME IInv, NEW l \in DOMAIN loader, NEW c, c = loader[l], c.pc \in {"look", "write"},
         NEW d \in Calls, Next1Of(c, d), loader' = [loader EXCEPT ![l] = d],
         UNCHANGED <<plan, site, ledger, run, inserted, touched, faults>>,
         errors \subseteq errors', errors' \subseteq Errors, OrderServes',
         d.docs \subseteq d.marks, c.marks \subseteq d.marks, d.marks \subseteq c.marks \cup {Record(c)},
         c.docs \subseteq d.docs,
         Record(c) \in d.marks \ c.marks =>
           /\ Record(c) \notin ledger /\ ~Held(l, Record(c))
           /\ Record(c) \in d.docs \/ site[Record(c)] # "absent" \/ Record(c) \in touched,
         Record(c) \in d.marks \/ Settled(c.run, Record(c))',
         ~d.bad => ~c.bad /\ Record(c) \in d.marks \cup ledger
  PROVE  IInv'
<1>1. loader \in [DOMAIN loader -> Calls] /\ c \in Calls /\ PlanTypes /\ CallInv(c)  BY DEF IInv, Types
<1>5. loader'[l] = d  BY <1>1
<1>6. Grows  BY <1>1, <1>5 DEF Grows
<1>7. CallInv(d)'
  BY <1>6, ThroughRecord DEF Next1Of
<1>8. CallInv(loader[l])'  BY <1>5, <1>7
<1>9. \A m \in DOMAIN loader \ {l} : d.marks \cap loader[m].marks = {}
  <2> TAKE m \in DOMAIN loader \ {l}
  <2>1. c.marks \cap loader[m].marks = {}  BY DEF IInv, Apart
  <2>2. CASE Record(c) \in d.marks \ c.marks
    <3>1. Record(c) \notin loader[m].marks  BY <2>2 DEF Held
    <3> QED  BY <2>1, <3>1
  <2>3. CASE ~(Record(c) \in d.marks \ c.marks)
    <3>1. d.marks = c.marks  BY <2>3, ZenonT(60)
    <3> QED  BY <2>1, <3>1
  <2> QED  BY <2>2, <2>3
<1>10. faults' \in Nat  BY DEF IInv, Types
<1> QED  BY <1>8, <1>9, <1>10, QuietKeeps

\* Why a record may be refused for a link.
Excuse(d) ==
  \E f \in plan.links : f[1] = d /\ \/ Target(f[2]) \in touched
                                    \/ \E g \in errors : g.line = Target(f[2])

LEMMA FailKeeps ==
  ASSUME IInv, NEW l \in DOMAIN loader, NEW c, c = loader[l], c.pc \in {"look", "write"},
         NEW cause \in {"duplicate", "invalid", "link"}, Fail(l, cause),
         cause = "link" => Excuse(Stage(c)),
         UNCHANGED <<plan, site, ledger, run, inserted, touched, faults>>
  PROVE  IInv'
<1>1. /\ loader \in [DOMAIN loader -> Calls] /\ c \in Calls /\ PlanTypes /\ CallInv(c)
      /\ errors \subseteq Errors /\ OrderServes
  BY DEF IInv, Types
<1>2. c.run \in Runs  BY <1>1 DEF CallInv, IInv, Types
<1>3. CASE c.careful
  <2> DEFINE e == [run |-> c.run, line |-> Record(c), cause |-> cause]
  <2>1. errors' = errors \cup {e} /\ loader' = [loader EXCEPT ![l] = [Next1(c) EXCEPT !.bad = TRUE]]
    BY <1>3 DEF Fail, Set
  <2>2. e \in Errors  BY <1>1, <1>2, RecordIsLine DEF Errors
  <2>3. Settled(c.run, Record(c))'
    <3>1. PICK x : x = Record(c)  OBVIOUS
    <3>2. Record(c)' = Record(c)  BY DEF Record, Stage, FirstLine
    <3>4. e \in errors' /\ e.run = c.run /\ e.line = x  BY <2>1, <3>1
    <3> HIDE DEF e
    <3>3. Settled(c.run, x)'  BY <3>4 DEF Settled
    <3> QED  BY <3>1, <3>2, <3>3
  <2>4. OrderServes'
    <3> SUFFICES ASSUME NEW b \in errors', b.cause = "link"
                 PROVE  \E f \in plan'.links : f[1] = b.line[1] /\ \/ Target(f[2]) \in touched'
                                                                   \/ \E g \in errors' : g.line = Target(f[2])
      BY DEF OrderServes, Target
    <3>1. Excuse(b.line[1])
      <4>1. CASE b \in errors  BY <1>1, <3>1, <4>1 DEF OrderServes, Excuse
      <4>2. CASE b = e
        <5>1. b.line[1] = Stage(c) /\ cause = "link"  BY <4>2 DEF Record
        <5> QED  BY <5>1
      <4> QED  BY <2>1, <4>1, <4>2
    <3> QED  BY <2>1, <3>1 DEF Excuse
  <2>5. PICK d : d = [Next1(c) EXCEPT !.bad = TRUE]  OBVIOUS
  <2>6. d \in Calls /\ Next1Of(c, d) /\ d.bad /\ d.docs = c.docs /\ d.marks = c.marks
    <3>1. PICK n \in Calls : n = Next1(c)  BY <1>1, Next1IsACall
    <3>2. d = [n EXCEPT !.bad = TRUE]  BY <2>5, <3>1
    <3>3. Next1Of(c, n) /\ n.docs = c.docs /\ n.marks = c.marks  BY <1>1, <3>1, Next1IsACall
    <3> QED  BY <3>2, <3>3 DEF Calls, Next1Of
  <2>8. loader' = [loader EXCEPT ![l] = d] /\ c.docs \subseteq c.marks  BY <1>1, <2>1, <2>5 DEF CallInv
  <2>7. errors \subseteq errors' /\ errors' \subseteq Errors  BY <1>1, <2>1, <2>2
  <2> HIDE DEF e
  <2> QED  BY <2>3, <2>4, <2>6, <2>7, <2>8, ThroughKeeps
<1>4. CASE ~c.careful
  <2>1. errors' = errors /\ loader' = [loader EXCEPT ![l] = Rolled(c)]  BY <1>4 DEF Fail, Set
  <2>2. Rolled(c) \in Calls /\ Rolled(c).marks = {}  BY <1>1, RolledIsACall
  <2>3. Grows /\ loader'[l] = Rolled(loader[l])  BY <1>1, <2>1 DEF Grows
  <2>4. CallInv(loader[l])'  BY <1>1, <2>3, RolledFine DEF IInv, Working
  <2>5. OrderServes'  BY <1>1, <2>1 DEF OrderServes, Target
  <2> QED  BY <1>1, <2>1, <2>2, <2>4, <2>5, QuietKeeps DEF IInv, Types
<1> QED  BY <1>3, <1>4

LEMMA LookKeeps ==
  ASSUME IInv, NEW l \in DOMAIN loader, Look(l)
  PROVE  IInv'
<1>1. PICK c : c = loader[l]  OBVIOUS
<1>2. /\ loader \in [DOMAIN loader -> Calls] /\ c \in Calls /\ PlanTypes /\ CallInv(c) /\ c.pc = "look"
      /\ UNCHANGED <<plan, site, ledger, run, inserted, touched, faults>>
      /\ OrderServes /\ errors \subseteq Errors
  BY <1>1 DEF IInv, Types, Look
<1>3. c.docs \in SUBSET Lines /\ c.marks \in SUBSET Lines /\ c.docs \subseteq c.marks /\ c.bad \in BOOLEAN
  BY <1>2 DEF Calls, CallInv
<1>4. CASE Record(c) \in ledger \cup c.marks /\ Set(l, Next1(c)) /\ UNCHANGED errors
  <2>1. PICK d \in Calls : d = Next1(c)  BY <1>2, Next1IsACall
  <2>2. Next1Of(c, d) /\ d.bad = c.bad /\ d.docs = c.docs /\ d.marks = c.marks
    BY <1>2, <2>1, Next1IsACall
  <2>3. loader' = [loader EXCEPT ![l] = d]  BY <1>4, <2>1 DEF Set
  <2>4. Record(c) \in c.marks \/ Settled(c.run, Record(c))'
    <3>1. Record(c)' = Record(c)  BY <1>2 DEF Record, Stage, FirstLine
    <3> QED  BY <1>2, <1>4, <3>1 DEF Settled
  <2>5. OrderServes'  BY <1>2, <1>4 DEF OrderServes, Target
  <2>6. UNCHANGED errors /\ Record(c) \in c.marks \cup ledger  BY <1>4
  <2> QED  BY <1>1, <1>2, <1>3, <2>2, <2>3, <2>4, <2>5, <2>6, ThroughKeeps
<1>5. CASE Fail(l, "duplicate")
  BY <1>1, <1>2, <1>5, FailKeeps
<1>6. CASE Set(l, [c EXCEPT !.pc = "write", !.known = site[Record(c)] = "same"]) /\ UNCHANGED errors
  <2>1. PICK d : d = [c EXCEPT !.pc = "write", !.known = site[Record(c)] = "same"]  OBVIOUS
  <2>2. /\ d \in Calls /\ d.pc = "write" /\ (d.known => site[Record(c)] = "same")
        /\ d.run = c.run /\ d.cursor = c.cursor /\ d.erred = c.erred /\ d.k = c.k /\ d.i = c.i
        /\ d.bad = c.bad /\ d.docs = c.docs /\ d.marks = c.marks
    <3>1. (site[Record(c)] = "same") \in BOOLEAN  OBVIOUS
    <3> QED  BY <1>2, <2>1, <3>1 DEF Calls
  <2>3. loader' = [loader EXCEPT ![l] = d] /\ loader'[l] = d  BY <1>2, <1>6, <2>1 DEF Set
  <2>4. /\ Stage(d)' = Stage(c) /\ FirstLine(d)' = FirstLine(c) /\ LastLine(d)' = LastLine(c)
        /\ Record(d)' = Record(c)
    BY <1>2, <2>2 DEF Stage, FirstLine, LastLine, Record
  <2>9. Grows  BY <1>2, <1>6, <2>3 DEF Grows
  <2>10. /\ d.run \in DOMAIN run' /\ Behind(d.run, d.cursor)'
         /\ ~run'[d.run].lost /\ ~d.erred => Loaded(d.cursor)'
         /\ \A j \in 1..D : j < d.k => d.cursor[plan'.order[j]] = Length
    BY <1>2, <2>2, <2>9, BehindGrows, LoadedGrows DEF CallInv
  <2>11. \A n \in 1..Length : FirstLine(c) <= n /\ n < FirstLine(c) + d.i - 1 =>
            /\ <<Stage(c), n>> \in d.marks \/ Settled(d.run, <<Stage(c), n>>)
            /\ ~d.bad => <<Stage(c), n>> \in d.marks \cup ledger
    BY <1>2, <2>2 DEF CallInv, Working
  <2>12. \A r, x : Settled(r, x) => Settled(r, x)'  BY <2>9, SettledGrows
  <2>13. \A n \in 1..Length : FirstLine(d)' <= n /\ n < FirstLine(d)' + d.i - 1 =>
            /\ <<Stage(d)', n>> \in d.marks \/ Settled(d.run, <<Stage(d), n>>)'
            /\ ~d.bad => <<Stage(d)', n>> \in d.marks \cup ledger'
    <3> TAKE n \in 1..Length
    <3>1. PICK x : x = <<Stage(c), n>>  OBVIOUS
    <3>2. Settled(d.run, x) => Settled(d.run, x)'  BY <2>12
    <3> QED  BY <1>2, <2>4, <2>11, <3>1, <3>2
  <2>14. d.k <= D /\ FirstLine(c) <= Length /\ FirstLine(c) + d.i - 1 <= LastLine(c)
    BY <1>2, <2>2 DEF CallInv, Working
  <2>15. /\ d.docs \subseteq d.marks /\ d.marks \cap ledger' = {}
         /\ \A x \in d.marks \ d.docs : site'[x] # "absent" \/ x \in touched'
    BY <1>2, <2>2 DEF CallInv
  <2>16. site'[Record(d)'] = "same" \/ ~d.known  BY <1>2, <2>2, <2>4
  <2>5. CallInv(d)'
    BY <2>2, <2>4, <2>10, <2>13, <2>14, <2>15, <2>16 DEF CallInv, Working
  <2>6. CallInv(loader[l])'  BY <2>3, <2>5
  <2>7. OrderServes'  BY <1>2, <1>6 DEF OrderServes, Target
  <2>8. \A m \in DOMAIN loader \ {l} : d.marks \cap loader[m].marks = {}
    BY <1>1, <2>2 DEF IInv, Apart
  <2> QED  BY <1>2, <1>6, <2>2, <2>3, <2>6, <2>7, <2>8, QuietKeeps DEF IInv, Types
<1> QED  BY <1>1, <1>4, <1>5, <1>6 DEF Look

\* A record is behind the last of every DocType it has a link to, but for those
\* left for the end; and such a line is there, or is the reason.
LEMMA LinkReason ==
  ASSUME IInv, NEW l \in DOMAIN loader, NEW c, c = loader[l], c.pc = "write", ~LinksResolve(c, Record(c)[1])
  PROVE  Excuse(Stage(c))
<1>1. c \in Calls /\ PlanTypes /\ CallInv(c) /\ errors \subseteq Errors /\ LedgerTold
  BY DEF IInv, Types
<1>2. Record(c)[1] = Stage(c)  BY DEF Record
<1>3. PICK f \in plan.links : f \notin plan.deferred /\ f[1] = Stage(c) /\ site[Target(f[2])] = "absent"
  BY <1>2 DEF LinksResolve
<1>4. f[1] \in Doctypes /\ f[2] \in Doctypes  BY <1>1 DEF PlanTypes
<1>5. c.k \in 1..D  BY <1>1, ImportAssumption DEF CallInv, Working, Calls, Counts
<1>6. PICK j \in 1..D : plan.order[j] = f[2]  BY <1>1, <1>4 DEF PlanTypes, Enumerates
<1>7. f[1] # f[2] /\ ~(c.k < j)
  BY <1>1, <1>3, <1>5, <1>6 DEF PlanTypes, Deferred, Stage, Doctypes
<1>8. j < c.k  BY <1>3, <1>5, <1>6, <1>7 DEF Stage
<1>9. c.cursor[f[2]] = Length  BY <1>1, <1>6, <1>8 DEF CallInv
<1>10. Settled(c.run, Target(f[2]))
  <2>1. Length \in 1..c.cursor[f[2]]  BY <1>9, ImportAssumption
  <2> QED  BY <1>1, <1>4, <2>1 DEF CallInv, Behind, Target
<1>11. CASE Target(f[2]) \in ledger
  BY <1>1, <1>3, <1>11 DEF LedgerTold, Excuse
<1>12. CASE \E e \in errors : e.line = Target(f[2])
  BY <1>3, <1>12 DEF Excuse
<1> QED  BY <1>10, <1>11, <1>12 DEF Settled

LEMMA ImportOneKeeps ==
  ASSUME IInv, NEW l \in DOMAIN loader, importOne(l)
  PROVE  IInv'
<1>1. PICK c : c = loader[l]  OBVIOUS
<1>2. /\ loader \in [DOMAIN loader -> Calls] /\ c \in Calls /\ PlanTypes /\ CallInv(c) /\ c.pc = "write"
      /\ UNCHANGED <<plan, site, ledger, run, inserted, touched, faults>>
      /\ OrderServes /\ errors \subseteq Errors
  BY <1>1 DEF IInv, Types, importOne
<1>3. CASE Fail(l, "invalid") \/ Fail(l, "duplicate")
  BY <1>1, <1>2, <1>3, FailKeeps
<1>4. CASE Fail(l, "link") /\ ~LinksResolve(c, Record(c)[1])
  BY <1>1, <1>2, <1>4, FailKeeps, LinkReason
<1>5. CASE /\ ~c.known => site[Record(c)] = "absent"
           /\ ~Held(l, Record(c)) /\ Record(c) \notin ledger
           /\ Set(l, [Next1(c) EXCEPT !.docs = IF c.known THEN @ ELSE @ \cup {Record(c)},
                                      !.marks = @ \cup {Record(c)}])
           /\ UNCHANGED errors
  <2> DEFINE x == Record(c)
  <2>1. PICK n \in Calls : n = Next1(c)  BY <1>2, Next1IsACall
  <2>2. Next1Of(c, n) /\ n.bad = c.bad /\ n.docs = c.docs /\ n.marks = c.marks
    BY <1>2, <2>1, Next1IsACall
  <2>3. PICK d : d = [n EXCEPT !.docs = IF c.known THEN @ ELSE @ \cup {x}, !.marks = @ \cup {x}]  OBVIOUS
  <2>4. x \in Lines  BY <1>2, RecordIsLine
  <2>5. /\ d \in Calls /\ Next1Of(c, d) /\ d.bad = c.bad /\ d.marks = c.marks \cup {x}
        /\ d.docs = IF c.known THEN c.docs ELSE c.docs \cup {x}
    <3> HIDE DEF x
    <3>1. d \in Calls  BY <2>1, <2>2, <2>3, <2>4, ZenonT(60) DEF Calls
    <3>2. /\ d.docs = (IF c.known THEN c.docs ELSE c.docs \cup {x}) /\ d.marks = c.marks \cup {x}
          /\ d.bad = c.bad
      BY <2>2, <2>3 DEF Calls
    <3>3. Next1Of(c, d)  BY <2>2, <2>3 DEF Next1Of, Calls
    <3> QED  BY <3>1, <3>2, <3>3
  <2>6. loader' = [loader EXCEPT ![l] = d]  BY <1>5, <2>1, <2>3 DEF Set
  <2>7. c.docs \subseteq c.marks  BY <1>2 DEF CallInv
  <2>8. OrderServes'  BY <1>2, <1>5 DEF OrderServes, Target
  <2>9. x \in d.docs \/ site[x] # "absent" \/ x \in touched
    BY <1>2, <1>5, <2>5 DEF CallInv
  <2>10. UNCHANGED errors  BY <1>5
  <2>11. /\ d.docs \subseteq d.marks /\ c.marks \subseteq d.marks /\ d.marks \subseteq c.marks \cup {x}
         /\ c.docs \subseteq d.docs /\ x \in d.marks
    BY <2>5, <2>7
  <2> QED  BY <1>1, <1>2, <1>5, <2>5, <2>6, <2>8, <2>9, <2>10, <2>11, ThroughKeeps
<1> QED  BY <1>1, <1>3, <1>4, <1>5 DEF importOne

-----------------------------------------------------------------------------
(* A batch commits.                                                        *)

\* Past the batch there is nothing that is not settled.
LEMMA BatchIsBehind ==
  ASSUME PlanTypes, NEW c \in Calls, CallInv(c), c.pc = "commit",
         NEW cursor, cursor = [c.cursor EXCEPT ![Stage(c)] = LastLine(c)]
  PROVE  /\ cursor \in Cursors
         /\ \A d \in Doctypes : \A n \in 1..cursor[d] : <<d, n>> \in c.marks \/ Settled(c.run, <<d, n>>)
         /\ ~run[c.run].lost /\ ~c.erred /\ ~c.bad =>
              \A d \in Doctypes : \A n \in 1..cursor[d] : <<d, n>> \in c.marks \cup ledger
<1>1. /\ Stage(c) \in Doctypes /\ FirstLine(c) = c.cursor[Stage(c)] + 1
      /\ c.cursor[Stage(c)] \in 0..Length /\ LastLine(c) \in 1..Length
  BY Places DEF CallInv, Working
<1>2. c.cursor \in Cursors  BY DEF Calls
<1>3. cursor \in Cursors /\ cursor[Stage(c)] = LastLine(c)
      /\ \A d \in Doctypes \ {Stage(c)} : cursor[d] = c.cursor[d]
  BY <1>1, <1>2, ImportAssumption DEF Cursors
<1>4. ASSUME NEW d \in Doctypes, NEW n \in 1..cursor[d]
      PROVE  \/ n \in 1..c.cursor[d]
             \/ d = Stage(c) /\ n \in 1..Length /\ FirstLine(c) <= n /\ n < FirstLine(c) + c.i - 1
  <2>1. CASE d # Stage(c)  BY <1>3, <2>1
  <2>2. CASE d = Stage(c)
    <3>1. FirstLine(c) + c.i - 1 > LastLine(c)  BY DEF CallInv, Working
    <3>2. c.i \in Nat  BY DEF Calls, Counts
    <3> QED  BY <1>1, <1>3, <2>2, <3>1, <3>2, ImportAssumption
  <2> QED  BY <2>1, <2>2
<1>5. ASSUME NEW d \in Doctypes, NEW n \in 1..cursor[d]
      PROVE  <<d, n>> \in c.marks \/ Settled(c.run, <<d, n>>)
  BY <1>4, <1>5 DEF CallInv, Working, Behind
<1>6. ASSUME ~run[c.run].lost, ~c.erred, ~c.bad, NEW d \in Doctypes, NEW n \in 1..cursor[d]
      PROVE  <<d, n>> \in c.marks \cup ledger
  BY <1>4, <1>6 DEF CallInv, Working, Loaded
<1> QED  BY <1>3, <1>5, <1>6

LEMMA CommitsRun ==
  ASSUME IInv, NEW l \in DOMAIN loader, NEW c, c = loader[l], c.pc = "commit", Commits(c)
  PROVE  /\ c.run \in DOMAIN run
         /\ DOMAIN run' = DOMAIN run /\ run' \in [DOMAIN run -> RunRows]
         /\ \A r \in DOMAIN run \ {c.run} : run'[r] = run[r]
         /\ run'[c.run].cursor = [c.cursor EXCEPT ![Stage(c)] = LastLine(c)]
         /\ run'[c.run].unsaved /\ run'[c.run].lost = run[c.run].lost /\ run'[c.run].status = run[c.run].status
<1>1. /\ c \in Calls /\ PlanTypes /\ CallInv(c) /\ run \in [DOMAIN run -> RunRows]
  BY DEF IInv, Types
<1>2. c.run \in DOMAIN run  BY <1>1 DEF CallInv
<1>3. PICK cursor : cursor = [c.cursor EXCEPT ![Stage(c)] = LastLine(c)]  OBVIOUS
<1>4. cursor \in Cursors  BY <1>1, <1>3, BatchIsBehind
<1>5. run' = [run EXCEPT ![c.run] = [run[c.run] EXCEPT !.cursor = cursor, !.unsaved = TRUE]]
  BY <1>1, <1>2, <1>3 DEF Commits
<1>6. PICK row : row = [run[c.run] EXCEPT !.cursor = cursor, !.unsaved = TRUE]  OBVIOUS
<1>7. /\ row \in RunRows /\ row.cursor = cursor /\ row.unsaved /\ row.lost = run[c.run].lost
      /\ row.status = run[c.run].status
  BY <1>1, <1>2, <1>4, <1>6, ZenonT(60) DEF RunRows
<1>8. run' = [run EXCEPT ![c.run] = row]  BY <1>5, <1>6
<1> QED  BY <1>1, <1>2, <1>3, <1>7, <1>8

LEMMA CommitsGrow ==
  ASSUME IInv, NEW l \in DOMAIN loader, NEW c, c = loader[l], c.pc = "commit", Commits(c),
         UNCHANGED <<plan, errors, touched>>, DOMAIN loader' = DOMAIN loader
  PROVE  /\ Grows
         /\ ledger' = ledger \cup c.marks
         /\ \A x \in Lines : site'[x] = (IF x \in c.docs THEN "same" ELSE site[x])
<1>1. /\ ledger' = ledger \cup c.marks
      /\ site' = [x \in Lines |-> IF x \in c.docs THEN "same" ELSE site[x]]
  BY DEF Commits
<1>2. \A r \in DOMAIN run : run[r].lost => run'[r].lost  BY CommitsRun
<1> QED  BY <1>1, <1>2, CommitsRun DEF Grows

\* The documents, the ledger rows and the cursor of a call commit.
LEMMA CommitsKeep ==
  ASSUME IInv, NEW l \in DOMAIN loader, NEW c, c = loader[l], c.pc = "commit", Commits(c),
         UNCHANGED <<plan, errors, touched>>, faults' \in Nat,
         NEW d \in Calls, loader' = [loader EXCEPT ![l] = d], d.marks = {}, CallInv(loader[l])'
  PROVE  IInv'
<1>1. /\ loader \in [DOMAIN loader -> Calls] /\ c \in Calls /\ PlanTypes /\ CallInv(c)
      /\ ledger \subseteq Lines /\ LoadedOnce /\ LedgerTold /\ OrderServes /\ Apart
      /\ inserted \in [Lines -> Nat] /\ site \in [Lines -> {"absent", "same", "differs"}]
  BY DEF IInv, Types
<1>2. DOMAIN loader' = DOMAIN loader /\ loader'[l] = d /\ \A m \in DOMAIN loader \ {l} : loader'[m] = loader[m]
  BY <1>1
<1>3. /\ Grows /\ ledger' = ledger \cup c.marks
      /\ \A x \in Lines : site'[x] = (IF x \in c.docs THEN "same" ELSE site[x])
  BY <1>2, CommitsGrow
<1>4. /\ inserted' = [x \in Lines |-> IF x \in c.docs THEN inserted[x] + 1 ELSE inserted[x]]
      /\ site' = [x \in Lines |-> IF x \in c.docs THEN "same" ELSE site[x]]
  BY DEF Commits
<1>5. /\ c.docs \subseteq c.marks /\ c.marks \subseteq Lines /\ c.marks \cap ledger = {}
      /\ \A x \in c.marks \ c.docs : site[x] # "absent" \/ x \in touched
  BY <1>1 DEF CallInv, Calls
<1>6. Others(l)
  <2> SUFFICES ASSUME NEW m \in DOMAIN loader, m # l  PROVE CallInv(loader[m])'
    BY DEF Others
  <2>1. loader[m].marks \cap ledger = {} /\ CallInv(loader[m])  BY DEF IInv, CallInv
  <2>2. loader[m].marks \cap c.marks = {}  BY <1>1 DEF Apart
  <2>3. loader[m].marks \cap ledger' = {}  BY <1>3, <2>1, <2>2
  <2> QED  BY <1>2, <1>3, <2>1, <2>3, CallStays DEF IInv
<1>7. ledger' \subseteq Lines  BY <1>1, <1>3, <1>5
<1>8. Types'
  <2>1. inserted' \in [Lines -> Nat]  BY <1>1, <1>4
  <2>2. site' \in [Lines -> {"absent", "same", "differs"}]  BY <1>1, <1>4
  <2>3. loader' \in [DOMAIN loader' -> Calls]  BY <1>1, <1>2
  <2>4. DOMAIN run' \subseteq Runs /\ run' \in [DOMAIN run' -> RunRows]  BY CommitsRun DEF IInv, Types
  <2>5. PlanTypes'  BY <1>1 DEF PlanTypes
  <2> QED  BY <1>7, <2>1, <2>2, <2>3, <2>4, <2>5 DEF IInv, Types
<1>9. Apart'  BY <1>1, <1>2 DEF Apart
<1>10. LedgerTold'
  <2> SUFFICES ASSUME NEW x \in ledger'  PROVE site'[x] # "absent" \/ x \in touched'
    BY DEF LedgerTold
  <2>1. x \in Lines  BY <1>7
  <2>2. CASE x \in ledger  BY <1>1, <1>3, <2>1, <2>2 DEF LedgerTold
  <2>3. CASE x \in c.marks  BY <1>3, <1>5, <2>1, <2>3
  <2> QED  BY <1>3, <2>2, <2>3
<1>11. LoadedOnce'
  <2> SUFFICES ASSUME NEW x \in Lines  PROVE inserted'[x] <= 1 /\ (inserted'[x] = 1 => x \in ledger')
    BY DEF LoadedOnce
  <2>1. inserted[x] \in Nat /\ inserted[x] <= 1 /\ (inserted[x] = 1 => x \in ledger)  BY <1>1 DEF LoadedOnce
  <2>2. CASE x \in c.docs
    <3>1. x \notin ledger /\ x \in ledger'  BY <1>3, <1>5, <2>2
    <3> QED  BY <1>4, <2>1, <2>2, <3>1
  <2>3. CASE x \notin c.docs  BY <1>3, <1>4, <2>1, <2>3
  <2> QED  BY <2>2, <2>3
<1>12. OrderServes'  BY <1>1 DEF OrderServes, Target
<1>13. ASSUME NEW r \in DOMAIN run  PROVE RunInv(r)'
  <2>1. CASE r # c.run
    <3>2. \A q \in DOMAIN run \ {c.run} : run'[q] = run[q]  BY CommitsRun
    <3>1. run'[r] = run[r]  BY <2>1, <3>2
    <3> QED  BY <1>3, <1>7, <3>1, RunStays
  <2>2. CASE r = c.run
    <3>1. PICK cursor : cursor = [c.cursor EXCEPT ![Stage(c)] = LastLine(c)]  OBVIOUS
    <3>2. /\ run'[r].cursor = cursor /\ run'[r].unsaved /\ run'[r].lost = run[r].lost
          /\ run'[r].status = run[r].status
      BY <2>2, <3>1, CommitsRun
    <3>3. \A e \in Doctypes : \A n \in 1..cursor[e] : <<e, n>> \in c.marks \/ Settled(r, <<e, n>>)
      BY <1>1, <2>2, <3>1, BatchIsBehind
    <3>4. Behind(r, cursor)'  BY <1>3, <3>3 DEF Behind, Settled
    <3>5. RunInv(r)  BY DEF IInv
    <3>6. ledger = Lines => ledger' = Lines  BY <1>3, <1>7
    <3> QED  BY <3>2, <3>4, <3>5, <3>6 DEF RunInv
  <2> QED  BY <2>1, <2>2
<1> QED  BY <1>3, <1>6, <1>8, <1>9, <1>10, <1>11, <1>12, <1>13, TogetherTheyKeep

LEMMA CommitKeeps ==
  ASSUME IInv, NEW l \in DOMAIN loader, Commit(l)
  PROVE  IInv'
<1>1. PICK c : c = loader[l]  OBVIOUS
<1>2. /\ loader \in [DOMAIN loader -> Calls] /\ c \in Calls /\ PlanTypes /\ CallInv(c) /\ c.pc = "commit"
      /\ Commits(c) /\ UNCHANGED <<plan, errors, touched, faults>> /\ loader' = [loader EXCEPT ![l] = Counted(c)]
  BY <1>1 DEF IInv, Types, Commit, Set
<1>3. PICK cursor : cursor = [c.cursor EXCEPT ![Stage(c)] = LastLine(c)]  OBVIOUS
<1>4. PICK d : d = Counted(c)  OBVIOUS
<1>5. /\ cursor \in Cursors
      /\ \A e \in Doctypes : \A n \in 1..cursor[e] : <<e, n>> \in c.marks \/ Settled(c.run, <<e, n>>)
      /\ ~run[c.run].lost /\ ~c.erred /\ ~c.bad =>
           \A e \in Doctypes : \A n \in 1..cursor[e] : <<e, n>> \in c.marks \cup ledger
  BY <1>2, <1>3, BatchIsBehind
<1>6. /\ d \in Calls /\ d.pc = "batch" /\ d.run = c.run /\ d.cursor = cursor /\ (d.erred <=> c.erred \/ c.bad)
      /\ d.k = c.k /\ d.docs = {} /\ d.marks = {}
  <2>1. 1 \in Counts /\ (IF MaxBatches > 0 THEN c.batches + 1 ELSE 0) \in Nat /\ (c.erred \/ c.bad) \in BOOLEAN
    BY <1>2 DEF Counts, Calls
  <2>2. d = [c EXCEPT !.pc = "batch", !.docs = {}, !.marks = {}, !.bad = FALSE, !.careful = FALSE, !.i = 1,
                      !.erred = @ \/ c.bad, !.cursor = cursor,
                      !.batches = IF MaxBatches > 0 THEN @ + 1 ELSE 0]
    BY <1>2, <1>3, <1>4 DEF Counted, Calls
  <2>3. d \in Calls  BY <1>2, <1>5, <2>1, <2>2, ZenonT(60) DEF Calls
  <2>5. d.pc = "batch" /\ d.run = c.run /\ d.k = c.k /\ d.docs = {} /\ d.marks = {}
    BY <1>2, <2>2 DEF Calls
  <2>6. d.cursor = cursor  BY <1>2, <2>2 DEF Calls
  <2>7. d.erred <=> c.erred \/ c.bad  BY <1>2, <2>2 DEF Calls
  <2> QED  BY <2>3, <2>5, <2>6, <2>7
<1>7. loader' = [loader EXCEPT ![l] = d] /\ loader'[l] = d /\ DOMAIN loader' = DOMAIN loader
  BY <1>2, <1>4
<1>8. Grows /\ ledger' = ledger \cup c.marks  BY <1>1, <1>2, <1>7, CommitsGrow
<1>9. Behind(d.run, d.cursor)'  BY <1>5, <1>6, <1>8, ZenonT(60) DEF Behind, Settled, Grows
<1>10. ~run'[d.run].lost /\ ~d.erred => Loaded(d.cursor)'
  <2>1. run[c.run].lost => run'[c.run].lost  BY <1>2, <1>8 DEF Grows, CallInv
  <2> QED  BY <1>5, <1>6, <1>8, <2>1 DEF Loaded
<1>11. \A j \in 1..D : j < d.k => d.cursor[plan'.order[j]] = Length
  <2> SUFFICES ASSUME NEW j \in 1..D, j < c.k  PROVE cursor[plan.order[j]] = Length
    BY <1>2, <1>6
  <2>1. c.k \in 1..D  BY <1>2, ImportAssumption DEF CallInv, Working, Calls, Counts
  <2>2. plan.order[j] \in Doctypes /\ plan.order[j] # Stage(c)
    BY <1>2, <2>1 DEF PlanTypes, Enumerates, Stage
  <2>3. cursor[plan.order[j]] = c.cursor[plan.order[j]]  BY <1>2, <1>3, <2>2 DEF Calls, Cursors
  <2> QED  BY <1>2, <2>3 DEF CallInv
<1>12. d.run \in DOMAIN run'  BY <1>2, <1>6, <1>8 DEF CallInv, Grows
<1>13. CallInv(d)'
  BY <1>6, <1>9, <1>10, <1>11, <1>12 DEF CallInv, Working
<1>14. CallInv(loader[l])' /\ faults' \in Nat  BY <1>2, <1>7, <1>13 DEF IInv, Types
<1> QED  BY <1>1, <1>2, <1>6, <1>7, <1>14, CommitsKeep

LEMMA BrokenKeeps ==
  ASSUME IInv, NEW l \in DOMAIN loader, Broken(l)
  PROVE  IInv'
<1>1. PICK c : c = loader[l]  OBVIOUS
<1>2. /\ loader \in [DOMAIN loader -> Calls] /\ c \in Calls /\ PlanTypes /\ CallInv(c) /\ Working(c)
      /\ UNCHANGED <<plan, errors, touched>> /\ faults' \in Nat /\ errors \subseteq Errors /\ OrderServes
      /\ loader' = [loader EXCEPT ![l] = Rolled(c)]
  BY <1>1 DEF IInv, Types, Broken, Fault, Set, Working
<1>3. Rolled(c) \in Calls /\ Rolled(c).marks = {}  BY <1>2, RolledIsACall
<1>4. loader'[l] = Rolled(loader[l]) /\ DOMAIN loader' = DOMAIN loader  BY <1>1, <1>2
<1>5. CASE c.pc = "commit" /\ Commits(c)
  <2>1. Grows  BY <1>1, <1>2, <1>4, <1>5, CommitsGrow
  <2>2. CallInv(loader[l])'  BY <1>1, <1>2, <1>4, <2>1, RolledFine DEF IInv
  <2> QED  BY <1>1, <1>2, <1>3, <1>5, <2>2, CommitsKeep
<1>6. CASE UNCHANGED <<site, ledger, run, inserted>>
  <2>1. Grows  BY <1>2, <1>4, <1>6 DEF Grows
  <2>2. CallInv(loader[l])'  BY <1>1, <1>2, <1>4, <2>1, RolledFine DEF IInv
  <2>3. OrderServes'  BY <1>2 DEF OrderServes, Target
  <2> QED  BY <1>2, <1>3, <1>6, <2>2, <2>3, QuietKeeps
<1> QED  BY <1>1, <1>5, <1>6 DEF Broken

LEMMA UserKeeps ==
  ASSUME IInv, NEW x \in Lines, User(x)
  PROVE  IInv'
<1>1. /\ UNCHANGED <<plan, ledger, errors, run, loader, inserted>> /\ faults' \in Nat
      /\ touched' = touched \cup {x}
      /\ site' = [site EXCEPT ![x] = IF @ = "absent" THEN "differs" ELSE "absent"]
  BY DEF User, Fault, IInv, Types
<1>2. /\ site \in [Lines -> {"absent", "same", "differs"}] /\ ledger \subseteq Lines /\ touched \subseteq Lines
      /\ LedgerTold /\ OrderServes
  BY DEF IInv, Types
<1>3. Grows  BY <1>1, <1>2 DEF Grows
<1>4. Types'  BY <1>1, <1>2 DEF IInv, Types, PlanTypes
<1>5. Apart' /\ LoadedOnce'  BY <1>1 DEF IInv, Apart, LoadedOnce
<1>6. LedgerTold'  BY <1>1, <1>2, <1>3 DEF LedgerTold, Grows
<1>7. OrderServes'  BY <1>1, <1>2 DEF OrderServes, Target
<1>8. \A r \in DOMAIN run : RunInv(r)'  BY <1>1, <1>2, <1>3, RunStays
<1>9. \A l \in DOMAIN loader : CallInv(loader[l])'
  <2> TAKE l \in DOMAIN loader
  <2>1. CallInv(loader[l]) /\ loader[l].marks \cap ledger' = {}  BY <1>1 DEF IInv, CallInv
  <2> QED  BY <1>1, <1>3, <2>1, CallStays DEF IInv
<1> QED  BY <1>1, <1>4, <1>5, <1>6, <1>7, <1>8, <1>9 DEF IInv

LEMMA NextIInv == IInv /\ [Next]_vars => IInv'
<1> SUFFICES ASSUME IInv, [Next]_vars  PROVE IInv'
  OBVIOUS
<1>1. CASE UNCHANGED vars
  <2>1. Types' /\ Apart' /\ LedgerTold' /\ LoadedOnce' /\ OrderServes'
    BY <1>1 DEF vars, IInv, Types, PlanTypes, Apart, LedgerTold, LoadedOnce, OrderServes, Target
  <2>2. Grows  BY <1>1 DEF vars, Grows
  <2>3. \A r \in DOMAIN run : RunInv(r)'  BY <1>1, <2>2, RunStays DEF vars, IInv, Types
  <2>4. \A l \in DOMAIN loader : CallInv(loader[l])'
    <3> TAKE l \in DOMAIN loader
    <3>1. CallInv(loader[l]) /\ loader[l].marks \cap ledger' = {}  BY <1>1 DEF vars, IInv, CallInv
    <3> QED  BY <1>1, <2>2, <3>1, CallStays DEF vars, IInv
  <2> QED  BY <1>1, <2>1, <2>3, <2>4 DEF vars, IInv
<1>2. CASE \E x \in Lines : User(x)
  BY <1>2, UserKeeps
<1>3. ASSUME NEW l \in DOMAIN loader, Step(l) \/ Broken(l) \/ Stop(l)  PROVE IInv'
  BY <1>3, BatchKeeps, LookKeeps, ImportOneKeeps, CommitKeeps, SaveKeeps, BrokenKeeps, StopKeeps DEF Step
<1>4. ASSUME NEW l \in DOMAIN loader, NEW r \in DOMAIN run, Begin(l, r) \/ openImportRun(l, r)  PROVE IInv'
  BY <1>4, BeginKeeps, ResumeKeeps
<1> QED  BY <1>1, <1>2, <1>3, <1>4 DEF Next

\* Whatever processes, faults and users do, a run's row and a call's memory
\* say what is so of the tables: what their cursors have passed is loaded or
\* has its reason, and no two transactions hold a key.
THEOREM Invariance == Spec => []IInv
BY InitIInv, NextIInv, PTL DEF Spec

\* Type correctness, the order's included: it has every DocType once.
THEOREM TypeCorrect == Spec => []TypeOK
<1>1. IInv => TypeOK
  <2> SUFFICES ASSUME IInv  PROVE TypeOK
    OBVIOUS
  <2>1. ToSet(plan.order) = Doctypes /\ Len(plan.order) = D
    <3>1. ToSet(plan.order) = {plan.order[i] : i \in 1..D}
      BY ListedIn DEF IInv, Types, PlanTypes, Enumerates
    <3>2. /\ plan.order \in Seq(Doctypes) /\ Len(plan.order) = D
          /\ \A d \in Doctypes : \E i \in 1..D : plan.order[i] = d
      BY DEF IInv, Types, PlanTypes, Enumerates
    <3>3. \A i \in 1..D : plan.order[i] \in Doctypes  BY <3>2
    <3> QED  BY <3>1, <3>2, <3>3
  <2>2. \A r \in DOMAIN run : run[r] \in RunRows  BY DEF IInv, Types
  <2>3. \A l \in DOMAIN loader : loader[l] \in Calls /\ CallInv(loader[l]) /\ PlanTypes  BY DEF IInv, Types
  <2>4. \A l \in DOMAIN loader : /\ loader[l].pc \in {"idle", "batch", "look", "write", "commit", "save"}
                                 /\ loader[l].pc \in {"look", "write"} => Record(loader[l]) \in Lines
                                 /\ loader[l].docs \subseteq loader[l].marks
                                 /\ loader[l].marks \subseteq Lines
    BY <2>3, RecordIsLine DEF Calls, CallInv
  <2>5. \A r \in DOMAIN run :
          /\ run[r].status \in {"none", "running", "paused", "failed", "completed", "completed_with_errors"}
          /\ run[r].cursor \in [Doctypes -> 0..Length]
    BY <2>2 DEF RunRows, Statuses, Cursors
  <2> QED  BY <2>1, <2>4, <2>5 DEF TypeOK, IInv, Types
<1> QED  BY <1>1, Invariance, PTL

\* "It loads once" (docs/agent/import.md:19): no document is written twice, by
\* however many runs, resumes and processes, stopped or broken wherever they may be.
THEOREM LoadedOnceHolds == Spec => []LoadedOnce
<1>1. IInv => LoadedOnce  BY DEF IInv
<1> QED  BY <1>1, Invariance, PTL

\* No line behind the cursor of a run is passed over: it is in the ledger, or the
\* run has the reason (import_run.go:7).
THEOREM NothingPassedOverHolds == Spec => []NothingPassedOver
<1>1. IInv => NothingPassedOver  BY DEF IInv, RunInv, Behind, Settled, NothingPassedOver
<1> QED  BY <1>1, Invariance, PTL

\* A record is refused for a link only when its target was refused or a user
\* had a hand in it, for any links: the order, with those left for the end,
\* never puts a link before its target.
THEOREM OrderServesHolds == Spec => []OrderServes
<1>1. IInv => OrderServes  BY DEF IInv
<1> QED  BY <1>1, Invariance, PTL

\* A run that says it completed loaded every line, unless a call that had
\* counted errors ended before it saved them.
THEOREM CompletedIsLoadedHolds == Spec => []CompletedIsLoaded
<1>1. IInv => CompletedIsLoaded  BY DEF IInv, RunInv, CompletedIsLoaded
<1> QED  BY <1>1, Invariance, PTL
===============================================================================
