--------------------------- MODULE Archive_proofs ---------------------------
(***************************************************************************)
(* What holds of Archive for rooms, batches, pages and caches of every     *)
(* size, however many queries run at a time.                               *)
(***************************************************************************)
EXTENDS Archive, FiniteSetTheorems, SequenceTheorems, TLAPS

-----------------------------------------------------------------------------
(* The least element, and the first place of an element                    *)

LEMMA LeastIs ==
    ASSUME NEW S \in SUBSET Nat, S # {}
    PROVE  Min(S) \in S /\ \A y \in S : Min(S) <= y
<1>1. PICK x \in S : \A y \in S : ~(<<y, x>> \in OpToRel(<, Nat))
  BY NatLessThanWellFounded, WFMin
<1>2. ASSUME NEW y \in S, y < x PROVE <<y, x>> \in OpToRel(<, Nat)
  BY <1>2, Zenon DEF OpToRel
<1>3. \A y \in S : x <= y
  <2>1. \A y \in S : ~(y < x)
    BY <1>1, <1>2
  <2> QED
    BY <2>1
<1> QED
  BY <1>3 DEF Min

LEMMA LesserOfTwo ==
    ASSUME NEW a \in Nat, NEW b \in Nat
    PROVE  Min({a, b}) = IF a <= b THEN a ELSE b
<1>1. Min({a, b}) \in {a, b} /\ \A y \in {a, b} : Min({a, b}) <= y
  BY LeastIs
<1> QED
  BY <1>1

LEMMA Elements ==
    ASSUME NEW S, NEW c \in Seq(S)
    PROVE  /\ \A i \in 1..Len(c) : c[i] \in ToSet(c) /\ c[i] \in S
           /\ \A e \in ToSet(c) : \E i \in 1..Len(c) : c[i] = e
           /\ ToSet(c) \subseteq S /\ Len(c) \in Nat
<1>1. DOMAIN c = 1..Len(c) /\ \A i \in 1..Len(c) : c[i] \in S
  OBVIOUS
<1> QED
  BY <1>1 DEF ToSet

LEMMA OneMore ==
    ASSUME NEW S, NEW c \in Seq(S), NEW e \in S
    PROVE  LET d == Append(c, e)
           IN  /\ d \in Seq(S) /\ Len(d) = Len(c) + 1 /\ d[Len(c) + 1] = e
               /\ \A i \in 1..Len(c) : d[i] = c[i]
               /\ ToSet(d) = ToSet(c) \cup {e}
<1> DEFINE d == Append(c, e)
<1>1. /\ d \in Seq(S) /\ Len(d) = Len(c) + 1 /\ Len(c) \in Nat /\ d[Len(c) + 1] = e
      /\ \A i \in 1..Len(c) : d[i] = c[i]
  OBVIOUS
<1> HIDE DEF d
<1>2. \A i \in 1..Len(d) : i \in 1..Len(c) \/ i = Len(c) + 1
  BY <1>1
<1>3. \A i \in 1..Len(c) : i \in 1..Len(d)
  BY <1>1
<1>4. Len(c) + 1 \in 1..Len(d)
  BY <1>1
<1>5. ASSUME NEW x \in ToSet(d) PROVE x \in ToSet(c) \cup {e}
  <2>1. PICK i \in 1..Len(d) : d[i] = x
    BY <1>1, Elements
  <2> QED
    BY <1>1, <1>2, <2>1, Elements
<1>6. ASSUME NEW x \in ToSet(c) PROVE x \in ToSet(d)
  <2>1. PICK i \in 1..Len(c) : c[i] = x
    BY Elements
  <2> QED
    BY <1>1, <1>3, <2>1, Elements
<1>7. e \in ToSet(d)
  BY <1>1, <1>4, Elements
<1>8. ToSet(d) = ToSet(c) \cup {e}
  BY <1>5, <1>6, <1>7
<1> QED
  BY <1>1, <1>8 DEF d

LEMMA FoundAt ==
    ASSUME NEW S, NEW c \in Seq(S), NEW e
    PROVE  /\ IndexIn(c, e) \in Nat \cup {-1}
           /\ e \in ToSet(c) => IndexIn(c, e) + 1 \in 1..Len(c) /\ c[IndexIn(c, e) + 1] = e
           /\ e \notin ToSet(c) => IndexIn(c, e) = -1
<1> DEFINE places == {i \in 1..Len(c) : c[i] = e}
<1>1. CASE e \in ToSet(c)
  <2>1. places # {} /\ places \in SUBSET Nat
    BY <1>1 DEF ToSet
  <2>2. Min(places) \in places
    BY <2>1, LeastIs
  <2>3. IndexIn(c, e) = Min(places) - 1
    BY <1>1 DEF IndexIn
  <2> QED
    BY <1>1, <2>2, <2>3
<1>2. CASE e \notin ToSet(c)
  BY <1>2 DEF IndexIn
<1> QED
  BY <1>1, <1>2

-----------------------------------------------------------------------------
(* Sorting                                                                 *)

\* No element is behind the next one, so that none is behind a later one.
LEMMA InOrder ==
    ASSUME NEW c \in Seq(Nat), ~OutOfOrder(c), NEW i \in 1..Len(c), NEW j \in 1..Len(c), i <= j
    PROVE  c[i] <= c[j]
<1> SUFFICES ASSUME c[i] > c[j] PROVE FALSE
  OBVIOUS
<1> DEFINE bad == {k \in i..Len(c) : c[i] > c[k]}
           least == Min(bad)
<1>1. bad \in SUBSET Nat /\ bad # {}
  OBVIOUS
<1>2. least \in bad /\ \A k \in bad : least <= k
  BY <1>1, LeastIs
<1> HIDE DEF least
<1>3. least \in i + 1..Len(c)
  BY <1>2
<1>4. least - 1 \in 1..Len(c) - 1 /\ least - 1 \in i..Len(c) /\ least - 1 \notin bad
  BY <1>2, <1>3
<1>5. c[least - 1] \in Nat /\ c[(least - 1) + 1] \in Nat
  BY <1>3, <1>4
<1>6. ~(c[least - 1] > c[(least - 1) + 1])
  BY <1>4 DEF OutOfOrder
<1> QED
  BY <1>2, <1>3, <1>4, <1>5, <1>6

LEMMA RanksDiffer ==
    ASSUME NEW c \in Seq(Nat), NEW i \in 1..Len(c)
    PROVE  /\ Rank(c, i) \in 1..Len(c)
           /\ \A j \in 1..Len(c) : c[i] < c[j] \/ (c[i] = c[j] /\ i < j) => Rank(c, i) < Rank(c, j)
<1> DEFINE below(k) == {j \in 1..Len(c) : c[j] < c[k] \/ (c[j] = c[k] /\ j <= k)}
<1>1. Len(c) \in Nat /\ \A k \in 1..Len(c) : c[k] \in Nat
  OBVIOUS
<1>2. IsFiniteSet(1..Len(c)) /\ Cardinality(1..Len(c)) = Len(c)
  <2>1. IsFiniteSet(1..Len(c)) /\ Cardinality(1..Len(c)) = IF 1 > Len(c) THEN 0 ELSE Len(c) - 1 + 1
    BY <1>1, FS_Interval
  <2> QED
    BY <1>1, <2>1
<1>3. \A k \in 1..Len(c) : /\ below(k) \in SUBSET (1..Len(c)) /\ k \in below(k)
                           /\ Rank(c, k) = Cardinality(below(k))
  BY <1>1 DEF Rank
<1> HIDE DEF below
<1>4. \A k \in 1..Len(c) : IsFiniteSet(below(k)) /\ Rank(c, k) \in Nat /\ Rank(c, k) <= Len(c) /\ Rank(c, k) # 0
  BY <1>2, <1>3, FS_Subset, FS_CardinalityType, FS_EmptySet
<1>5. ASSUME NEW j \in 1..Len(c), c[i] < c[j] \/ (c[i] = c[j] /\ i < j)
      PROVE  Rank(c, i) < Rank(c, j)
  <2>1. below(i) \subseteq below(j)
    BY <1>1, <1>5 DEF below
  <2>2. j \notin below(i)
    BY <1>1, <1>5 DEF below
  <2>3. Cardinality(below(i)) <= Cardinality(below(j)) /\ Cardinality(below(i)) # Cardinality(below(j))
    BY <1>3, <1>4, <2>1, <2>2, FS_Subset
  <2> QED
    BY <1>3, <1>4, <2>3
<1> QED
  BY <1>1, <1>4, <1>5

\* Every place is somebody's.
LEMMA RanksReach ==
    ASSUME NEW c \in Seq(Nat), NEW k \in 1..Len(c)
    PROVE  \E i \in 1..Len(c) : Rank(c, i) = k
<1> DEFINE D == 1..Len(c)
           rank == [i \in D |-> Rank(c, i)]
<1>1. IsFiniteSet(D)
  BY FS_Interval
<1>2. \A i \in D : c[i] \in Nat /\ Rank(c, i) \in D
  BY RanksDiffer
<1>3. \A i, j \in D : Rank(c, i) = Rank(c, j) => i = j
  <2> SUFFICES ASSUME NEW i \in D, NEW j \in D, i # j PROVE Rank(c, i) # Rank(c, j)
    OBVIOUS
  <2>0. c[i] \in Nat /\ c[j] \in Nat /\ i \in Nat /\ j \in Nat
    BY <1>2
  <2>1. \/ c[i] < c[j] \/ (c[i] = c[j] /\ i < j)
        \/ c[j] < c[i] \/ (c[j] = c[i] /\ j < i)
    BY <2>0
  <2>2. Rank(c, i) < Rank(c, j) \/ Rank(c, j) < Rank(c, i)
    BY <2>1, RanksDiffer
  <2> QED
    BY <1>2, <2>2
<1> HIDE DEF D
<1>4. rank \in Injection(D, D)
  BY <1>2, <1>3 DEF Injection, IsInjective
<1>5. rank \in Surjection(D, D)
  BY <1>1, <1>4, FS_Injection
<1> QED
  BY <1>5 DEF Surjection, D

LEMMA SortedIs ==
    ASSUME NEW S \in SUBSET Nat, NEW c \in Seq(S)
    PROVE  /\ Sorted(c) \in Seq(S) /\ Len(Sorted(c)) = Len(c) /\ ToSet(Sorted(c)) = ToSet(c)
           /\ (\A i, j \in 1..Len(c) : c[i] = c[j] => i = j)
                 => \A k, l \in 1..Len(c) : k < l => Sorted(c)[k] < Sorted(c)[l]
<1> DEFINE D == 1..Len(c)
           at(k) == CHOOSE i \in D : Rank(c, i) = k
           s == Sorted(c)
<1>1. c \in Seq(Nat) /\ \A i \in D : c[i] \in S /\ c[i] \in Nat
  <2>1. Len(c) \in Nat /\ c \in [1..Len(c) -> S]
    OBVIOUS
  <2>2. c \in [1..Len(c) -> Nat]
    BY <2>1
  <2> QED
    BY <2>1, <2>2
<1>2. \A k \in D : at(k) \in D /\ Rank(c, at(k)) = k
  BY <1>1, RanksReach
<1>3. s = [k \in D |-> c[at(k)]]
  BY DEF Sorted
<1>4. \A i \in D : Rank(c, i) \in D
  BY <1>1, RanksDiffer
<1>5. \A i, j \in D : Rank(c, i) = Rank(c, j) => i = j
  <2> SUFFICES ASSUME NEW i \in D, NEW j \in D, i # j PROVE Rank(c, i) # Rank(c, j)
    OBVIOUS
  <2>1. \/ c[i] < c[j] \/ (c[i] = c[j] /\ i < j)
        \/ c[j] < c[i] \/ (c[j] = c[i] /\ j < i)
    BY <1>1
  <2>2. Rank(c, i) < Rank(c, j) \/ Rank(c, j) < Rank(c, i)
    BY <1>1, <2>1, RanksDiffer
  <2> QED
    BY <1>4, <2>2
<1>6. \A i, j \in D : Rank(c, i) < Rank(c, j) => c[i] <= c[j]
  <2> SUFFICES ASSUME NEW i \in D, NEW j \in D, Rank(c, i) < Rank(c, j), ~(c[i] <= c[j]) PROVE FALSE
    OBVIOUS
  <2>1. c[j] < c[i]
    BY <1>1
  <2>2. Rank(c, j) < Rank(c, i)
    BY <1>1, <2>1, RanksDiffer
  <2> QED
    BY <1>4, <2>2
<1> HIDE DEF at, s
<1>7. s \in Seq(S) /\ Len(s) = Len(c)
  BY <1>1, <1>2, <1>3
<1>8. \A i \in D : s[Rank(c, i)] = c[i]
  BY <1>2, <1>3, <1>4, <1>5
<1>9. ToSet(s) = ToSet(c)
  <2>1. \A k \in D : s[k] \in ToSet(c)
    BY <1>2, <1>3 DEF ToSet
  <2>2. \A i \in D : c[i] \in ToSet(s)
    BY <1>4, <1>7, <1>8 DEF ToSet
  <2> QED
    BY <1>7, <2>1, <2>2 DEF ToSet
<1>10. ASSUME \A i, j \in D : c[i] = c[j] => i = j, NEW k \in D, NEW l \in D, k < l
       PROVE  s[k] < s[l]
  <2>1. c[at(k)] <= c[at(l)]
    BY <1>2, <1>6, <1>10
  <2>2. at(k) # at(l)
    BY <1>2, <1>10
  <2>3. c[at(k)] # c[at(l)]
    BY <1>2, <1>10, <2>2
  <2>4. c[at(k)] \in Nat /\ c[at(l)] \in Nat /\ s[k] = c[at(k)] /\ s[l] = c[at(l)]
    BY <1>1, <1>2, <1>3, <1>10
  <2> QED
    BY <2>1, <2>3, <2>4
<1> QED
  BY <1>7, <1>9, <1>10 DEF s

LEMMA ListedIs ==
    ASSUME NEW S, IsFiniteSet(S)
    PROVE  /\ SetToSeq(S) \in Seq(S) /\ ToSet(SetToSeq(S)) = S
           /\ \A i, j \in 1..Len(SetToSeq(S)) : SetToSeq(S)[i] = SetToSeq(S)[j] => i = j
<1> DEFINE D == 1..Cardinality(S)
           s == SetToSeq(S)
<1>1. Cardinality(S) \in Nat /\ ExistsBijection(D, S)
  BY FS_CardinalityType
<1>2. IsFiniteSet(D) /\ Cardinality(D) = Cardinality(S)
  BY <1>1, FS_Interval
<1>3. \E f \in [D -> S] : IsInjective(f)
  BY <1>1 DEF ExistsBijection, Bijection, Injection
<1>4. s \in [D -> S] /\ IsInjective(s)
  BY <1>3 DEF SetToSeq
<1> HIDE DEF s
<1>5. s \in Injection(D, S)
  BY <1>4 DEF Injection
<1> HIDE DEF D
<1>6. s \in Surjection(D, S)
  BY <1>2, <1>5, FS_Injection
<1>7. DOMAIN s = D /\ s \in Seq(S) /\ Len(s) = Cardinality(S)
  BY <1>1, <1>4 DEF D
<1>8. ToSet(s) = S
  BY <1>4, <1>6, <1>7 DEF ToSet, Surjection
<1> QED
  BY <1>4, <1>7, <1>8 DEF s, IsInjective, D

-----------------------------------------------------------------------------
(* What a fetch makes of the array                                         *)

\* The array holds what it held and the batch, nothing twice that was not
\* there twice.  Only a sort moves what it held.
LEMMA MergedIs ==
    ASSUME NEW S \in SUBSET Nat, cache \in Seq(S), NEW batch \in SUBSET S, IsFiniteSet(batch), NEW paged \in BOOLEAN
    PROVE  LET c == Merged(batch, paged)
           IN  /\ c \in Seq(S) /\ ToSet(c) = ToSet(cache) \cup batch
               /\ Len(c) >= Len(cache)
               /\ Len(c) = Len(cache) => batch \subseteq ToSet(cache)
               /\ ~paged => \A i \in 1..Len(cache) : c[i] = cache[i]
               /\ (\A i, j \in 1..Len(cache) : cache[i] = cache[j] => i = j) /\ (paged \/ ~OutOfOrder(c))
                    => \A i, j \in 1..Len(c) : i < j => c[i] < c[j]
<1> DEFINE fresh == batch \ ToSet(cache)
           list == SetToSeq(fresh)
           new == Sorted(list)
           d == cache \o new
           c == Merged(batch, paged)
<1>1. IsFiniteSet(fresh) /\ fresh \in SUBSET Nat /\ fresh \subseteq S
  BY FS_Subset
<1>2. /\ list \in Seq(fresh) /\ ToSet(list) = fresh
      /\ \A i, j \in 1..Len(list) : list[i] = list[j] => i = j
  BY <1>1, ListedIs
<1> HIDE DEF list
<1>3. /\ new \in Seq(fresh) /\ ToSet(new) = fresh
      /\ \A i, j \in 1..Len(new) : i < j => new[i] < new[j]
  BY <1>1, <1>2, SortedIs
<1> HIDE DEF new
<1>4. new \in Seq(S) /\ Len(new) \in Nat /\ Len(cache) \in Nat
  <2>1. Len(new) \in Nat /\ new \in [1..Len(new) -> fresh]
    BY <1>3
  <2>2. new \in [1..Len(new) -> S]
    BY <1>1, <2>1
  <2> QED
    BY <2>1, <2>2
<1>5. /\ d \in Seq(S) /\ Len(d) = Len(cache) + Len(new)
      /\ \A i \in 1..Len(cache) : d[i] = cache[i]
      /\ \A i \in 1..Len(new) : d[Len(cache) + i] = new[i]
  BY <1>4, ConcatProperties
<1> HIDE DEF d
<1>6. \A i \in 1..Len(d) : i \in 1..Len(cache) \/ (i - Len(cache) \in 1..Len(new) /\ d[i] = new[i - Len(cache)])
  BY <1>4, <1>5
<1>7. ToSet(d) = ToSet(cache) \cup batch
  <2>1. ASSUME NEW e \in ToSet(d) PROVE e \in ToSet(cache) \cup fresh
    <3>1. PICK i \in 1..Len(d) : d[i] = e
      BY <1>5, Elements
    <3>2. CASE i \in 1..Len(cache)
      BY <1>5, <3>1, <3>2, Elements
    <3>3. CASE i - Len(cache) \in 1..Len(new) /\ d[i] = new[i - Len(cache)]
      BY <1>3, <3>1, <3>3, Elements
    <3> QED
      BY <1>6, <3>2, <3>3
  <2>2. ASSUME NEW e \in ToSet(cache) PROVE e \in ToSet(d)
    <3>1. PICK i \in 1..Len(cache) : cache[i] = e
      BY Elements
    <3>2. i \in 1..Len(d) /\ d[i] = e
      BY <1>4, <1>5, <3>1
    <3> QED
      BY <1>5, <3>2, Elements
  <2>3. ASSUME NEW e \in fresh PROVE e \in ToSet(d)
    <3>1. PICK i \in 1..Len(new) : new[i] = e
      BY <1>3, Elements
    <3>2. Len(cache) + i \in 1..Len(d) /\ d[Len(cache) + i] = e
      BY <1>4, <1>5, <3>1
    <3> QED
      BY <1>5, <3>2, Elements
  <2> QED
    BY <2>1, <2>2, <2>3
<1>8. Len(d) = Len(cache) => batch \subseteq ToSet(cache)
  BY <1>3, <1>4, <1>5 DEF ToSet
<1>9. (\A i, j \in 1..Len(cache) : cache[i] = cache[j] => i = j)
        => \A i, j \in 1..Len(d) : d[i] = d[j] => i = j
  <2> SUFFICES ASSUME \A i, j \in 1..Len(cache) : cache[i] = cache[j] => i = j,
                      NEW i \in 1..Len(d), NEW j \in 1..Len(d), i < j, d[i] = d[j]
               PROVE  FALSE
    BY <1>5
  <2>1. \A k \in 1..Len(cache) : cache[k] \in ToSet(cache)
    BY Elements
  <2>2. \A k \in 1..Len(new) : new[k] \notin ToSet(cache) /\ new[k] \in Nat
    BY <1>1, <1>3
  <2>3. CASE j \in 1..Len(cache)
    BY <1>4, <1>5, <2>3
  <2>4. CASE i \in 1..Len(cache) /\ j \notin 1..Len(cache)
    BY <1>5, <1>6, <2>1, <2>2, <2>4
  <2>5. CASE i \notin 1..Len(cache) /\ j \notin 1..Len(cache)
    <3>1. /\ i - Len(cache) \in 1..Len(new) /\ d[i] = new[i - Len(cache)]
          /\ j - Len(cache) \in 1..Len(new) /\ d[j] = new[j - Len(cache)]
          /\ i - Len(cache) < j - Len(cache)
      BY <1>4, <1>5, <1>6, <2>5
    <3>2. new[i - Len(cache)] < new[j - Len(cache)]
      BY <1>3, <3>1
    <3>3. new[i - Len(cache)] = new[j - Len(cache)] /\ new[i - Len(cache)] \in Nat
      BY <2>2, <3>1
    <3> QED
      BY <3>2, <3>3
  <2> QED
    BY <1>4, <1>5, <2>3, <2>4, <2>5
<1>10. c = IF paged THEN Sorted(d) ELSE d
  BY DEF Merged, d, new, list
<1> HIDE DEF c
<1>11. CASE paged
  <2>1. c = Sorted(d)
    BY <1>10, <1>11
  <2>2. /\ c \in Seq(S) /\ Len(c) = Len(d) /\ ToSet(c) = ToSet(d)
        /\ (\A i, j \in 1..Len(d) : d[i] = d[j] => i = j)
             => \A k, l \in 1..Len(c) : k < l => c[k] < c[l]
    BY <1>5, <2>1, SortedIs
  <2>3. Len(c) >= Len(cache) /\ (Len(c) = Len(cache) => batch \subseteq ToSet(cache))
    BY <1>4, <1>5, <1>8, <2>2
  <2> QED
    BY <1>7, <1>9, <1>11, <2>2, <2>3 DEF c
<1>12. CASE ~paged
  <2>1. ASSUME \A i, j \in 1..Len(cache) : cache[i] = cache[j] => i = j, ~OutOfOrder(d),
               NEW i \in 1..Len(d), NEW j \in 1..Len(d), i < j
        PROVE  d[i] < d[j]
    <3>1. d \in Seq(Nat)
      <4>1. Len(d) \in Nat /\ d \in [1..Len(d) -> S]
        BY <1>5
      <4>2. d \in [1..Len(d) -> Nat]
        BY <4>1
      <4> QED
        BY <4>1, <4>2
    <3>2. d[i] <= d[j] /\ d[i] # d[j] /\ d[i] \in Nat /\ d[j] \in Nat
      BY <1>9, <2>1, <3>1, InOrder
    <3> QED
      BY <3>2
  <2> QED
    BY <1>4, <1>5, <1>7, <1>8, <1>10, <1>12, <2>1 DEF c
<1> QED
  BY <1>11, <1>12

-----------------------------------------------------------------------------
(* Types.  What was fetched is no newer than the room.                     *)

Query == [stage : Stage, kind : Kinds \cup {"none"}, arg : 0..N, batch : SUBSET Messages, end : 0..N,
          paged : BOOLEAN, prev : Nat \cup {-1, NoLength}, from : Nat, to : Int]

TypeInv ==
    /\ TypeOK
    /\ token <= n
    /\ \A h \in Queries : query[h].end <= n

LEMMA Numbers ==
    ASSUME TypeInv
    PROVE  /\ n \in Nat /\ N \in Nat /\ token \in 0..n /\ Batch \in Nat /\ Batch > 0
           /\ Messages \in SUBSET Nat /\ Messages \subseteq 1..n
           /\ cache \in Seq(Messages) /\ query \in [Queries -> Query]
           /\ PageSize \in Nat /\ PageSize > 0 /\ CacheMax \in Nat /\ PageSize <= CacheMax
BY ArchiveAssumption DEF TypeInv, TypeOK, Messages, Query

LEMMA IdleType == Idle \in Query
BY ArchiveAssumption DEF Idle, Query, Stage, NoLength

\* The batch that ends at t.
AskedFor(r, t) == r.batch = Fetched(t) \ Noise /\ r.end = EndOf(t)

LEMMA AsksType ==
    ASSUME TypeInv, NEW q \in Query, NEW stage \in Stage, NEW t \in 0..n
    PROVE  LET r == Asks(q, stage, t)
           IN  /\ r \in Query /\ r.end <= n /\ r.stage = stage /\ r.kind = q.kind /\ r.prev = q.prev
               /\ AskedFor(r, t)
<1>1. Top(t) \in Nat /\ Top(t) <= n
  BY Numbers DEF Top
<1>2. OnlyMessages(Fetched(t)) \in SUBSET Messages
  BY <1>1, Numbers DEF OnlyMessages, Fetched, Messages
<1>3. EndOf(t) \in 0..N /\ EndOf(t) <= n
  BY <1>1, Numbers DEF EndOf, TypeInv, TypeOK
<1> QED
  BY <1>2, <1>3 DEF Asks, Query, AskedFor, OnlyMessages

\* What a query becomes that has the array c and the token t: it asks for the
\* next batch, or has its page.
Slices(r, q, c) ==
    LET i == IndexIn(c, q.arg)
    IN  /\ r.stage = "slice" /\ r.arg = q.arg
        /\ r.from = StartIndex(q, c, i) /\ r.to = EndIndex(q, c, i)
        /\ ~NeedsMore(q, c)

LEMMA ProceedsType ==
    ASSUME TypeInv, NEW q \in Query, NEW S, NEW c \in Seq(S), NEW t \in 0..n
    PROVE  LET r == Proceeds(q, c, t)
           IN  /\ r \in Query /\ r.end <= n /\ r.kind = q.kind
               /\ \/ r.stage = "fetch" /\ AskedFor(r, t) /\ NeedsMore(q, c) /\ r.prev = Noted(q, c)
                  \/ Slices(r, q, c)
<1>1. CASE NeedsMore(q, c)
  <2> DEFINE p == [q EXCEPT !.prev = Noted(q, c)]
  <2>1. Noted(q, c) \in Nat \cup {-1, NoLength}
    <3>1. Len(c) - 1 \in Nat \cup {-1}
      OBVIOUS
    <3> QED
      BY <3>1 DEF Noted, Query
  <2>2. p \in Query /\ p.prev = Noted(q, c) /\ p.kind = q.kind
    BY <2>1 DEF Query
  <2>3. Proceeds(q, c, t) = Asks(p, "fetch", t) /\ "fetch" \in Stage
    BY <1>1 DEF Proceeds, Stage
  <2> HIDE DEF p
  <2> QED
    BY <1>1, <2>2, <2>3, AsksType
<1>2. CASE ~NeedsMore(q, c)
  <2> DEFINE i == IndexIn(c, q.arg)
  <2>1. i \in Nat \cup {-1} /\ Len(c) \in Nat
    BY FoundAt
  <2> HIDE DEF i
  <2>2. EndIndex(q, c, i) \in Int
    BY <2>1, Numbers DEF EndIndex
  <2>3. StartIndex(q, c, i) \in Nat
    BY <2>1, <2>2, Numbers DEF StartIndex, AtLeast0
  <2>4. Proceeds(q, c, t) = [Idle EXCEPT !.stage = "slice", !.kind = q.kind, !.arg = q.arg,
                                         !.from = StartIndex(q, c, i), !.to = EndIndex(q, c, i)]
    BY <1>2 DEF Proceeds, i
  <2>5. /\ Proceeds(q, c, t) \in Query
        /\ Proceeds(q, c, t).end = 0 /\ Proceeds(q, c, t).kind = q.kind
        /\ Proceeds(q, c, t).stage = "slice" /\ Proceeds(q, c, t).arg = q.arg
        /\ Proceeds(q, c, t).from = StartIndex(q, c, i) /\ Proceeds(q, c, t).to = EndIndex(q, c, i)
    BY <2>2, <2>3, <2>4, IdleType DEF Idle, Query, Stage
  <2> QED
    BY <1>2, <2>5, Numbers DEF Slices, i
<1> QED
  BY <1>1, <1>2

Fetching(q) == q.stage \in {"boot", "reboot", "fetch"}

LEMMA ResumesType ==
    ASSUME TypeInv, NEW q \in Query, Fetching(q), NEW S, NEW c \in Seq(S), NEW t \in 0..n
    PROVE  LET r == Resumes(q, c, t)
           IN  /\ r \in Query /\ r.end <= n /\ r.kind = q.kind
               /\ \/ r.stage = "reboot" /\ AskedFor(r, t)
                  \/ \E p \in Query :
                        /\ p.kind = q.kind /\ p.arg = q.arg /\ q.stage # "boot"
                        /\ p.prev = q.prev \/ p.prev = Len(c)
                        /\ q.stage = "fetch" /\ q.kind # "since" => p.prev = q.prev
                        /\ q.stage = "reboot" => p.prev = Len(c)
                        /\ \/ r.stage = "fetch" /\ AskedFor(r, t) /\ NeedsMore(p, c) /\ r.prev = Noted(p, c)
                           \/ Slices(r, p, c)
<1>1. CASE q.stage = "boot"
  <2>1. Resumes(q, c, t) = Asks(q, "reboot", t) /\ "reboot" \in Stage
    BY <1>1 DEF Resumes, Stage
  <2> QED
    BY <2>1, AsksType
<1>2. CASE q.stage = "reboot" \/ (q.stage = "fetch" /\ q.kind = "since")
  <2> DEFINE p == [q EXCEPT !.prev = Len(c)]
  <2>1. p \in Query /\ p.kind = q.kind /\ p.arg = q.arg /\ p.prev = Len(c)
    BY DEF Query
  <2>2. Resumes(q, c, t) = Proceeds(p, c, t)
    BY <1>2 DEF Resumes
  <2> HIDE DEF p
  <2> QED
    BY <1>2, <2>1, <2>2, ProceedsType
<1>3. CASE q.stage = "fetch" /\ q.kind # "since"
  <2>1. Resumes(q, c, t) = Proceeds(q, c, t)
    BY <1>3 DEF Resumes
  <2> QED
    BY <1>3, <2>1, ProceedsType
<1> QED
  BY <1>1, <1>2, <1>3 DEF Fetching

\* A new query fetches at once, or has its page.
Begun(r, kind, arg) ==
    \/ ~created /\ r.stage = "boot" /\ AskedFor(r, 0)
    \/ /\ created
       /\ \E p \in Query :
             /\ p.kind = kind /\ p.arg = arg /\ p.prev = NoLength
             /\ \/ r.stage = "fetch" /\ AskedFor(r, token) /\ NeedsMore(p, cache) /\ r.prev = Noted(p, cache)
                \/ Slices(r, p, cache)

LEMMA AskIs ==
    ASSUME TypeInv, NEW h \in Queries, NEW kind \in Kinds, NEW arg \in 0..N, Ask(h, kind, arg)
    PROVE  /\ created' = TRUE /\ asked' \in 0..MaxQueries
           /\ UNCHANGED <<n, adding, cache, token, mishaps>>
           /\ \E r \in Query :
                /\ query' = [query EXCEPT ![h] = r] /\ r.end <= n /\ r.kind = kind
                /\ Begun(r, kind, arg)
<1> DEFINE p == [Idle EXCEPT !.kind = kind, !.arg = arg]
<1>1. p \in Query /\ p.kind = kind /\ p.arg = arg /\ p.prev = NoLength
  BY IdleType DEF Query, Idle
<1>2. asked' \in 0..MaxQueries /\ UNCHANGED <<n, adding, cache, token, mishaps>>
  BY ArchiveAssumption DEF Ask, TypeInv, TypeOK
<1>3. CASE created
  <2>1. query' = [query EXCEPT ![h] = Proceeds(p, cache, token)] /\ created' = TRUE
    BY <1>3 DEF Ask
  <2> HIDE DEF p
  <2>2. cache \in Seq(Messages) /\ token \in 0..n
    BY Numbers
  <2> QED
    BY <1>1, <1>2, <1>3, <2>1, <2>2, ProceedsType DEF Begun
<1>4. CASE ~created
  <2>1. query' = [query EXCEPT ![h] = Asks(p, "boot", 0)] /\ created' = TRUE
    BY <1>4 DEF Ask, BeforeFetch
  <2> HIDE DEF p
  <2>2. 0 \in 0..n /\ "boot" \in Stage
    BY Numbers DEF Stage
  <2> QED
    BY <1>1, <1>2, <1>4, <2>1, <2>2, AsksType DEF Begun
<1> QED
  BY <1>3, <1>4 DEF TypeInv, TypeOK

\* The array a fetch leaves behind.
LEMMA ConvergeIs ==
    ASSUME TypeInv, NEW h \in Queries, Converge(h)
    PROVE  /\ Fetching(query[h]) /\ query[h] \in Query
           /\ cache' = Merged(query[h].batch, query[h].paged)
           /\ cache' \in Seq(Messages) /\ ToSet(cache') = ToSet(cache) \cup query[h].batch
           /\ Len(cache') >= Len(cache)
           /\ Len(cache') = Len(cache) => query[h].batch \subseteq ToSet(cache)
           /\ ~query[h].paged => \A i \in 1..Len(cache) : cache'[i] = cache[i]
           /\ (\A i, j \in 1..Len(cache) : cache[i] = cache[j] => i = j) /\ (query[h].paged \/ ~OutOfOrder(cache'))
                => \A i, j \in 1..Len(cache') : i < j => cache'[i] < cache'[j]
           /\ created' = TRUE /\ token' = query[h].end /\ token' \in 0..n
           /\ query' = [query EXCEPT ![h] = Resumes(query[h], cache', token')]
           /\ mishaps' = mishaps \cup Mishaps(h, cache')
           /\ UNCHANGED <<n, adding, asked>>
<1> DEFINE q == query[h]
<1>1. /\ Fetching(q) /\ cache' = Merged(q.batch, q.paged) /\ created' = TRUE /\ token' = q.end
      /\ query' = [query EXCEPT ![h] = Resumes(q, cache', token')]
      /\ mishaps' = mishaps \cup Mishaps(h, cache')
      /\ UNCHANGED <<n, adding, asked>>
  BY DEF Converge, Fetching
<1>2. q \in Query /\ q.end \in Nat /\ q.end <= n
  BY Numbers DEF TypeInv, Query
<1>3. q.batch \in SUBSET Messages /\ q.paged \in BOOLEAN
  BY <1>2 DEF Query
<1>4. IsFiniteSet(q.batch)
  <2>1. n \in Int /\ 1 \in Int /\ q.batch \subseteq 1..n
    BY <1>3, Numbers
  <2>2. IsFiniteSet(1..n)
    BY <2>1, FS_Interval
  <2> QED
    BY <2>1, <2>2, FS_Subset
<1>6. Messages \in SUBSET Nat /\ cache \in Seq(Messages)
  BY Numbers
<1> HIDE DEF q
<1>5. LET c == Merged(q.batch, q.paged)
      IN  /\ c \in Seq(Messages) /\ ToSet(c) = ToSet(cache) \cup q.batch
          /\ Len(c) >= Len(cache)
          /\ Len(c) = Len(cache) => q.batch \subseteq ToSet(cache)
          /\ ~q.paged => \A i \in 1..Len(cache) : c[i] = cache[i]
          /\ (\A i, j \in 1..Len(cache) : cache[i] = cache[j] => i = j) /\ (q.paged \/ ~OutOfOrder(c))
               => \A i, j \in 1..Len(c) : i < j => c[i] < c[j]
  BY <1>3, <1>4, <1>6, MergedIs
<1>7. /\ cache' \in Seq(Messages) /\ ToSet(cache') = ToSet(cache) \cup q.batch
      /\ Len(cache') >= Len(cache)
      /\ Len(cache') = Len(cache) => q.batch \subseteq ToSet(cache)
      /\ ~q.paged => \A i \in 1..Len(cache) : cache'[i] = cache[i]
      /\ (\A i, j \in 1..Len(cache) : cache[i] = cache[j] => i = j) /\ (q.paged \/ ~OutOfOrder(cache'))
           => \A i, j \in 1..Len(cache') : i < j => cache'[i] < cache'[j]
  <2> DEFINE c == Merged(q.batch, q.paged)
  <2>1. cache' = c
    BY <1>1
  <2> HIDE DEF c
  <2> QED
    BY <1>5, <2>1 DEF c
<1>8. token' \in 0..n
  BY <1>1, <1>2, Numbers
<1> QED
  BY <1>1, <1>2, <1>7, <1>8 DEF q

LEMMA FailsIs ==
    ASSUME TypeInv, NEW h \in Queries, FetchFails(h)
    PROVE  /\ Fetching(query[h]) /\ query[h] \in Query
           /\ created' = TRUE
           /\ query' = [query EXCEPT ![h] = Resumes(query[h], cache, token)]
           /\ mishaps' = mishaps \cup {"fail"}
           /\ UNCHANGED <<n, adding, cache, token, asked>>
BY Numbers DEF FetchFails, Fetching

\* The steps of Next that begin a query.
Asked == \E h \in Queries, kind \in Kinds, arg \in 0..N : Ask(h, kind, arg)

LEMMA NextIs ==
    ASSUME TypeInv, Next
    PROVE  \/ Asked
           \/ \E h \in Queries : Converge(h) \/ FetchFails(h) \/ Answer(h)
           \/ Post
           \/ \E e \in 1..N : AddEntry(e) \/ LoseEntry(e)
<1>1. 0 \in 0..N /\ Messages \subseteq 0..N
  BY Numbers DEF TypeInv, TypeOK
<1> QED
  BY <1>1 DEF Next, Asked

LEMMA InitType == Init => TypeInv
<1> SUFFICES ASSUME Init PROVE TypeInv
  OBVIOUS
<1>1. n \in 0..N /\ token = 0 /\ <<>> \in Seq(Messages) /\ N \in Nat /\ asked \in 0..MaxQueries
  BY ArchiveAssumption DEF Init
<1>2. \A h \in Queries : query[h] = Idle /\ query[h].end = 0
  BY DEF Init, Idle
<1>3. query \in [Queries -> Query]
  BY IdleType DEF Init
<1> QED
  <2>1. adding \subseteq Messages /\ created \in BOOLEAN /\ cache \in Seq(Messages)
    BY <1>1 DEF Init
  <2>4. token \in 0..N /\ token <= n
    BY <1>1
  <2>2. mishaps \subseteq EnvironmentEvents \cup {"twin", "disorder", "shift", "dry"} /\ asked \in 0..MaxQueries
    BY <1>1 DEF Init
  <2>3. \A h \in Queries : query[h].end <= n
    BY <1>1, <1>2
  <2> QED
    BY <1>1, <1>3, <2>1, <2>2, <2>3, <2>4 DEF TypeInv, TypeOK, Query

\* The queries a step leaves alone stay what they are.
LEMMA OthersType ==
    ASSUME TypeInv, NEW h \in Queries, NEW r \in Query, r.end <= n, query' = [query EXCEPT ![h] = r], n' = n
    PROVE  /\ query' \in [Queries -> Query'] /\ (\A k \in Queries : query'[k].end <= n')
           /\ query'[h] = r /\ \A k \in Queries : k # h => query'[k] = query[k]
<1>1. Query' = Query
  BY DEF Query, Messages
<1> QED
  BY <1>1, Numbers DEF TypeInv

LEMMA RoomType ==
    ASSUME TypeInv, Post \/ \E e \in 1..N : AddEntry(e) \/ LoseEntry(e)
    PROVE  TypeInv'
<1>1. CASE Post
  <2>1. n' = n + 1 /\ n' \in 0..N /\ UNCHANGED <<created, cache, token, query, asked, mishaps>>
    BY <1>1, Numbers DEF Post, TypeInv, TypeOK
  <2>2. Messages \subseteq Messages' /\ adding' \subseteq Messages'
    BY <1>1, <2>1, Numbers DEF Post, Messages, TypeInv, TypeOK
  <2>3. Query \subseteq Query'
    BY <2>2 DEF Query
  <2>4. cache' \in Seq(Messages')
    <3>1. Len(cache) \in Nat /\ cache \in [1..Len(cache) -> Messages]
      BY Numbers
    <3>2. cache \in [1..Len(cache) -> Messages']
      BY <2>2, <3>1
    <3> QED
      BY <2>1, <3>1, <3>2
  <2>5. query' \in [Queries -> Query'] /\ token' <= n' /\ \A h \in Queries : query'[h].end <= n'
    <3>1. \A h \in Queries : query[h].end \in Nat /\ query[h].end <= n
      BY Numbers DEF TypeInv, Query
    <3> QED
      BY <2>1, <2>3, <3>1, Numbers
  <2> QED
    BY <2>1, <2>2, <2>4, <2>5 DEF TypeInv, TypeOK, Query
<1>2. ASSUME NEW e \in 1..N, AddEntry(e) PROVE TypeInv'
  <2>1. UNCHANGED <<n, created, token, query, asked>> /\ adding' \subseteq adding /\ e \in adding
    BY <1>2 DEF AddEntry
  <2>2. Messages' = Messages
    BY <2>1 DEF Messages
  <2>3. cache' \in Seq(Messages)
    <3>1. e \in Messages
      BY <2>1 DEF TypeInv, TypeOK
    <3> QED
      BY <1>2, <3>1, Numbers DEF AddEntry
  <2>4. mishaps' \subseteq EnvironmentEvents \cup {"twin", "disorder", "shift", "dry"}
    BY <1>2 DEF AddEntry, TypeInv, TypeOK, EnvironmentEvents
  <2> QED
    BY <2>1, <2>2, <2>3, <2>4 DEF TypeInv, TypeOK
<1>3. ASSUME NEW e \in 1..N, LoseEntry(e) PROVE TypeInv'
  <2>1. UNCHANGED <<n, created, cache, token, query, asked>> /\ adding' \subseteq adding
        /\ mishaps' = mishaps \cup {"lost"}
    BY <1>3 DEF LoseEntry
  <2>2. Messages' = Messages
    BY <2>1 DEF Messages
  <2> QED
    BY <2>1, <2>2 DEF TypeInv, TypeOK, EnvironmentEvents
<1> QED
  BY <1>1, <1>2, <1>3

LEMMA NextType ==
    ASSUME TypeInv, [Next]_vars
    PROVE  TypeInv'
<1>1. CASE UNCHANGED vars
  BY <1>1 DEF vars, TypeInv, TypeOK, Messages
<1>2. CASE Asked
  <2>1. PICK h \in Queries, kind \in Kinds, arg \in 0..N : Ask(h, kind, arg)
    BY <1>2 DEF Asked
  <2>2. /\ created' = TRUE /\ asked' \in 0..MaxQueries
        /\ UNCHANGED <<n, adding, cache, token, mishaps>>
        /\ \E r \in Query : query' = [query EXCEPT ![h] = r] /\ r.end <= n
    BY <2>1, AskIs
  <2>3. query' \in [Queries -> Query'] /\ \A k \in Queries : query'[k].end <= n'
    BY <2>2, OthersType
  <2> QED
    BY <2>2, <2>3 DEF TypeInv, TypeOK, Messages, Query
<1>3. ASSUME NEW h \in Queries, Converge(h) PROVE TypeInv'
  <2>1. /\ Fetching(query[h]) /\ query[h] \in Query
        /\ cache' \in Seq(Messages) /\ created' = TRUE /\ token' \in 0..n
        /\ query' = [query EXCEPT ![h] = Resumes(query[h], cache', token')]
        /\ mishaps' = mishaps \cup Mishaps(h, cache')
        /\ UNCHANGED <<n, adding, asked>>
    BY <1>3, ConvergeIs
  <2>2. Resumes(query[h], cache', token') \in Query /\ Resumes(query[h], cache', token').end <= n
    BY <2>1, ResumesType
  <2>3. query' \in [Queries -> Query'] /\ \A k \in Queries : query'[k].end <= n'
    BY <2>1, <2>2, OthersType
  <2>4. mishaps' \subseteq EnvironmentEvents \cup {"twin", "disorder", "shift", "dry"}
    BY <2>1 DEF Mishaps, TypeInv, TypeOK
  <2>5. Messages' = Messages /\ token' <= n' /\ token' \in 0..N
    BY <2>1, Numbers DEF Messages, TypeInv, TypeOK
  <2> QED
    BY <2>1, <2>3, <2>4, <2>5 DEF TypeInv, TypeOK, Query
<1>4. ASSUME NEW h \in Queries, FetchFails(h) PROVE TypeInv'
  <2>1. /\ Fetching(query[h]) /\ query[h] \in Query /\ created' = TRUE
        /\ query' = [query EXCEPT ![h] = Resumes(query[h], cache, token)]
        /\ mishaps' = mishaps \cup {"fail"}
        /\ UNCHANGED <<n, adding, cache, token, asked>>
    BY <1>4, FailsIs
  <2>2. Resumes(query[h], cache, token) \in Query /\ Resumes(query[h], cache, token).end <= n
    BY <2>1, Numbers, ResumesType
  <2>3. query' \in [Queries -> Query'] /\ \A k \in Queries : query'[k].end <= n'
    BY <2>1, <2>2, OthersType
  <2> QED
    BY <2>1, <2>3 DEF TypeInv, TypeOK, Messages, Query, EnvironmentEvents
<1>5. ASSUME NEW h \in Queries, Answer(h) PROVE TypeInv'
  <2>1. query' = [query EXCEPT ![h] = Idle] /\ UNCHANGED <<n, adding, created, cache, token, asked, mishaps>>
    BY <1>5 DEF Answer
  <2>2. Idle.end <= n
    BY Numbers DEF Idle
  <2>3. query' \in [Queries -> Query'] /\ \A k \in Queries : query'[k].end <= n'
    BY <2>1, <2>2, IdleType, OthersType
  <2> QED
    BY <2>1, <2>3 DEF TypeInv, TypeOK, Messages, Query
<1> QED
  BY <1>1, <1>2, <1>3, <1>4, <1>5, NextIs, RoomType

\* Every variable keeps its type: what a fetch brings are messages of the room,
\* the array never holds anything else, and the indexes of a page are numbers
\* whatever the query asked for.
THEOREM ArchiveTypes == Spec => []TypeOK
<1>1. TypeInv => TypeOK
  BY DEF TypeInv
<1> QED
  BY <1>1, InitType, NextType, PTL DEF Spec

-----------------------------------------------------------------------------
(* What has been fetched: a batch, with what is in the array already, has  *)
(* every message from its oldest event on; so has the array from the token *)
(* on.                                                                     *)

Settled == Messages \ adding
Oldest(q) == IF q.end = 0 THEN 1 ELSE q.end

HasFrom(s, e) == \A f \in Settled : f >= e => f \in s

TokenOK == token # 0 => HasFrom(ToSet(cache), token)
BatchOK(q) == /\ \A e \in q.batch : e >= Oldest(q)
              /\ "lost" \notin mishaps => HasFrom(q.batch \cup ToSet(cache), Oldest(q))

FetchInv ==
    /\ "lost" \notin mishaps => TokenOK
    /\ \A h \in Queries : Fetching(query[h]) => BatchOK(query[h])
    /\ ~created => cache = <<>> /\ token = 0 /\ \A h \in Queries : query[h].stage = "idle"

\* Messages are added in their order.
InTurn == mishaps \cap {"lost", "reorder"} = {} => \A f \in adding, e \in Messages : e > f => e \in adding

HolesInv == InTurn /\ NoHoles

\* A batch that is asked for with the token goes on where the array ends.
LEMMA AskedCovers ==
    ASSUME TypeInv, NEW r, NEW t \in 0..n, AskedFor(r, t), NEW array
    PROVE  /\ \A e \in r.batch : e >= Oldest(r)
           /\ (t # 0 => HasFrom(array, t)) => HasFrom(r.batch \cup array, Oldest(r))
<1>1. r.batch = Fetched(t) \ Noise /\ r.end = EndOf(t)
  BY DEF AskedFor
<1>2. Top(t) \in Nat /\ Top(t) <= n /\ Batch \in Nat /\ Batch > 0 /\ n \in Nat /\ t \in Nat
  BY Numbers DEF Top
<1>3. \A e \in Nat : e >= 1 /\ e <= Top(t) => (e > Top(t) - Batch <=> e >= Oldest(r))
  BY <1>1, <1>2 DEF EndOf, Oldest
<1>4. Oldest(r) \in Nat /\ Oldest(r) >= 1
  BY <1>1, <1>2 DEF EndOf, Oldest
<1>5. ASSUME NEW e \in r.batch PROVE e >= Oldest(r)
  BY <1>1, <1>2, <1>3 DEF Fetched
<1>6. ASSUME t # 0 => HasFrom(array, t), NEW f \in Settled, f >= Oldest(r)
      PROVE  f \in r.batch \cup array
  <2>1. f \in 1..n /\ f \notin Noise
    BY DEF Settled, Messages
  <2>2. CASE f <= Top(t)
    BY <1>1, <1>2, <1>3, <1>6, <2>1, <2>2 DEF Fetched
  <2>3. CASE ~(f <= Top(t))
    <3>1. t # 0 /\ f >= t
      BY <1>2, <2>1, <2>3 DEF Top
    <3> QED
      BY <1>6, <3>1 DEF HasFrom
  <2> QED
    BY <2>2, <2>3
<1> QED
  BY <1>5, <1>6 DEF HasFrom

\* More in the array, and nothing more that is settled.
LEMMA MoreCovers ==
    ASSUME NEW q, BatchOK(q), Settled' \subseteq Settled, mishaps \subseteq mishaps', ToSet(cache) \subseteq ToSet(cache')
    PROVE  /\ \A e \in q.batch : e >= Oldest(q)
           /\ "lost" \notin mishaps' => \A f \in Settled' : f >= Oldest(q) => f \in q.batch \cup ToSet(cache')
BY DEF BatchOK, HasFrom

LEMMA InitFetch == Init => FetchInv /\ HolesInv
<1> SUFFICES ASSUME Init PROVE FetchInv /\ HolesInv
  OBVIOUS
<1>1. /\ cache = <<>> /\ token = 0 /\ adding = {} /\ \A h \in Queries : query[h].stage = "idle"
  BY DEF Init, Idle
<1>2. FetchInv
  BY <1>1 DEF FetchInv, TokenOK, Fetching
<1> QED
  BY <1>1, <1>2 DEF HolesInv, InTurn, NoHoles

LEMMA QueryFetch ==
    ASSUME TypeInv, FetchInv, NEW h \in Queries, NEW r \in Query, r.end <= n, query' = [query EXCEPT ![h] = r],
           UNCHANGED <<n, adding>>, created' = TRUE, mishaps \subseteq mishaps',
           ToSet(cache) \subseteq ToSet(cache'),
           "lost" \notin mishaps' => TokenOK',
           Fetching(r) => BatchOK(r)'
    PROVE  FetchInv'
<1>1. query'[h] = r /\ \A k \in Queries : k # h => query'[k] = query[k]
  BY OthersType
<1>2. Settled' = Settled
  BY DEF Settled, Messages
<1>3. ASSUME NEW k \in Queries, Fetching(query'[k]) PROVE BatchOK(query[k])'
  <2>1. CASE k = h
    BY <1>1, <1>3, <2>1
  <2>2. CASE k # h
    <3> DEFINE q == query[k]
    <3>1. BatchOK(q) /\ query'[k] = q
      BY <1>1, <1>3, <2>2 DEF FetchInv
    <3>2. /\ \A e \in q.batch : e >= Oldest(q)
          /\ "lost" \notin mishaps' => \A f \in Settled' : f >= Oldest(q) => f \in q.batch \cup ToSet(cache')
      BY <1>2, <3>1, MoreCovers
    <3> HIDE DEF q
    <3> QED
      BY <3>1, <3>2 DEF BatchOK, HasFrom, Oldest
  <2> QED
    BY <2>1, <2>2
<1> QED
  BY <1>3 DEF FetchInv, Fetching

LEMMA AskFetch ==
    ASSUME TypeInv, FetchInv, Asked
    PROVE  FetchInv' /\ (HolesInv => HolesInv')
<1>1. PICK h \in Queries, kind \in Kinds, arg \in 0..N : Ask(h, kind, arg)
  BY DEF Asked
<1>2. created' = TRUE /\ UNCHANGED <<n, adding, cache, token, mishaps>>
  BY <1>1, AskIs
<1>3. PICK r \in Query :
         /\ query' = [query EXCEPT ![h] = r] /\ r.end <= n
         /\ \/ r.stage = "slice"
            \/ AskedFor(r, token)
  <2>1. ~created => token = 0
    BY DEF FetchInv
  <2>2. PICK r \in Query : query' = [query EXCEPT ![h] = r] /\ r.end <= n /\ Begun(r, kind, arg)
    BY <1>1, AskIs
  <2>3. r.stage = "slice" \/ AskedFor(r, token)
    BY <2>1, <2>2 DEF Begun, Slices
  <2> QED
    BY <2>2, <2>3
<1>4. Fetching(r) => BatchOK(r)
  <2>1. token \in 0..n /\ ("lost" \notin mishaps => (token # 0 => HasFrom(ToSet(cache), token)))
    BY Numbers DEF FetchInv, TokenOK
  <2> QED
    BY <1>3, <2>1, AskedCovers DEF Fetching, BatchOK
<1>5. Fetching(r) => BatchOK(r)'
  BY <1>2, <1>4 DEF BatchOK, HasFrom, Settled, Messages
<1>6. "lost" \notin mishaps' => TokenOK'
  BY <1>2 DEF FetchInv, TokenOK, HasFrom, Settled, Messages
<1>7. FetchInv'
  BY <1>2, <1>3, <1>5, <1>6, QueryFetch
<1> QED
  BY <1>2, <1>7 DEF HolesInv, InTurn, NoHoles, Messages

LEMMA ResumeFetch ==
    ASSUME TypeInv, TypeInv', FetchInv, NEW h \in Queries, Fetching(query[h]), created' = TRUE,
           query' = [query EXCEPT ![h] = Resumes(query[h], cache', token')],
           UNCHANGED <<n, adding>>, mishaps \subseteq mishaps', ToSet(cache) \subseteq ToSet(cache'),
           "lost" \notin mishaps' => TokenOK'
    PROVE  FetchInv'
<1> DEFINE r == Resumes(query[h], cache', token')
<1>1. query[h] \in Query /\ cache' \in Seq(Messages') /\ token' \in 0..n
  BY Numbers DEF TypeInv, TypeOK
<1>2. r \in Query /\ r.end <= n /\ (r.stage = "slice" \/ AskedFor(r, token'))
  BY <1>1, ResumesType DEF Slices
<1>3. query' = [query EXCEPT ![h] = r]
  OBVIOUS
<1> HIDE DEF r
<1>4. PICK p : p = r
  OBVIOUS
<1>5. AskedFor(p, token') => BatchOK(p)'
  <2> DEFINE array == ToSet(cache')
  <2>1. Settled' = Settled
    BY DEF Settled, Messages
  <2>2. "lost" \notin mishaps' => (token' # 0 => HasFrom(array, token'))
    BY <2>1 DEF TokenOK, HasFrom
  <2> HIDE DEF array
  <2>3. ASSUME AskedFor(p, token')
        PROVE  /\ \A e \in p.batch : e >= Oldest(p)
               /\ "lost" \notin mishaps' => HasFrom(p.batch \cup array, Oldest(p))
    BY <1>1, <2>2, <2>3, AskedCovers
  <2> QED
    BY <2>1, <2>3 DEF BatchOK, HasFrom, Oldest, array
<1> QED
  BY <1>2, <1>3, <1>4, <1>5, QueryFetch DEF Fetching

LEMMA FetchFetch ==
    ASSUME TypeInv, TypeInv', FetchInv, NEW h \in Queries, Converge(h) \/ FetchFails(h)
    PROVE  FetchInv' /\ (HolesInv => HolesInv')
<1>1. CASE Converge(h)
  <2> DEFINE q == query[h]
  <2>1. /\ Fetching(q) /\ ToSet(cache') = ToSet(cache) \cup q.batch /\ cache' \in Seq(Messages)
        /\ created' = TRUE /\ token' = q.end
        /\ query' = [query EXCEPT ![h] = Resumes(query[h], cache', token')]
        /\ mishaps' = mishaps \cup Mishaps(h, cache') /\ UNCHANGED <<n, adding>>
    BY <1>1, ConvergeIs
  <2>2. BatchOK(q)
    BY <2>1 DEF FetchInv
  <2>3. Settled' = Settled /\ Messages' = Messages
    BY <2>1 DEF Settled, Messages
  <2>4. "lost" \notin mishaps' => TokenOK'
    BY <2>1, <2>2, <2>3 DEF BatchOK, TokenOK, HasFrom, Oldest
  <2>5. FetchInv'
    BY <2>1, <2>4, ResumeFetch
  <2>6. ASSUME HolesInv, mishaps' \cap {"lost", "reorder"} = {},
               NEW e \in Settled, NEW i \in 1..Len(cache'), cache'[i] < e
        PROVE  e \in ToSet(cache')
    <3>1. cache'[i] \in ToSet(cache) \cup q.batch /\ "lost" \notin mishaps
      BY <2>1, <2>6, Elements
    <3>2. CASE cache'[i] \in ToSet(cache)
      <4>1. PICK k \in 1..Len(cache) : cache[k] = cache'[i]
        BY <3>2, Numbers, Elements
      <4>2. e \in Messages \ adding /\ mishaps \cap {"lost", "reorder"} = {}
        BY <2>1, <2>6 DEF Settled
      <4>3. \E j \in 1..Len(cache) : cache[j] = e
        BY <2>6, <4>1, <4>2 DEF HolesInv, NoHoles
      <4> QED
        BY <2>1, <4>3, Numbers, Elements
    <3>3. CASE cache'[i] \in q.batch
      <4>1. cache'[i] \in Nat /\ e \in Nat /\ Oldest(q) \in Nat
        BY <2>1, <2>6, Numbers, Elements DEF Settled, Oldest, TypeInv, Query
      <4>2. e >= Oldest(q)
        BY <2>2, <2>6, <3>3, <4>1 DEF BatchOK
      <4> QED
        BY <2>1, <2>2, <2>6, <3>1, <4>2 DEF BatchOK, HasFrom
    <3> QED
      BY <3>1, <3>2, <3>3
  <2>7. ASSUME HolesInv PROVE HolesInv'
    <3>1. InTurn'
      BY <2>1, <2>3, <2>7 DEF HolesInv, InTurn
    <3>2. NoHoles'
      BY <2>1, <2>3, <2>6, <2>7, Elements DEF NoHoles, Settled
    <3> QED
      BY <3>1, <3>2 DEF HolesInv
  <2> QED
    BY <2>5, <2>7
<1>2. CASE FetchFails(h)
  <2>1. /\ Fetching(query[h]) /\ created' = TRUE
        /\ query' = [query EXCEPT ![h] = Resumes(query[h], cache, token)]
        /\ mishaps' = mishaps \cup {"fail"} /\ UNCHANGED <<n, adding, cache, token>>
    BY <1>2, FailsIs
  <2>2. Settled' = Settled
    BY <2>1 DEF Settled, Messages
  <2>3. "lost" \notin mishaps' => TokenOK'
    BY <2>1, <2>2 DEF FetchInv, TokenOK, HasFrom
  <2>4. FetchInv'
    BY <2>1, <2>3, ResumeFetch
  <2> QED
    BY <2>1, <2>4 DEF HolesInv, InTurn, NoHoles, Messages
<1> QED
  BY <1>1, <1>2

LEMMA AnswerFetch ==
    ASSUME TypeInv, FetchInv, NEW h \in Queries, Answer(h)
    PROVE  FetchInv' /\ (HolesInv => HolesInv')
<1>1. query' = [query EXCEPT ![h] = Idle] /\ UNCHANGED <<n, adding, created, cache, token, asked, mishaps>>
  BY DEF Answer
<1>2. Idle.stage = "idle" /\ \A k \in Queries : query'[k] = query[k] \/ query'[k] = Idle
  BY <1>1, Numbers DEF Idle
<1>3. FetchInv'
  BY <1>1, <1>2 DEF FetchInv, TokenOK, BatchOK, HasFrom, Settled, Messages, Fetching
<1> QED
  BY <1>1, <1>3 DEF HolesInv, InTurn, NoHoles, Messages

\* A message that is posted is not settled, one that is added is in the array
\* when there is one.
LEMMA RoomFetch ==
    ASSUME TypeInv, FetchInv, Post \/ \E e \in 1..N : AddEntry(e) \/ LoseEntry(e)
    PROVE  FetchInv' /\ (HolesInv => HolesInv')
<1>0. n \in Nat /\ adding \subseteq Messages /\ cache \in Seq(Messages) /\ Messages \subseteq 1..n /\ created \in BOOLEAN
  BY Numbers DEF TypeInv, TypeOK
<1>1. CASE Post
  <2>1. n' = n + 1 /\ UNCHANGED <<created, cache, token, query, asked, mishaps>>
    BY <1>1 DEF Post
  <2>2. /\ adding \subseteq adding'
        /\ \A e \in Messages' : e \in Messages \/ (e = n + 1 /\ e \in adding')
        /\ \A e \in adding' : e \in adding \/ e = n + 1
        /\ Messages \subseteq Messages'
    BY <1>0, <1>1, <2>1 DEF Post, Messages
  <2>6. n + 1 \notin Messages
    BY <1>0
  <2>3. Settled' = Settled
    BY <1>0, <2>2, <2>6 DEF Settled
  <2>4. FetchInv'
    BY <2>1, <2>3 DEF FetchInv, TokenOK, BatchOK, HasFrom, Fetching, Oldest
  <2>5. InTurn => InTurn'
    <3> SUFFICES ASSUME InTurn, mishaps \cap {"lost", "reorder"} = {},
                        NEW f \in adding', NEW e \in Messages', e > f
                 PROVE  e \in adding'
      BY <2>1 DEF InTurn
    <3>1. e \in Nat /\ e <= n + 1 /\ f \in Nat
      BY <1>0, <2>2
    <3>2. f \in adding
      BY <1>0, <2>2, <3>1
    <3> QED
      BY <2>2, <3>2 DEF InTurn
  <2> QED
    BY <2>1, <2>3, <2>4, <2>5 DEF HolesInv, NoHoles, Settled
<1>2. ASSUME NEW e \in 1..N, AddEntry(e) PROVE FetchInv' /\ (HolesInv => HolesInv')
  <2>1. /\ UNCHANGED <<n, created, token, query, asked>> /\ adding' = adding \ {e} /\ e \in adding
        /\ mishaps \subseteq mishaps' /\ (Overtakes(e) => "reorder" \in mishaps')
        /\ cache' = IF created THEN Append(cache, e) ELSE cache
    BY <1>2 DEF AddEntry
  <2>2. Messages' = Messages /\ Settled' = Settled \cup {e} /\ e \in Messages
    BY <1>0, <2>1 DEF Settled, Messages
  <2>3. ToSet(cache') = ToSet(cache) \cup (IF created THEN {e} ELSE {})
    <3>1. CASE created
      <4>1. cache' = Append(cache, e)
        BY <2>1, <3>1
      <4>2. ToSet(Append(cache, e)) = ToSet(cache) \cup {e}
        BY <1>0, <2>2, OneMore
      <4> QED
        BY <3>1, <4>1, <4>2
    <3>2. CASE ~created
      BY <2>1, <3>2
    <3> QED
      BY <3>1, <3>2
  <2>4. CASE ~created
    <3>1. cache' = cache /\ cache = <<>> /\ token = 0 /\ \A h \in Queries : query[h].stage = "idle"
      BY <2>1, <2>4 DEF FetchInv
    <3>2. FetchInv'
      BY <2>1, <2>4, <3>1 DEF FetchInv, TokenOK, Fetching
    <3>3. NoHoles'
      BY <3>1 DEF NoHoles
    <3>4. InTurn => InTurn'
      BY <2>1, <2>2 DEF InTurn, Overtakes
    <3> QED
      BY <3>2, <3>3, <3>4 DEF HolesInv
  <2>5. CASE created
    <3>1. \A f \in Settled' : f \in Settled \/ f \in ToSet(cache')
      BY <2>2, <2>3, <2>5
    <3>2. "lost" \notin mishaps' => TokenOK'
      BY <2>1, <2>3, <2>5, <3>1 DEF FetchInv, TokenOK, HasFrom
    <3>3. \A h \in Queries : Fetching(query[h]) => BatchOK(query[h])'
      BY <2>1, <2>3, <2>5, <3>1 DEF FetchInv, BatchOK, HasFrom, Oldest
    <3>4. FetchInv'
      BY <2>1, <2>5, <3>2, <3>3 DEF FetchInv, Fetching
    <3>5. InTurn => InTurn'
      <4> SUFFICES ASSUME InTurn, mishaps' \cap {"lost", "reorder"} = {},
                          NEW f \in adding', NEW g \in Messages', g > f
                   PROVE  g \in adding'
        BY DEF InTurn
      <4>1. g \in adding /\ f \in adding
        BY <2>1, <2>2 DEF InTurn
      <4>2. ~Overtakes(e) /\ g \in Nat /\ f \in Nat
        BY <1>0, <2>1, <4>1
      <4>3. g # e
        BY <4>1, <4>2 DEF Overtakes
      <4> QED
        BY <2>1, <4>1, <4>3
    <3>6. ASSUME InTurn, NoHoles, mishaps' \cap {"lost", "reorder"} = {},
                 NEW g \in Settled', NEW x \in ToSet(cache'), x < g
          PROVE  g \in ToSet(cache')
      <4>1. mishaps \cap {"lost", "reorder"} = {}
        BY <2>1, <3>6
      <4>2. CASE g \notin Settled
        BY <3>1, <4>2
      <4>3. CASE g \in Settled /\ x \in ToSet(cache)
        <5>1. PICK i \in 1..Len(cache) : cache[i] = x
          BY <1>0, <4>3, Elements
        <5>2. \E j \in 1..Len(cache) : cache[j] = g
          BY <3>6, <4>1, <4>3, <5>1 DEF NoHoles, Settled
        <5> QED
          BY <1>0, <2>3, <5>2, Elements
      <4>4. CASE g \in Settled /\ x = e
        BY <2>1, <3>6, <4>1, <4>4 DEF InTurn, Settled
      <4> QED
        BY <2>3, <2>5, <4>2, <4>3, <4>4
    <3>7. cache' \in Seq(Messages)
      BY <1>0, <2>1, <2>2, <2>5
    <3>8. InTurn /\ NoHoles => NoHoles'
      BY <2>2, <3>6, <3>7, Elements DEF NoHoles, Settled
    <3> QED
      BY <3>4, <3>5, <3>8 DEF HolesInv
  <2> QED
    BY <1>0, <2>4, <2>5
<1>3. ASSUME NEW e \in 1..N, LoseEntry(e) PROVE FetchInv' /\ (HolesInv => HolesInv')
  <2>1. UNCHANGED <<n, created, cache, token, query, asked>> /\ "lost" \in mishaps'
    BY <1>3 DEF LoseEntry
  <2> QED
    BY <2>1 DEF FetchInv, BatchOK, Fetching, HolesInv, InTurn, NoHoles, Oldest
<1> QED
  BY <1>1, <1>2, <1>3

LEMMA NextFetch ==
    ASSUME TypeInv, FetchInv, [Next]_vars
    PROVE  FetchInv' /\ (HolesInv => HolesInv')
<1>1. CASE UNCHANGED vars
  BY <1>1 DEF vars, FetchInv, TokenOK, BatchOK, HasFrom, Settled, Messages, Fetching, HolesInv, InTurn, NoHoles
<1>2. CASE Next
  BY <1>2, NextType, NextIs, AskFetch, FetchFetch, AnswerFetch, RoomFetch
<1> QED
  BY <1>1, <1>2

\* From its oldest message on the archive has every message of the room that
\* has been relayed, whatever is fetched, relayed and asked for meanwhile,
\* unless a message was lost or relayed before an earlier one.
THEOREM ArchiveHasNoHoles == Spec => []NoHoles
<1>1. TypeInv /\ FetchInv /\ HolesInv /\ [Next]_vars => TypeInv' /\ FetchInv' /\ HolesInv'
  BY NextType, NextFetch
<1>2. HolesInv => NoHoles
  BY DEF HolesInv
<1> QED
  BY <1>1, <1>2, InitType, InitFetch, PTL DEF Spec

-----------------------------------------------------------------------------
(* The order of the array, and the places in it that a query has noted     *)

Increasing ==
    mishaps \cap {"twin", "disorder"} = {} => \A i, j \in 1..Len(cache) : i < j => cache[i] < cache[j]

\* The page begins behind the message the query named, or at the beginning
\* when the array did not have it.
AfterOK(q) ==
    q.stage = "slice" /\ q.kind = "after" =>
        \/ q.from = 0 /\ q.to = PageSize
        \/ q.from \in 1..Len(cache) /\ cache[q.from] = q.arg /\ q.to = q.from + PageSize

\* While it fetches, the query knows how long the array was before; the page is
\* full or the array complete.
LatestOK(q) ==
    q.kind = "latest" =>
        /\ q.stage = "fetch" => q.prev < Len(cache)
        /\ q.stage = "slice" =>
              \/ q.to >= PageSize /\ q.to < Len(cache) /\ q.from = q.to - PageSize
              \/ Settled \subseteq ToSet(cache)

PlacesInv ==
    /\ Increasing
    /\ "shift" \notin mishaps => \A h \in Queries : AfterOK(query[h])
    /\ mishaps \cap {"fail", "dry", "lost"} = {} => \A h \in Queries : LatestOK(query[h])

\* Both, for an array c.
AfterIn(q, c) ==
    q.stage = "slice" /\ q.kind = "after" =>
        \/ q.from = 0 /\ q.to = PageSize
        \/ q.from \in 1..Len(c) /\ c[q.from] = q.arg /\ q.to = q.from + PageSize
LatestIn(q, c) ==
    q.kind = "latest" =>
        /\ q.stage = "fetch" => q.prev < Len(c)
        /\ q.stage = "slice" =>
              \/ q.to >= PageSize /\ q.to < Len(c) /\ q.from = q.to - PageSize
              \/ Settled \subseteq ToSet(c)

LEMMA SlicesAfter ==
    ASSUME TypeInv, NEW S, NEW c \in Seq(S), NEW p \in Query, NEW r \in Query, r.kind = p.kind, Slices(r, p, c)
    PROVE  AfterIn(r, c)
<1> SUFFICES ASSUME p.kind = "after"
             PROVE  \/ r.from = 0 /\ r.to = PageSize
                    \/ r.from \in 1..Len(c) /\ c[r.from] = r.arg /\ r.to = r.from + PageSize
  BY DEF AfterIn
<1> DEFINE i == IndexIn(c, p.arg)
<1>1. /\ i \in Nat \cup {-1}
      /\ p.arg \in ToSet(c) => i + 1 \in 1..Len(c) /\ c[i + 1] = p.arg
      /\ p.arg \notin ToSet(c) => i = -1
  BY FoundAt
<1>2. r.from = i + 1 /\ r.to = i + 1 + PageSize /\ r.arg = p.arg
  BY DEF Slices, StartIndex, EndIndex
<1> HIDE DEF i
<1> QED
  BY <1>1, <1>2, Numbers

\* A query for the last page goes on fetching until the array is long enough,
\* or a fetch has not made it longer.
LEMMA SlicesLatest ==
    ASSUME TypeInv, NEW S, NEW c \in Seq(S), NEW p \in Query, NEW r \in Query, r.kind = p.kind, Slices(r, p, c),
           p.kind = "latest" => p.prev # Len(c) - 1 \/ Settled \subseteq ToSet(c)
    PROVE  LatestIn(r, c)
<1> SUFFICES ASSUME p.kind = "latest", p.prev # Len(c) - 1
             PROVE  r.to >= PageSize /\ r.to < Len(c) /\ r.from = r.to - PageSize
  BY DEF LatestIn, Slices
<1>1. Len(c) \in Nat
  OBVIOUS
<1>2. Len(c) - 1 >= PageSize
  BY <1>1, Numbers DEF Slices, NeedsMore, Grows
<1>3. r.to = Len(c) - 1 /\ r.from = AtLeast0(r.to - PageSize)
  BY DEF Slices, EndIndex, StartIndex
<1> QED
  BY <1>1, <1>2, <1>3, Numbers DEF AtLeast0

LEMMA FetchLatest ==
    ASSUME NEW S, NEW c \in Seq(S), NEW p \in Query, NEW r, r.stage = "fetch", r.kind = p.kind, r.prev = Noted(p, c)
    PROVE  LatestIn(r, c) /\ AfterIn(r, c)
<1>1. Len(c) \in Nat
  OBVIOUS
<1> QED
  BY <1>1 DEF LatestIn, AfterIn, Noted

\* The array grows at its end.
LEMMA LongerPlaces ==
    ASSUME NEW q \in Query, NEW S, NEW c \in Seq(S), NEW d \in Seq(S),
           Len(c) <= Len(d), \A i \in 1..Len(c) : d[i] = c[i], AfterIn(q, c)
    PROVE  AfterIn(q, d)
<1>1. Len(c) \in Nat /\ Len(d) \in Nat
  OBVIOUS
<1> QED
  BY <1>1 DEF AfterIn

LEMMA AskPlaces ==
    ASSUME TypeInv, FetchInv, PlacesInv, Asked
    PROVE  PlacesInv'
<1>1. PICK h \in Queries, kind \in Kinds, arg \in 0..N : Ask(h, kind, arg)
  BY DEF Asked
<1>2. UNCHANGED <<n, adding, cache, mishaps>> /\ cache \in Seq(Messages)
  BY <1>1, AskIs, Numbers
<1>3. PICK r \in Query :
         /\ query' = [query EXCEPT ![h] = r] /\ r.end <= n /\ r.kind = kind
         /\ \/ r.stage = "boot"
            \/ \E p \in Query :
                  /\ p.kind = kind /\ p.prev = NoLength
                  /\ \/ r.stage = "fetch" /\ r.prev = Noted(p, cache)
                     \/ Slices(r, p, cache)
  <2>1. PICK r \in Query : query' = [query EXCEPT ![h] = r] /\ r.end <= n /\ r.kind = kind /\ Begun(r, kind, arg)
    BY <1>1, AskIs
  <2> QED
    BY <2>1 DEF Begun
<1>4. AfterIn(r, cache) /\ LatestIn(r, cache)
  <2>1. CASE r.stage = "boot"
    BY <2>1 DEF AfterIn, LatestIn
  <2>2. ASSUME NEW p \in Query, p.kind = kind, p.prev = NoLength,
               (r.stage = "fetch" /\ r.prev = Noted(p, cache)) \/ Slices(r, p, cache)
        PROVE  AfterIn(r, cache) /\ LatestIn(r, cache)
    <3>1. p.prev # Len(cache) - 1
      BY <1>2, <2>2 DEF NoLength
    <3> QED
      BY <1>2, <1>3, <2>2, <3>1, SlicesAfter, SlicesLatest, FetchLatest
  <2> QED
    BY <1>3, <2>1, <2>2
<1>5. query'[h] = r /\ \A k \in Queries : k # h => query'[k] = query[k]
  BY <1>2, <1>3, OthersType
<1>6. Settled' = Settled
  BY <1>2 DEF Settled, Messages
<1> QED
  BY <1>2, <1>4, <1>5, <1>6 DEF PlacesInv, Increasing, AfterOK, LatestOK, AfterIn, LatestIn

LEMMA ConvergePlaces ==
    ASSUME TypeInv, FetchInv, PlacesInv, NEW h \in Queries, Converge(h)
    PROVE  PlacesInv'
<1> DEFINE q == query[h]
           c == cache'
           t == token'
           r == Resumes(q, c, t)
<1>1. /\ Fetching(q) /\ q \in Query
      /\ c \in Seq(Messages) /\ ToSet(c) = ToSet(cache) \cup q.batch
      /\ Len(c) >= Len(cache)
      /\ Len(c) = Len(cache) => q.batch \subseteq ToSet(cache)
      /\ ~q.paged => \A i \in 1..Len(cache) : c[i] = cache[i]
      /\ (\A i, j \in 1..Len(cache) : cache[i] = cache[j] => i = j) /\ (q.paged \/ ~OutOfOrder(c))
           => \A i, j \in 1..Len(c) : i < j => c[i] < c[j]
      /\ t \in 0..n
      /\ query' = [query EXCEPT ![h] = r]
      /\ mishaps' = mishaps \cup Mishaps(h, c)
      /\ UNCHANGED <<n, adding, asked>>
  BY ConvergeIs
<1>2. Settled' = Settled
  BY <1>1 DEF Settled, Messages
<1>3. cache \in Seq(Messages) /\ Len(cache) \in Nat /\ Len(c) \in Nat /\ Messages \in SUBSET Nat
  <2>1. cache \in Seq(Messages) /\ Messages \in SUBSET Nat
    BY Numbers
  <2> QED
    BY <1>1, <2>1, Elements
<1>4. BatchOK(q)
  BY <1>1 DEF FetchInv
<1>5. r \in Query /\ r.end <= n /\ r.kind = q.kind
  BY <1>1, ResumesType
<1>6. query'[h] = r /\ \A k \in Queries : k # h => query'[k] = query[k]
  BY <1>1, <1>5, OthersType
<1>7. Increasing'
  <2> SUFFICES ASSUME mishaps' \cap {"twin", "disorder"} = {}
               PROVE  \A i, j \in 1..Len(c) : i < j => c[i] < c[j]
    BY DEF Increasing
  <2>1. \A i, j \in 1..Len(cache) : i < j => cache[i] < cache[j]
    BY <1>1 DEF PlacesInv, Increasing
  <2>2. \A i \in 1..Len(cache) : cache[i] \in Nat
    BY <1>3, Elements
  <2>3. \A i, j \in 1..Len(cache) : cache[i] = cache[j] => i = j
    <3> SUFFICES ASSUME NEW i \in 1..Len(cache), NEW j \in 1..Len(cache), cache[i] = cache[j], i # j PROVE FALSE
      OBVIOUS
    <3>1. i < j \/ j < i
      BY <1>3
    <3> QED
      BY <2>1, <2>2, <3>1
  <2>4. q.paged \/ ~OutOfOrder(c)
    BY <1>1 DEF Mishaps
  <2> QED
    BY <1>1, <2>3, <2>4
<1>8. ASSUME NEW p \in Query, p.kind = q.kind, p.prev = Len(c) \/ (p.prev = q.prev /\ q.stage = "fetch"),
             mishaps' \cap {"fail", "dry", "lost"} = {}, p.kind = "latest"
      PROVE  p.prev # Len(c) - 1 \/ Settled \subseteq ToSet(c)
  <2> SUFFICES ASSUME p.prev = Len(c) - 1 PROVE Settled \subseteq ToSet(c)
    OBVIOUS
  <2>1. p.prev = q.prev /\ q.stage = "fetch" /\ q.kind = "latest"
    BY <1>3, <1>8
  <2>2. q.prev < Len(cache)
    <3>1. mishaps \cap {"fail", "dry", "lost"} = {}
      BY <1>1, <1>8
    <3> QED
      BY <2>1, <3>1 DEF PlacesInv, LatestOK
  <2>3. Len(c) = Len(cache)
    BY <1>1, <1>3, <2>1, <2>2
  <2>4. q.end = 0
    BY <1>1, <1>8, <2>3 DEF Mishaps
  <2>5. HasFrom(q.batch \cup ToSet(cache), 1)
    BY <1>1, <1>4, <1>8, <2>4 DEF BatchOK, Oldest
  <2>6. \A f \in Settled : f >= 1
    BY Numbers DEF Settled
  <2> QED
    BY <1>1, <2>5, <2>6 DEF HasFrom
<1>9. AfterIn(r, c) /\ (mishaps' \cap {"fail", "dry", "lost"} = {} => LatestIn(r, c))
  <2>1. CASE r.stage = "reboot"
    BY <2>1 DEF AfterIn, LatestIn
  <2>2. ASSUME NEW p \in Query, p.kind = q.kind, p.prev = Len(c) \/ (p.prev = q.prev /\ q.stage = "fetch"),
               (r.stage = "fetch" /\ r.prev = Noted(p, c)) \/ Slices(r, p, c)
        PROVE  AfterIn(r, c) /\ (mishaps' \cap {"fail", "dry", "lost"} = {} => LatestIn(r, c))
    <3> HIDE DEF q, c, r
    <3> QED
      BY <1>1, <1>5, <1>8, <2>2, SlicesAfter, SlicesLatest, FetchLatest
  <2>3. \/ r.stage = "reboot"
        \/ \E p \in Query :
              /\ p.kind = q.kind
              /\ p.prev = Len(c) \/ (p.prev = q.prev /\ q.stage = "fetch")
              /\ (r.stage = "fetch" /\ r.prev = Noted(p, c)) \/ Slices(r, p, c)
    <3> HIDE DEF q, c, t
    <3> QED
      BY <1>1, ResumesType DEF Fetching
  <2> QED
    BY <2>1, <2>2, <2>3
<1>10. ASSUME NEW k \in Queries, k # h, "shift" \notin mishaps' PROVE AfterIn(query[k], c)
  <2>1. AfterIn(query[k], cache) /\ query[k] \in Query
    BY <1>1, <1>10, Numbers DEF PlacesInv, AfterOK, AfterIn
  <2>2. CASE query[k].stage # "slice"
    BY <2>2 DEF AfterIn
  <2>3. CASE query[k].stage = "slice"
    <3>1. IsPrefix(cache, c)
      BY <1>1, <1>10, <2>3 DEF Mishaps
    <3>2. \A i \in 1..Len(cache) : c[i] = cache[i]
      <4> SUFFICES ASSUME NEW i \in 1..Len(cache) PROVE c[i] = cache[i]
        OBVIOUS
      <4>1. SubSeq(cache, 1, Len(cache))[i] = cache[i] /\ SubSeq(c, 1, Len(cache))[i] = c[i]
        BY <1>1, <1>3
      <4> QED
        BY <3>1, <4>1 DEF IsPrefix
    <3> QED
      BY <1>1, <1>3, <2>1, <3>2, LongerPlaces
  <2> QED
    BY <2>2, <2>3
<1>11. ASSUME NEW k \in Queries, k # h, mishaps' \cap {"fail", "dry", "lost"} = {} PROVE LatestIn(query[k], c)
  <2>1. LatestIn(query[k], cache) /\ query[k] \in Query
    BY <1>1, <1>11, Numbers DEF PlacesInv, LatestOK, LatestIn
  <2>2. query[k].prev \in Int /\ query[k].to \in Int
    BY <2>1 DEF Query, NoLength
  <2> QED
    BY <1>1, <1>3, <2>1, <2>2 DEF LatestIn
<1> QED
  BY <1>2, <1>6, <1>7, <1>9, <1>10, <1>11 DEF PlacesInv, AfterOK, LatestOK, AfterIn, LatestIn

LEMMA RoomPlaces ==
    ASSUME TypeInv, FetchInv, PlacesInv,
           \/ Post
           \/ \E h \in Queries : FetchFails(h) \/ Answer(h)
           \/ \E e \in 1..N : AddEntry(e) \/ LoseEntry(e)
    PROVE  PlacesInv'
<1>1. cache \in Seq(Messages) /\ Len(cache) \in Nat /\ query \in [Queries -> Query] /\ Messages \in SUBSET Nat
  BY Numbers, Elements
<1>2. CASE Post
  <2>1. /\ n' = n + 1 /\ UNCHANGED <<cache, query, mishaps>>
        /\ \A e \in Messages' : e \in Messages \/ e \in adding'
        /\ adding \subseteq adding'
    BY <1>2, Numbers DEF Post, Messages
  <2>2. Settled' \subseteq Settled
    BY <2>1 DEF Settled
  <2> QED
    BY <2>1, <2>2 DEF PlacesInv, Increasing, AfterOK, LatestOK
<1>3. ASSUME NEW h \in Queries, FetchFails(h) PROVE PlacesInv'
  <2>1. /\ Fetching(query[h]) /\ query[h] \in Query
        /\ query' = [query EXCEPT ![h] = Resumes(query[h], cache, token)]
        /\ mishaps' = mishaps \cup {"fail"} /\ UNCHANGED <<n, adding, cache, token>>
    BY <1>3, FailsIs
  <2> DEFINE q == query[h]
             r == Resumes(q, cache, token)
  <2>2. r \in Query /\ r.end <= n /\ r.kind = q.kind
    BY <1>1, <2>1, Numbers, ResumesType
  <2>3. \/ r.stage \in {"reboot", "fetch"}
        \/ \E p \in Query : p.kind = q.kind /\ Slices(r, p, cache)
    <3> HIDE DEF q
    <3> QED
      BY <1>1, <2>1, Numbers, ResumesType DEF q
  <2>4. AfterIn(r, cache)
    <3>1. CASE r.stage \in {"reboot", "fetch"}
      BY <3>1 DEF AfterIn
    <3>2. ASSUME NEW p \in Query, p.kind = q.kind, Slices(r, p, cache) PROVE AfterIn(r, cache)
      <4> HIDE DEF q, r
      <4> QED
        BY <1>1, <2>2, <3>2, SlicesAfter
    <3> QED
      BY <2>3, <3>1, <3>2
  <2>5. query'[h] = r /\ \A k \in Queries : k # h => query'[k] = query[k]
    BY <2>1, <2>2, OthersType
  <2> QED
    BY <2>1, <2>4, <2>5 DEF PlacesInv, Increasing, AfterOK, AfterIn
<1>4. ASSUME NEW h \in Queries, Answer(h) PROVE PlacesInv'
  <2>1. query' = [query EXCEPT ![h] = Idle] /\ UNCHANGED <<n, adding, cache, mishaps>>
    BY <1>4 DEF Answer
  <2>2. \A k \in Queries : query'[k] = query[k] \/ query'[k] = Idle
    BY <1>1, <2>1
  <2>3. Idle.stage = "idle"
    BY DEF Idle
  <2>4. Settled' = Settled
    BY <2>1 DEF Settled, Messages
  <2> QED
    BY <2>1, <2>2, <2>3, <2>4 DEF PlacesInv, Increasing, AfterOK, LatestOK
<1>5. ASSUME NEW e \in 1..N, AddEntry(e) PROVE PlacesInv'
  <2>1. /\ UNCHANGED <<n, query>> /\ adding' = adding \ {e} /\ e \in Messages /\ mishaps \subseteq mishaps'
        /\ cache' = IF created THEN Append(cache, e) ELSE cache
    BY <1>5 DEF AddEntry, TypeInv, TypeOK
  <2>2. Settled' \subseteq Settled \cup {e}
    BY <2>1 DEF Settled, Messages
  <2>3. CASE created
    <3>1. /\ cache' \in Seq(Messages) /\ Len(cache') = Len(cache) + 1 /\ cache'[Len(cache) + 1] = e
          /\ \A i \in 1..Len(cache) : cache'[i] = cache[i]
          /\ ToSet(cache') = ToSet(cache) \cup {e}
      BY <1>1, <2>1, <2>3, OneMore
    <3>2. Increasing'
      <4> SUFFICES ASSUME mishaps' \cap {"twin", "disorder"} = {}, NEW i \in 1..Len(cache'), NEW j \in 1..Len(cache'), i < j
                   PROVE  cache'[i] < cache'[j]
        BY DEF Increasing
      <4>1. e \notin ToSet(cache) /\ ~OutOfOrder(cache')
        BY <1>5, <2>3 DEF AddEntry
      <4>2. i \in 1..Len(cache) /\ (j \in 1..Len(cache) \/ j = Len(cache) + 1)
        BY <1>1, <3>1
      <4>3. CASE j \in 1..Len(cache)
        BY <2>1, <3>1, <4>2, <4>3 DEF PlacesInv, Increasing
      <4>4. CASE j = Len(cache) + 1
        <5>1. cache'[i] # e /\ cache'[j] = e
          BY <1>1, <3>1, <4>1, <4>2, <4>4, Elements
        <5>2. cache' \in Seq(Nat)
          <6>1. cache' \in [1..Len(cache') -> Messages] /\ Len(cache') \in Nat
            BY <3>1
          <6>2. cache' \in [1..Len(cache') -> Nat]
            BY <1>1, <6>1
          <6> QED
            BY <6>1, <6>2
        <5>3. cache'[i] <= cache'[j]
          <6> DEFINE c == cache'
          <6>1. c \in Seq(Nat) /\ ~OutOfOrder(c) /\ i \in 1..Len(c) /\ j \in 1..Len(c) /\ i <= j
            BY <4>1, <5>2
          <6> HIDE DEF c
          <6>2. c[i] <= c[j]
            BY <6>1, InOrder
          <6> QED
            BY <6>2 DEF c
        <5>4. cache'[i] \in Nat /\ cache'[j] \in Nat
          BY <5>2
        <5> QED
          BY <5>1, <5>3, <5>4
      <4> QED
        BY <4>2, <4>3, <4>4
    <3>3. ASSUME NEW k \in Queries, AfterIn(query[k], cache) PROVE AfterIn(query[k], cache')
      BY <1>1, <3>1, <3>3, LongerPlaces
    <3>4. ASSUME NEW k \in Queries, LatestOK(query[k]) PROVE LatestOK(query[k])'
      <4>1. query[k].prev \in Int /\ query[k].to \in Int
        <5>1. query[k] \in Query
          BY <1>1
        <5> QED
          BY <5>1 DEF Query, NoLength
      <4> QED
        BY <1>1, <2>1, <2>2, <3>1, <3>4, <4>1 DEF LatestOK
    <3> QED
      BY <2>1, <3>2, <3>3, <3>4 DEF PlacesInv, AfterOK, AfterIn
  <2>4. CASE ~created
    <3>1. \A h \in Queries : query[h].stage = "idle"
      BY <2>4 DEF FetchInv
    <3> QED
      BY <2>1, <2>4, <3>1 DEF PlacesInv, Increasing, AfterOK, LatestOK
  <2> QED
    BY <2>3, <2>4 DEF TypeInv, TypeOK
<1>6. ASSUME NEW e \in 1..N, LoseEntry(e) PROVE PlacesInv'
  <2>1. UNCHANGED <<n, cache, query>> /\ mishaps' = mishaps \cup {"lost"}
    BY <1>6 DEF LoseEntry
  <2> QED
    BY <2>1 DEF PlacesInv, Increasing, AfterOK
<1> QED
  BY <1>2, <1>3, <1>4, <1>5, <1>6

LEMMA NextPlaces ==
    ASSUME TypeInv, FetchInv, PlacesInv, [Next]_vars
    PROVE  PlacesInv'
<1>1. CASE UNCHANGED vars
  BY <1>1 DEF vars, PlacesInv, Increasing, AfterOK, LatestOK, Settled, Messages
<1>2. CASE Next
  BY <1>2, NextIs, AskPlaces, ConvergePlaces, RoomPlaces
<1> QED
  BY <1>1, <1>2

LEMMA InitPlaces == Init => PlacesInv
<1> SUFFICES ASSUME Init PROVE PlacesInv
  OBVIOUS
<1>1. cache = <<>> /\ \A h \in Queries : query[h] = Idle
  BY DEF Init
<1>2. Idle.kind = "none"
  BY DEF Idle
<1> QED
  BY <1>1, <1>2 DEF PlacesInv, Increasing, AfterOK, LatestOK

LEMMA Reached ==
    Spec => [](TypeInv /\ FetchInv /\ PlacesInv)
<1>1. Init => TypeInv /\ FetchInv /\ PlacesInv
  BY InitType, InitFetch, InitPlaces
<1>2. TypeInv /\ FetchInv /\ PlacesInv /\ [Next]_vars => TypeInv' /\ FetchInv' /\ PlacesInv'
  BY NextType, NextFetch, NextPlaces
<1> QED
  BY <1>1, <1>2, PTL DEF Spec

-----------------------------------------------------------------------------
(* The pages                                                               *)

\* A page is what the array has behind q.from, up to q.to.
LEMMA PageIs ==
    ASSUME TypeInv, NEW q \in Query, q.kind \in {"after", "latest"}, q.to \in Nat, q.from <= q.to
    PROVE  LET page == PageOf(q)
               there == IF Len(cache) <= q.from THEN 0 ELSE IF Len(cache) <= q.to THEN Len(cache) - q.from ELSE q.to - q.from
           IN  /\ Len(page) = IF there <= PageSize THEN there ELSE PageSize
               /\ page \in Seq(Messages)
               /\ \A k \in 1..Len(page) : page[k] = cache[q.from + k] /\ q.from + k \in 1..Len(cache)
<1> DEFINE slice == Slice(cache, q.from, q.to)
           page == PageOf(q)
           there == IF Len(cache) <= q.from THEN 0 ELSE IF Len(cache) <= q.to THEN Len(cache) - q.from ELSE q.to - q.from
<1>1. cache \in Seq(Messages) /\ Len(cache) \in Nat /\ q.from \in Nat /\ PageSize \in Nat /\ PageSize > 0
  BY Numbers, Elements DEF Query
<1>2. slice = SubSeq(cache, q.from + 1, IF q.to <= Len(cache) THEN q.to ELSE Len(cache))
  <2>1. Min({q.to, Len(cache)}) = IF q.to <= Len(cache) THEN q.to ELSE Len(cache)
    BY <1>1, LesserOfTwo
  <2>2. ~(q.to < 0)
    BY <1>1
  <2> QED
    BY <2>1, <2>2 DEF Slice
<1>3. /\ slice \in Seq(Messages) /\ Len(slice) = there /\ there \in Nat
      /\ \A k \in 1..Len(slice) : slice[k] = cache[q.from + k] /\ q.from + k \in 1..Len(cache)
  <2> DEFINE last == IF q.to <= Len(cache) THEN q.to ELSE Len(cache)
  <2>1. last \in Nat /\ last <= Len(cache) /\ there = IF q.from + 1 <= last THEN last - q.from ELSE 0
    BY <1>1
  <2>2. slice = SubSeq(cache, q.from + 1, last)
    BY <1>2
  <2> HIDE DEF last, slice, there
  <2>3. /\ slice \in Seq(Messages)
        /\ Len(slice) = there /\ there \in Nat
        /\ \A k \in 1..there : slice[k] = cache[q.from + k]
    <3>1. CASE q.from + 1 <= last
      <4>1. \A k \in q.from + 1..last : cache[k] \in Messages
        BY <1>1, <2>1
      <4>2. /\ slice \in Seq(Messages)
            /\ Len(slice) = last - (q.from + 1) + 1
            /\ \A k \in 1..last - (q.from + 1) + 1 : slice[k] = cache[q.from + 1 + k - 1]
        BY <1>1, <2>1, <2>2, <3>1, <4>1
      <4> QED
        BY <1>1, <2>1, <3>1, <4>2
    <3>2. CASE ~(q.from + 1 <= last)
      <4>1. slice = <<>>
        BY <1>1, <2>1, <2>2, <3>2
      <4> QED
        BY <2>1, <3>2, <4>1
    <3> QED
      BY <3>1, <3>2
  <2>4. \A k \in 1..there : q.from + k \in 1..Len(cache)
    BY <1>1, <2>1
  <2> QED
    BY <2>3, <2>4
<1>4. page = SubSeq(slice, 1, IF Len(slice) <= PageSize THEN Len(slice) ELSE PageSize)
  <2>1. Outcome(q) = "result"
    BY DEF Outcome
  <2>2. page = SubSeq(slice, 1, Min({Len(slice), PageSize}))
    BY <2>1 DEF PageOf
  <2> HIDE DEF slice
  <2>3. Len(slice) \in Nat
    BY <1>3
  <2>4. Min({Len(slice), PageSize}) = IF Len(slice) <= PageSize THEN Len(slice) ELSE PageSize
    BY <1>1, <2>3, LesserOfTwo
  <2> QED
    BY <2>2, <2>4
<1> HIDE DEF slice, page, there
<1>5. /\ page \in Seq(Messages) /\ Len(page) = (IF there <= PageSize THEN there ELSE PageSize)
      /\ \A k \in 1..Len(page) : page[k] = slice[k] /\ k \in 1..Len(slice)
  BY <1>1, <1>3, <1>4
<1> QED
  BY <1>3, <1>5 DEF page, there

LEMMA AnswerReadsOn ==
    ASSUME TypeInv, PlacesInv, NEW h \in Queries, Answer(h), mishaps \cap {"twin", "disorder", "shift"} = {}
    PROVE  ReadsOn(h)
<1> DEFINE q == query[h]
           page == PageOf(q)
<1> SUFFICES ASSUME q.kind = "after", q.arg \in ToSet(cache), NEW e \in ToSet(cache), e > q.arg,
                    e <= (IF page = <<>> THEN Max(ToSet(cache)) ELSE Last(page))
             PROVE  e \in ToSet(page)
  BY DEF ReadsOn
<1>1. /\ cache \in Seq(Messages) /\ Len(cache) \in Nat /\ q \in Query /\ Messages \in SUBSET Nat
      /\ PageSize \in Nat /\ PageSize > 0
  BY Numbers, Elements
<1>2. \A i, j \in 1..Len(cache) : i < j => cache[i] < cache[j]
  BY DEF PlacesInv, Increasing
<1>3. /\ \/ q.from = 0
         \/ q.from \in 1..Len(cache) /\ cache[q.from] = q.arg
      /\ q.to = q.from + PageSize
  BY <1>1 DEF PlacesInv, AfterOK, Answer
<1>4. PICK i \in 1..Len(cache) : cache[i] = e
  BY <1>1, Elements
<1>5. \A k \in 1..Len(cache) : cache[k] \in Nat
  BY <1>1, Elements
<1>6. i > q.from
  <2>1. CASE q.from = 0
    BY <2>1
  <2>2. CASE q.from \in 1..Len(cache) /\ cache[q.from] = q.arg
    <3>1. cache[i] > cache[q.from] /\ cache[i] \in Nat /\ cache[q.from] \in Nat
      BY <1>4, <1>5, <2>2
    <3>2. ~(i < q.from) /\ i # q.from
      BY <1>2, <2>2, <3>1
    <3> QED
      BY <1>1, <2>2, <3>2
  <2> QED
    BY <1>3, <2>1, <2>2
<1>7. q.from \in Nat /\ q.to \in Nat /\ q.from <= q.to
  BY <1>1, <1>3
<1>8. LET there == IF Len(cache) <= q.from THEN 0 ELSE IF Len(cache) <= q.to THEN Len(cache) - q.from ELSE q.to - q.from
      IN  /\ Len(page) = IF there <= PageSize THEN there ELSE PageSize
          /\ page \in Seq(Messages)
          /\ \A k \in 1..Len(page) : page[k] = cache[q.from + k] /\ q.from + k \in 1..Len(cache)
  BY <1>1, <1>7, PageIs
<1> HIDE DEF q, page
<1>9. Len(page) \in Nat /\ Len(page) > 0
  BY <1>1, <1>3, <1>6, <1>7, <1>8
<1>10. Last(page) = cache[q.from + Len(page)] /\ q.from + Len(page) \in 1..Len(cache) /\ page # <<>>
  BY <1>8, <1>9 DEF Last
<1>11. i <= q.from + Len(page)
  <2>1. cache[i] <= cache[q.from + Len(page)] /\ cache[i] \in Nat /\ cache[q.from + Len(page)] \in Nat
    BY <1>4, <1>5, <1>10
  <2>2. ~(q.from + Len(page) < i)
    BY <1>2, <1>10, <2>1
  <2> QED
    BY <1>7, <1>9, <2>2
<1>12. i - q.from \in 1..Len(page) /\ q.from + (i - q.from) = i
  BY <1>6, <1>7, <1>9, <1>11
<1>13. page[i - q.from] = e
  BY <1>4, <1>8, <1>12
<1> QED
  BY <1>8, <1>12, <1>13, Elements

LEMMA AnswerIsFull ==
    ASSUME TypeInv, PlacesInv, NEW h \in Queries, Answer(h), query[h].kind = "latest",
           mishaps \cap {"fail", "dry", "lost"} = {}
    PROVE  Len(PageOf(query[h])) = PageSize \/ Messages \ adding \subseteq ToSet(cache)
<1> DEFINE q == query[h]
<1>1. cache \in Seq(Messages) /\ Len(cache) \in Nat /\ q \in Query /\ PageSize \in Nat /\ PageSize > 0
  BY Numbers, Elements
<1>2. \/ q.to >= PageSize /\ q.to < Len(cache) /\ q.from = q.to - PageSize
      \/ Settled \subseteq ToSet(cache)
  BY DEF PlacesInv, LatestOK, Answer
<1>3. CASE q.to >= PageSize /\ q.to < Len(cache) /\ q.from = q.to - PageSize
  <2>1. q.to \in Nat /\ q.from \in Nat /\ q.from <= q.to
    BY <1>1, <1>3 DEF Query
  <2>2. LET there == IF Len(cache) <= q.from THEN 0 ELSE IF Len(cache) <= q.to THEN Len(cache) - q.from ELSE q.to - q.from
        IN  Len(PageOf(q)) = IF there <= PageSize THEN there ELSE PageSize
    BY <1>1, <2>1, PageIs
  <2> QED
    BY <1>1, <1>3, <2>1, <2>2
<1> QED
  BY <1>2, <1>3 DEF Settled

\* A client that reads forward misses nothing, whatever is fetched and relayed
\* between the indexes of a page and the page, unless the array was out of
\* order or a fetch moved it.
THEOREM ReadersMissNothing == Spec => ReaderMissesNothing
<1>1. TypeInv /\ PlacesInv =>
         \A h \in Queries : Answer(h) /\ mishaps \cap {"twin", "disorder", "shift"} = {} => ReadsOn(h)
  BY AnswerReadsOn
<1> QED
  BY <1>1, Reached, PTL DEF ReaderMissesNothing

\* The last page is full or the archive complete, however many queries fetch
\* for it at a time, unless a fetch failed or brought nothing new.
THEOREM LatestPagesAreFull == Spec => LatestPageIsFull
<1>1. TypeInv /\ PlacesInv =>
         \A h \in Queries :
            Answer(h) /\ query[h].kind = "latest" /\ mishaps \cap {"fail", "dry", "lost"} = {}
                => \/ Len(PageOf(query[h])) = PageSize
                   \/ Messages \ adding \subseteq ToSet(cache)
  BY AnswerIsFull
<1> QED
  BY <1>1, Reached, PTL DEF LatestPageIsFull
=============================================================================
