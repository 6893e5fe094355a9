---------------------------- MODULE PagesProofs ----------------------------
(***************************************************************************)
(* Proofs about Pages, for any names, any size of a page, any limit and    *)
(* any number of writes by the other processes: types, the collections and *)
(* lists as they are read back, and what an accepted release shows.        *)
(*                                                                         *)
(* The files of an export that numbered at least one name all show one     *)
(* view of the database, the one in which the names were numbered          *)
(* (ViewInv): this is what the transaction left open is for.               *)
(***************************************************************************)
EXTENDS Pages, DerivedRowsProofs, FiniteSetTheorems, WellFoundedInduction

-----------------------------------------------------------------------------
(* Finite sets of numbers, in order *)

\* The elements of S that come before x.
Before(S, x) == {m \in S : m < x}

\* Of a finite set the element at a place in the order is the one with as many before it.
LEMMA RankIsPlace ==
  ASSUME NEW S \in SUBSET Nat, IsFiniteSet(S)
  PROVE  /\ Cardinality(S) \in Nat
         /\ \A x \in S : Cardinality(Before(S, x)) \in 0 .. Cardinality(S) - 1
         /\ \A x \in S, y \in S : x < y => Cardinality(Before(S, x)) < Cardinality(Before(S, y))
         /\ \A k \in 0 .. Cardinality(S) - 1 : \E x \in S : Cardinality(Before(S, x)) = k
<1>1. Cardinality(S) \in Nat
  BY FS_CardinalityType
<1>2. ASSUME NEW x \in S
      PROVE  Before(S, x) \in SUBSET S /\ IsFiniteSet(Before(S, x)) /\ Cardinality(Before(S, x)) \in Nat
  <2>1. Before(S, x) \in SUBSET S
    BY DEF Before
  <2>2. IsFiniteSet(Before(S, x))
    BY <2>1, FS_Subset
  <2> QED BY <2>1, <2>2, FS_CardinalityType
<1>3. ASSUME NEW x \in S
      PROVE  Cardinality(Before(S, x)) \in 0 .. Cardinality(S) - 1
  <2>1. Before(S, x) # S
    BY DEF Before
  <2>2. /\ Cardinality(Before(S, x)) <= Cardinality(S)
        /\ Cardinality(Before(S, x)) # Cardinality(S)
    BY <1>2, <2>1, FS_Subset
  <2> QED BY <1>1, <1>2, <2>2
<1>4. ASSUME NEW x \in S, NEW y \in S, x < y
      PROVE  Cardinality(Before(S, x)) < Cardinality(Before(S, y))
  <2>1. Before(S, x) \in SUBSET Before(S, y)
    <3>1. \A m \in S : m < x => m < y
      BY <1>4
    <3> QED BY <3>1 DEF Before
  <2>2. x \in Before(S, y) /\ x \notin Before(S, x)
    BY <1>4 DEF Before
  <2>3. /\ Cardinality(Before(S, x)) <= Cardinality(Before(S, y))
        /\ Cardinality(Before(S, x)) # Cardinality(Before(S, y))
    BY <1>2, <2>1, <2>2, FS_Subset
  <2> QED BY <1>2, <2>3
<1> DEFINE rank == [x \in S |-> Cardinality(Before(S, x))]
<1>5. rank \in [S -> 0 .. Cardinality(S) - 1]
  BY <1>3
<1>6. \A x \in S, y \in S : rank[x] = rank[y] => x = y
  <2> SUFFICES ASSUME NEW x \in S, NEW y \in S, rank[x] = rank[y], x # y PROVE FALSE
    OBVIOUS
  <2>1. x < y \/ y < x
    OBVIOUS
  <2>2. Cardinality(Before(S, x)) = Cardinality(Before(S, y))
    OBVIOUS
  <2> QED BY <1>2, <1>4, <2>1, <2>2
<1>7. rank \in Injection(S, 0 .. Cardinality(S) - 1)
  BY <1>5, <1>6 DEF Injection, IsInjective
<1>8. IsFiniteSet(0 .. Cardinality(S) - 1) /\ Cardinality(0 .. Cardinality(S) - 1) = Cardinality(S)
  <2>1. /\ IsFiniteSet(0 .. Cardinality(S) - 1)
        /\ Cardinality(0 .. Cardinality(S) - 1)
             = IF 0 > Cardinality(S) - 1 THEN 0 ELSE (Cardinality(S) - 1) - 0 + 1
    BY <1>1, FS_Interval
  <2> QED BY <1>1, <2>1
<1>9. rank \in Surjection(S, 0 .. Cardinality(S) - 1)
  BY <1>7, <1>8, FS_Injection
<1>10. \A k \in 0 .. Cardinality(S) - 1 : \E x \in S : rank[x] = k
  BY <1>9 DEF Surjection
<1> QED BY <1>1, <1>3, <1>4, <1>10

\* InOrder lists a finite set of numbers, each once, from the least on.
LEMMA InOrderIs ==
  ASSUME NEW S \in SUBSET Nat, IsFiniteSet(S)
  PROVE  /\ InOrder(S) \in [1..Cardinality(S) -> S]
         /\ InOrder(S) \in Seq(S) /\ Len(InOrder(S)) = Cardinality(S)
         /\ \A i \in 1..Cardinality(S) : Cardinality(Before(S, InOrder(S)[i])) = i - 1
         /\ \A i, j \in 1..Cardinality(S) : i < j <=> InOrder(S)[i] < InOrder(S)[j]
         /\ \A x \in S : \E i \in 1..Cardinality(S) : InOrder(S)[i] = x
<1>1. Cardinality(S) \in Nat
  BY RankIsPlace
<1>2. ASSUME NEW i \in 1..Cardinality(S)
      PROVE  InOrder(S)[i] \in S /\ Cardinality(Before(S, InOrder(S)[i])) = i - 1
  <2>1. i - 1 \in 0 .. Cardinality(S) - 1
    BY <1>1
  <2>2. \E x \in S : Cardinality(Before(S, x)) = i - 1
    BY <2>1, RankIsPlace
  <2>3. InOrder(S)[i] = CHOOSE n \in S : Cardinality(Before(S, n)) = i - 1
    BY DEF InOrder, Before
  <2> QED BY <2>2, <2>3
<1>3. InOrder(S) \in [1..Cardinality(S) -> S]
  BY <1>2 DEF InOrder
<1>4. InOrder(S) \in Seq(S) /\ Len(InOrder(S)) = Cardinality(S)
  BY <1>1, <1>3
<1>5. ASSUME NEW i \in 1..Cardinality(S), NEW j \in 1..Cardinality(S), InOrder(S)[i] < InOrder(S)[j]
      PROVE  i < j
  <2>1. Cardinality(Before(S, InOrder(S)[i])) < Cardinality(Before(S, InOrder(S)[j]))
    BY <1>2, <1>5, RankIsPlace
  <2>2. i - 1 < j - 1
    BY <1>2, <2>1
  <2> QED BY <1>1, <2>2
<1>6. ASSUME NEW i \in 1..Cardinality(S), NEW j \in 1..Cardinality(S), i < j
      PROVE  InOrder(S)[i] < InOrder(S)[j]
  <2>1. InOrder(S)[i] \in Nat /\ InOrder(S)[j] \in Nat
    BY <1>2
  <2>2. InOrder(S)[i] # InOrder(S)[j]
    <3> SUFFICES ASSUME InOrder(S)[i] = InOrder(S)[j] PROVE FALSE
      OBVIOUS
    <3>1. i - 1 = j - 1
      BY <1>2
    <3> QED BY <1>1, <1>6, <3>1
  <2>3. ~ (InOrder(S)[j] < InOrder(S)[i])
    BY <1>1, <1>5, <1>6
  <2> QED BY <2>1, <2>2, <2>3
<1>7. ASSUME NEW x \in S
      PROVE  \E i \in 1..Cardinality(S) : InOrder(S)[i] = x
  <2> DEFINE k == Cardinality(Before(S, x))
  <2>1. k \in 0 .. Cardinality(S) - 1
    BY RankIsPlace
  <2>2. k + 1 \in 1..Cardinality(S) /\ (k + 1) - 1 = k
    BY <1>1, <2>1
  <2>3. InOrder(S)[k + 1] \in S /\ Cardinality(Before(S, InOrder(S)[k + 1])) = k
    BY <1>2, <2>2
  <2>4. ~ (InOrder(S)[k + 1] < x) /\ ~ (x < InOrder(S)[k + 1])
    <3>1. k \in Nat /\ ~ (k < k)
      BY <2>1, <1>1
    <3> HIDE DEF k
    <3> QED BY <2>3, <3>1, RankIsPlace DEF k
  <2>5. InOrder(S)[k + 1] \in Nat /\ x \in Nat
    BY <2>3
  <2> QED BY <2>2, <2>4, <2>5
<1> QED BY <1>2, <1>3, <1>4, <1>5, <1>6, <1>7

\* The first of them, taken as a set, come in the same order.
LEMMA FirstInOrder ==
  ASSUME NEW S \in SUBSET Nat, IsFiniteSet(S), NEW k \in 0..Cardinality(S)
  PROVE  /\ InOrder(ToSet(SubSeq(InOrder(S), 1, k))) = SubSeq(InOrder(S), 1, k)
         /\ ToSet(SubSeq(InOrder(S), 1, k)) \in SUBSET S
         /\ Cardinality(ToSet(SubSeq(InOrder(S), 1, k))) = k
<1> DEFINE s == InOrder(S)
           first == SubSeq(s, 1, k)
           T == ToSet(first)
<1>1. /\ s \in [1..Cardinality(S) -> S] /\ s \in Seq(S) /\ Len(s) = Cardinality(S)
      /\ \A i \in 1..Cardinality(S) : Cardinality(Before(S, s[i])) = i - 1
      /\ \A i, j \in 1..Cardinality(S) : i < j <=> s[i] < s[j]
      /\ \A x \in S : \E i \in 1..Cardinality(S) : s[i] = x
  BY InOrderIs
<1>2. Cardinality(S) \in Nat /\ k \in Nat /\ k <= Cardinality(S)
  BY RankIsPlace
<1> HIDE DEF s
<1>3. first \in Seq(S) /\ Len(first) = k /\ DOMAIN first = 1..k
  BY <1>1, <1>2
<1>4. \A i \in 1..k : first[i] = s[i] /\ i \in 1..Cardinality(S)
  BY <1>1, <1>2
<1> HIDE DEF first
<1>5. T = {s[i] : i \in 1..k}
  BY <1>3, <1>4 DEF ToSet
<1> HIDE DEF T
<1>6. T \in SUBSET S /\ IsFiniteSet(T) /\ T \in SUBSET Nat
  <2>1. T \in SUBSET S
    BY <1>1, <1>4, <1>5
  <2> QED BY <2>1, FS_Subset
<1>7. \A i \in 1..k : Before(T, s[i]) = Before(S, s[i])
  <2> SUFFICES ASSUME NEW i \in 1..k, NEW m \in S, m < s[i] PROVE m \in T
    BY <1>6 DEF Before
  <2>1. PICK j \in 1..Cardinality(S) : s[j] = m
    BY <1>1
  <2>2. j < i
    BY <1>1, <1>4, <2>1
  <2>3. j \in 1..k
    BY <1>2, <2>2
  <2> QED BY <1>5, <2>1, <2>3
<1>8. Cardinality(T) = k
  <2> DEFINE f == [i \in 1..k |-> s[i]]
  <2>1. f \in Surjection(1..k, T)
    BY <1>5 DEF Surjection
  <2>2. \A i, j \in 1..k : f[i] = f[j] => i = j
    <3> SUFFICES ASSUME NEW i \in 1..k, NEW j \in 1..k, s[i] = s[j], i # j PROVE FALSE
      OBVIOUS
    <3>1. i < j \/ j < i
      BY <1>2
    <3>2. s[i] \in Nat /\ s[j] \in Nat
      BY <1>1, <1>4
    <3> QED BY <1>1, <1>4, <3>1, <3>2
  <2>3. f \in Injection(1..k, T)
    BY <2>1, <2>2, <1>5 DEF Injection, IsInjective, Surjection
  <2>4. IsFiniteSet(1..k) /\ Cardinality(1..k) = k
    BY <1>2, FS_Interval
  <2> QED BY <2>1, <2>3, <2>4, FS_Surjection
<1>9. /\ InOrder(T) \in [1..k -> T]
      /\ \A i \in 1..k : Cardinality(Before(T, InOrder(T)[i])) = i - 1
  BY <1>6, <1>8, InOrderIs
<1>10. ASSUME NEW i \in 1..k PROVE InOrder(T)[i] = s[i]
  <2>1. InOrder(T)[i] \in T /\ s[i] \in T
    BY <1>5, <1>9
  <2>2. Cardinality(Before(T, s[i])) = i - 1 /\ Cardinality(Before(T, InOrder(T)[i])) = i - 1
    BY <1>1, <1>4, <1>7, <1>9
  <2>3. ~ (s[i] < InOrder(T)[i]) /\ ~ (InOrder(T)[i] < s[i])
    <3>1. \A x \in T, y \in T : x < y => Cardinality(Before(T, x)) < Cardinality(Before(T, y))
      BY <1>6, RankIsPlace
    <3>2. ~ (i - 1 < i - 1)
      BY <1>2
    <3>3. ~ (s[i] < InOrder(T)[i])
      BY Zenon, <2>1, <2>2, <3>1, <3>2
    <3>4. ~ (InOrder(T)[i] < s[i])
      BY Zenon, <2>1, <2>2, <3>1, <3>2
    <3> QED BY <3>3, <3>4
  <2>4. s[i] \in Nat /\ InOrder(T)[i] \in Nat
    BY <1>6, <2>1
  <2> QED BY <2>3, <2>4
<1>11. first \in [1..k -> S]
  BY <1>3
<1>12. InOrder(T) = first
  BY <1>4, <1>9, <1>10, <1>11
<1> QED BY <1>6, <1>8, <1>12 DEF T, first, s

-----------------------------------------------------------------------------
(* Pages of a sequence *)

\* How many pages of a sequence, and how much of it the first k pages hold.
Pages(seq) == (Len(seq) + PageSize - 1) \div PageSize
Held(seq, k) == Lesser(k * PageSize, Len(seq))

\* Quotient and remainder, as the numbering of pages uses them.
LEMMA Division ==
  ASSUME NEW a \in Nat, NEW b \in Nat \ {0}
  PROVE  a \div b \in Nat /\ a % b \in 0 .. b - 1 /\ a = b * (a \div b) + (a % b)
OBVIOUS

\* The same by the size of a page.
LEMMA Dividing ==
  ASSUME NEW a \in Nat
  PROVE  /\ a \div PageSize \in Nat /\ a % PageSize \in 0 .. PageSize - 1
         /\ a = PageSize * (a \div PageSize) + (a % PageSize)
BY Division, PagesAssumption

\* The pages reach to the end of the sequence, and the last one is not empty.
LEMMA PagesReach ==
  ASSUME NEW seq, Len(seq) \in Nat
  PROVE  /\ Pages(seq) \in Nat
         /\ Pages(seq) = 0 <=> Len(seq) = 0
         /\ Len(seq) <= Pages(seq) * PageSize
         /\ \A k \in Nat : k < Pages(seq) => k * PageSize < Len(seq)
<1> DEFINE L == Len(seq)
           a == L + PageSize - 1
           q == a \div PageSize
           r == a % PageSize
<1>1. PageSize \in Nat \ {0} /\ L \in Nat
  BY PagesAssumption
<1>2. a \in Nat
  BY <1>1
<1> HIDE DEF a
<1>3. q \in Nat /\ r \in 0 .. PageSize - 1 /\ a = PageSize * q + r
  BY <1>2, Dividing
<1> USE DEF a
<1> HIDE DEF q, r, L
<1>4. L <= q * PageSize
  BY <1>1, <1>3
<1>5. ASSUME NEW k \in Nat, k < q PROVE k * PageSize < L
  <2>1. (k + 1) * PageSize <= q * PageSize
    BY <1>1, <1>3, <1>5
  <2>2. (k + 1) * PageSize = k * PageSize + PageSize /\ k * PageSize \in Nat /\ q * PageSize = PageSize * q
    BY <1>1, <1>3
  <2> QED BY <1>1, <1>3, <2>1, <2>2
<1>6. q = 0 <=> L = 0
  <2>1. q = 0 => L = 0
    BY <1>1, <1>4
  <2>2. q # 0 => L # 0
    <3> SUFFICES ASSUME q # 0 PROVE L # 0
      OBVIOUS
    <3>1. 0 * PageSize < L
      BY <1>3, <1>5
    <3> QED BY <1>1, <3>1
  <2> QED BY <2>1, <2>2
<1>7. Pages(seq) = q
  BY DEF Pages, q, L
<1> QED BY <1>3, <1>4, <1>5, <1>6, <1>7 DEF L

\* A page and what the pages up to it hold.
LEMMA PageIs ==
  ASSUME NEW T, NEW seq \in Seq(T), NEW p \in 1..Pages(seq)
  PROVE  /\ Paged(seq)[p] = SubSeq(seq, (p - 1) * PageSize + 1, Held(seq, p))
         /\ (p - 1) * PageSize \in Nat /\ (p - 1) * PageSize < Len(seq)
         /\ Held(seq, p - 1) = (p - 1) * PageSize
         /\ Held(seq, p) \in Nat /\ Held(seq, p - 1) < Held(seq, p) /\ Held(seq, p) <= Len(seq)
         /\ Held(seq, p) <= (p - 1) * PageSize + PageSize
<1>1. Len(seq) \in Nat /\ Pages(seq) \in Nat /\ PageSize \in Nat \ {0}
  BY PagesReach, PagesAssumption
<1>2. p \in Nat /\ p - 1 \in Nat /\ p - 1 < Pages(seq)
  BY <1>1
<1>3. (p - 1) * PageSize < Len(seq)
  BY <1>1, <1>2, PagesReach
<1>4. p * PageSize = (p - 1) * PageSize + PageSize /\ (p - 1) * PageSize \in Nat
  BY <1>1, <1>2
<1>5. Paged(seq)[p] = SubSeq(seq, (p - 1) * PageSize + 1, Held(seq, p))
  BY DEF Paged, Pages, Held
<1> QED BY <1>1, <1>3, <1>4, <1>5 DEF Held, Lesser

\* A beginning of a sequence, taken in two parts.
LEMMA SequenceParts ==
  ASSUME NEW T, NEW seq \in Seq(T), NEW a \in 0..Len(seq), NEW b \in a..Len(seq)
  PROVE  SubSeq(seq, 1, a) \o SubSeq(seq, a + 1, b) = SubSeq(seq, 1, b)
<1> DEFINE l == SubSeq(seq, 1, a)
           m == SubSeq(seq, a + 1, b)
           w == SubSeq(seq, 1, b)
<1>1. Len(seq) \in Nat /\ a \in Nat /\ b \in Nat /\ a <= b /\ b <= Len(seq)
  OBVIOUS
<1>2. l \in Seq(T) /\ Len(l) = a /\ \A i \in 1..a : l[i] = seq[i]
  BY <1>1
<1>3. m \in Seq(T) /\ Len(m) = b - a /\ \A i \in 1..(b - a) : m[i] = seq[a + i]
  BY <1>1
<1>4. w \in Seq(T) /\ Len(w) = b /\ \A i \in 1..b : w[i] = seq[i]
  BY <1>1
<1> HIDE DEF l, m, w
<1>5. l \o m \in Seq(T) /\ Len(l \o m) = b
  BY <1>1, <1>2, <1>3
<1>6. \A i \in 1..b : (l \o m)[i] = IF i <= a THEN l[i] ELSE m[i - a]
  BY <1>1, <1>2, <1>3
<1>7. ASSUME NEW i \in 1..b PROVE (l \o m)[i] = w[i]
  <2>1. CASE i <= a
    BY <1>2, <1>4, <1>6, <2>1
  <2>2. CASE ~ (i <= a)
    <3>1. i - a \in 1..(b - a) /\ a + (i - a) = i
      BY <1>1, <2>2
    <3> QED BY <1>3, <1>4, <1>6, <2>2, <3>1
  <2> QED BY <2>1, <2>2
<1>8. l \o m = w
  BY <1>1, <1>4, <1>5, <1>7
<1> QED BY <1>8 DEF l, m, w

\* A set of numbers that is not empty has a least one.
LEMMA LeastNumber ==
  ASSUME NEW I \in SUBSET Nat, I # {}
  PROVE  \E i \in I : \A j \in I : ~ (j < i)
<1> DEFINE R == OpToRel(<, Nat)
<1>1. \A z : z \in Nat \X Nat => (z[1] < z[2] => z \in R)
  BY Zenon DEF OpToRel
<1>2. IsWellFoundedOn(R, Nat)
  BY NatLessThanWellFounded, Zenon
<1> HIDE DEF R
<1>3. PICK i \in I : \A j \in I : ~ (<<j, i>> \in R)
  BY <1>2, WFMin
<1>4. \A j \in I : <<j, i>> \in Nat \X Nat /\ <<j, i>>[1] = j /\ <<j, i>>[2] = i
  OBVIOUS
<1>5. \A j \in I : ~ (j < i)
  BY <1>1, <1>3, <1>4
<1> QED BY <1>5

\* The pages read one after the other are the sequence.
LEMMA FlatPaged ==
  ASSUME NEW T, NEW seq \in Seq(T)
  PROVE  /\ Flat(Paged(seq)) = seq
         /\ Len(Paged(seq)) = Pages(seq) /\ DOMAIN Paged(seq) = 1..Pages(seq)
<1> DEFINE pages == Paged(seq)
           n == Pages(seq)
           upTo == [i \in 1..n |-> SubSeq(seq, 1, Held(seq, i))]
           Joins(f) == f = [i \in 1..n |-> IF i = 1 THEN pages[i] ELSE f[i - 1] \o pages[i]]
           joined == CHOOSE f : Joins(f)
<1>1. Len(seq) \in Nat /\ n \in Nat /\ (n = 0 <=> Len(seq) = 0)
  BY PagesReach
<1>2. DOMAIN pages = 1..n /\ Len(pages) = n
  <2>1. pages = [p \in 1..n |-> SubSeq(seq, (p - 1) * PageSize + 1, Lesser(p * PageSize, Len(seq)))]
    BY DEF Paged, Pages
  <2> HIDE DEF pages, n
  <2>2. DOMAIN pages = 1..n
    BY <2>1
  <2> QED BY <1>1, <2>2
<1>3. CASE n = 0
  <2>1. pages = [p \in 1..0 |-> SubSeq(seq, (p - 1) * PageSize + 1, Lesser(p * PageSize, Len(seq)))]
    BY <1>3 DEF Paged, Pages
  <2> HIDE DEF pages, n
  <2>2. pages = <<>>
    BY <2>1
  <2>3. seq = <<>>
    BY <1>1, <1>3
  <2>4. Flat(pages) = pages
    BY <1>2, <1>3 DEF Flat, FlattenSeq
  <2>5. Flat(pages) = seq
    BY <2>2, <2>3, <2>4
  <2> QED BY <1>2, <2>5 DEF pages, n
<1>4. CASE n # 0
  <2>1. ASSUME NEW i \in 1..n
        PROVE  upTo[i] = IF i = 1 THEN pages[i] ELSE upTo[i - 1] \o pages[i]
    <3>1. /\ pages[i] = SubSeq(seq, (i - 1) * PageSize + 1, Held(seq, i))
          /\ (i - 1) * PageSize \in Nat /\ (i - 1) * PageSize < Len(seq)
          /\ Held(seq, i - 1) = (i - 1) * PageSize
          /\ Held(seq, i) \in Nat /\ Held(seq, i - 1) < Held(seq, i) /\ Held(seq, i) <= Len(seq)
      BY PageIs
    <3> HIDE DEF pages
    <3>2. CASE i = 1
      <4>1. (1 - 1) * PageSize = 0
        BY PagesAssumption
      <4> QED BY <3>1, <3>2, <4>1
    <3>3. CASE i # 1
      <4>1. i - 1 \in 1..n
        BY <1>1, <3>3
      <4>2. upTo[i - 1] = SubSeq(seq, 1, Held(seq, i - 1))
        BY <4>1
      <4>3. Held(seq, i - 1) \in 0..Len(seq) /\ Held(seq, i) \in Held(seq, i - 1)..Len(seq)
        BY <1>1, <3>1
      <4>4. SubSeq(seq, 1, Held(seq, i - 1)) \o SubSeq(seq, Held(seq, i - 1) + 1, Held(seq, i))
              = SubSeq(seq, 1, Held(seq, i))
        BY <4>3, SequenceParts
      <4>5. upTo[i - 1] \o pages[i] = SubSeq(seq, 1, Held(seq, i))
        BY <3>1, <4>2, <4>4
      <4> QED BY <3>3, <4>5
    <3> QED BY <3>2, <3>3
  <2> HIDE DEF pages, n
  <2>2. Joins(upTo)
    <3> HIDE DEF upTo
    <3>1. upTo = [i \in 1..n |-> upTo[i]]
      BY DEF upTo
    <3> QED BY <2>1, <3>1
  <2> HIDE DEF upTo
  <2>3. Joins(joined)
    <3>1. \E f : Joins(f)
      BY <2>2
    <3> HIDE DEF Joins
    <3> QED BY <3>1
  <2> HIDE DEF joined
  <2>4. \A i \in 1..n : joined[i] = upTo[i]
    <3> DEFINE bad == {i \in 1..n : joined[i] # upTo[i]}
    <3> SUFFICES ASSUME bad # {} PROVE FALSE
      OBVIOUS
    <3>1. bad \in SUBSET Nat
      BY <1>1
    <3>2. PICK i \in bad : \A j \in bad : ~ (j < i)
      BY <3>1, LeastNumber
    <3>3. i \in 1..n /\ joined[i] # upTo[i]
      BY <3>2
    <3>4. joined[i] = IF i = 1 THEN pages[i] ELSE joined[i - 1] \o pages[i]
      BY <2>3, <3>3
    <3>5. i # 1
      BY <2>1, <3>3, <3>4
    <3>6. i - 1 \in 1..n /\ i - 1 < i
      BY <1>1, <3>3, <3>5
    <3>7. joined[i - 1] = upTo[i - 1]
      BY <3>2, <3>6
    <3> QED BY <2>1, <3>3, <3>4, <3>5, <3>7
  <2>5. n \in 1..n
    BY <1>1, <1>4
  <2>6. upTo[n] = seq
    <3>1. Len(seq) <= n * PageSize
      BY PagesReach DEF n
    <3>2. Held(seq, n) = Len(seq)
      <4>1. n * PageSize \in Nat
        BY <1>1, PagesAssumption
      <4> QED BY <1>1, <3>1, <4>1 DEF Held, Lesser
    <3>3. upTo[n] = SubSeq(seq, 1, Len(seq))
      BY <2>5, <3>2 DEF upTo
    <3> QED BY <3>3
  <2>7. Flat(pages) = joined[n]
    <3>1. Flat(pages) = LET flatten[i \in 1..n] ==
                              IF i = 1 THEN pages[i] ELSE flatten[i - 1] \o pages[i]
                        IN  flatten[n]
      BY <1>2, <1>4 DEF Flat, FlattenSeq
    <3> QED BY <3>1 DEF joined
  <2>8. Flat(pages) = seq
    BY <2>4, <2>5, <2>6, <2>7
  <2> QED BY <1>2, <2>8 DEF pages, n
<1> QED BY <1>3, <1>4

-----------------------------------------------------------------------------
(* What is read back *)

\* Pages of elements of T.
LEMMA PagedType ==
  ASSUME NEW T, NEW seq \in Seq(T)
  PROVE  Paged(seq) \in Seq(Seq(T))
<1>1. Len(Paged(seq)) = Pages(seq) /\ DOMAIN Paged(seq) = 1..Pages(seq) /\ Pages(seq) \in Nat
  BY FlatPaged, PagesReach
<1>2. ASSUME NEW p \in 1..Pages(seq) PROVE Paged(seq)[p] \in Seq(T)
  <2>1. /\ Paged(seq)[p] = SubSeq(seq, (p - 1) * PageSize + 1, Held(seq, p))
        /\ (p - 1) * PageSize \in Nat
        /\ Held(seq, p) \in Nat /\ Held(seq, p) <= Len(seq)
    BY PageIs
  <2>2. (p - 1) * PageSize + 1 \in 1 .. Len(seq) + 1 \/ Held(seq, p) < (p - 1) * PageSize + 1
    BY <2>1
  <2> QED BY <2>1, <2>2
<1>3. Paged(seq) = [p \in 1..Pages(seq) |-> Paged(seq)[p]]
  BY DEF Paged, Pages
<1> QED BY <1>1, <1>2, <1>3

\* Every page there is can be read, and what is read is the sequence.
LEMMA ReadBackPaged ==
  ASSUME NEW T, NEW seq \in Seq(T), NEW list, list.pages = Paged(seq), list.count = Len(seq)
  PROVE  ReadBack(list) = seq
<1>1. Len(Paged(seq)) = Pages(seq) /\ Pages(seq) \in Nat /\ Paged(seq) \in Seq(Seq(T))
  BY FlatPaged, PagesReach, PagedType
<1>2. PageCount(list.count) = Pages(seq)
  BY DEF PageCount, Pages
<1>3. Lesser(PageCount(list.count), Len(list.pages)) = Len(Paged(seq))
  BY <1>1, <1>2 DEF Lesser
<1>4. SubSeq(Paged(seq), 1, Len(Paged(seq))) = Paged(seq)
  BY <1>1
<1>5. Flat(Paged(seq)) = seq
  BY FlatPaged
<1> QED BY <1>3, <1>4, <1>5 DEF ReadBack

\* The row found for an ordinal is the one written at its place.
LEMMA RowAtPaged ==
  ASSUME NEW T, NEW seq \in Seq(T), store.pages = Paged(seq), NEW i \in 1..Len(seq)
  PROVE  RowAt(i - 1) = seq[i].row
<1> DEFINE o == i - 1
           q == o \div PageSize
           r == o % PageSize
           n == Pages(seq)
<1>1. Len(seq) \in Nat /\ n \in Nat /\ Len(seq) <= n * PageSize /\ PageSize \in Nat \ {0}
  BY PagesReach, PagesAssumption
<1>2. o \in Nat /\ o < Len(seq) /\ i = o + 1
  BY <1>1
<1> HIDE DEF o
<1>3. q \in Nat /\ r \in 0 .. PageSize - 1 /\ o = PageSize * q + r
  BY <1>2, Dividing
<1> HIDE DEF q, r, n
<1>4. q < n
  <2> SUFFICES ASSUME n <= q PROVE FALSE
    BY <1>1, <1>3
  <2>1. n * PageSize <= q * PageSize
    BY <1>1, <1>3
  <2>2. q * PageSize = PageSize * q
    BY <1>1, <1>3
  <2> QED BY <1>1, <1>2, <1>3, <2>1, <2>2
<1>5. q + 1 \in 1..n /\ (q + 1) - 1 = q
  BY <1>1, <1>3, <1>4
<1>6. /\ Paged(seq)[q + 1] = SubSeq(seq, q * PageSize + 1, Held(seq, q + 1))
      /\ q * PageSize \in Nat /\ q * PageSize < Len(seq)
      /\ Held(seq, q + 1) \in Nat /\ Held(seq, q + 1) <= Len(seq)
  BY <1>5, PageIs DEF n
<1>7. Held(seq, q + 1) = Lesser(q * PageSize + PageSize, Len(seq))
  <2>1. (q + 1) * PageSize = q * PageSize + PageSize
    BY <1>1, <1>3
  <2> QED BY <2>1 DEF Held
<1>8. o = q * PageSize + r
  BY <1>1, <1>3
<1>9. r + 1 \in 1 .. Held(seq, q + 1) - q * PageSize
  BY <1>1, <1>2, <1>3, <1>6, <1>7, <1>8 DEF Lesser
<1>10. /\ DOMAIN Paged(seq)[q + 1] = 1 .. Held(seq, q + 1) - q * PageSize
       /\ Paged(seq)[q + 1][r + 1] = seq[q * PageSize + r + 1]
  BY <1>1, <1>3, <1>6, <1>9
<1>11. q * PageSize + r + 1 = i
  BY <1>2, <1>3, <1>6, <1>8
<1>12. q + 1 \in DOMAIN Paged(seq)
  BY <1>5, FlatPaged DEF n
<1> QED BY <1>9, <1>10, <1>11, <1>12 DEF RowAt, o, q, r

-----------------------------------------------------------------------------
(* Types *)

\* What an export can read: the tables at one moment.
Views ==
  [rows : [Names -> Row \cup {None}], ips : SUBSET (Names \X Ips),
   evidence : SUBSET EvidenceRow, tlsa : [Names -> BOOLEAN \cup {None}]]

\* The lesser of two numbers.
LEMMA LesserIs ==
  ASSUME NEW a \in Nat, NEW b \in Nat
  PROVE  /\ Lesser(a, b) \in Nat /\ Lesser(a, b) <= a /\ Lesser(a, b) <= b
         /\ (Lesser(a, b) = a \/ Lesser(a, b) = b) /\ (a <= b => Lesser(a, b) = a)
BY DEF Lesser

\* The limit of an export is zero only when there is no name.
LEMMA EffectiveIs ==
  ASSUME NEW n \in Nat
  PROVE  EffectiveLimit(n) \in Nat /\ EffectiveLimit(n) <= n /\ (EffectiveLimit(n) = 0 <=> n = 0)
BY PagesAssumption DEF EffectiveLimit, Lesser

\* Names are finitely many numbers.
LEMMA NamesFinite ==
  ASSUME NEW S \in SUBSET Names
  PROVE  S \in SUBSET Nat /\ IsFiniteSet(S) /\ Cardinality(S) \in Nat
<1>1. N \in Nat
  BY DerivedAssumption
<1>2. IsFiniteSet(1..N)
  BY <1>1, FS_Interval
<1>3. IsFiniteSet(S)
  BY <1>2, FS_Subset DEF Names
<1> QED BY <1>1, <1>3, FS_CardinalityType DEF Names

\* The names numbered of a view: the first ones, in order.
LEMMA LimitedIs ==
  ASSUME NEW v, NEW k \in Nat
  PROVE  /\ Limited(v, k) \in Seq(Names)
         /\ Len(Limited(v, k)) = Lesser(k, Cardinality(NamesIn(v)))
         /\ ToSet(Limited(v, k)) \in SUBSET NamesIn(v)
         /\ InOrder(ToSet(Limited(v, k))) = Limited(v, k)
         /\ Cardinality(ToSet(Limited(v, k))) = Len(Limited(v, k))
         /\ DOMAIN Limited(v, k) = 1..Len(Limited(v, k)) /\ DOMAIN Limited(v, k) \subseteq Names
<1> DEFINE S == NamesIn(v)
           l == Lesser(k, Cardinality(S))
<1>1. S \in SUBSET Names /\ S \in SUBSET Nat /\ IsFiniteSet(S) /\ Cardinality(S) \in Nat
  BY NamesFinite DEF NamesIn
<1>2. l \in 0..Cardinality(S)
  BY <1>1 DEF Lesser
<1>3. InOrder(S) \in Seq(S) /\ Len(InOrder(S)) = Cardinality(S)
  BY <1>1, InOrderIs
<1>4. Limited(v, k) = SubSeq(InOrder(S), 1, l)
  BY <1>3 DEF Limited, Lesser
<1> HIDE DEF S, l
<1>5. /\ SubSeq(InOrder(S), 1, l) \in Seq(S) /\ Len(SubSeq(InOrder(S), 1, l)) = l
      /\ DOMAIN SubSeq(InOrder(S), 1, l) = 1..l
  BY <1>1, <1>2, <1>3
<1>6. /\ InOrder(ToSet(SubSeq(InOrder(S), 1, l))) = SubSeq(InOrder(S), 1, l)
      /\ ToSet(SubSeq(InOrder(S), 1, l)) \in SUBSET S
      /\ Cardinality(ToSet(SubSeq(InOrder(S), 1, l))) = l
  BY <1>1, <1>2, FirstInOrder
<1>7. SubSeq(InOrder(S), 1, l) \in Seq(Names)
  <2> DEFINE first == SubSeq(InOrder(S), 1, l)
  <2>1. first \in Seq(S) /\ Len(first) = l /\ DOMAIN first = 1..l
    BY <1>5
  <2> HIDE DEF first
  <2>2. ASSUME NEW i \in 1..l PROVE first[i] \in Names
    <3>1. first[i] \in S
      BY <1>1, <1>2, <2>1
    <3> QED BY <1>1, <3>1
  <2>3. first = [i \in 1..l |-> first[i]] /\ l \in Nat
    BY <1>1, <1>2, <2>1
  <2>4. first \in Seq(Names)
    BY <2>2, <2>3
  <2> QED BY <2>4 DEF first
<1>8. 1..l \subseteq Names
  <2>1. Cardinality(S) <= N
    <3>1. N \in Nat /\ IsFiniteSet(Names) /\ Cardinality(Names) = N
      <4>1. N \in Nat /\ N # 0
        BY DerivedAssumption
      <4>2. IsFiniteSet(1..N) /\ Cardinality(1..N) = N
        <5>1. IsFiniteSet(1..N) /\ Cardinality(1..N) = IF 1 > N THEN 0 ELSE N - 1 + 1
          BY <4>1, FS_Interval
        <5> QED BY <4>1, <5>1
      <4> QED BY <4>1, <4>2 DEF Names
    <3>2. Cardinality(S) <= Cardinality(Names)
      BY <1>1, <3>1, FS_Subset
    <3> QED BY <3>1, <3>2
  <2>2. N \in Nat
    BY DerivedAssumption
  <2> QED BY <1>1, <1>2, <2>1, <2>2 DEF Names
<1> QED BY <1>4, <1>5, <1>6, <1>7, <1>8 DEF S, l

\* A row of the store carries its name, its state and its nameservers.
LEMMA AttributesAre ==
  ASSUME NEW v, NEW n
  PROVE  /\ Attributes(v, n).a.name = n /\ Attributes(v, n).a.expired = v.rows[n].expired
         /\ Attributes(v, n).under = v.rows[n].res.ns
BY DEF Attributes

\* Records of the export.
SummaryRow == [names : Nat, active : Nat, tip : Nat \cup {None}, rules : RuleSets \cup {None}]
CountRow == [total : Nat, export : Nat]

\* The inductive form of TypeOK.
TypeInv ==
  /\ TypeOK
  /\ snap \in Views \cup {None}
  /\ DOMAIN ordinals \subseteq Names
  /\ pc \notin {"idle", "failed", "totals"} => summary \in SummaryRow
  /\ pc \notin {"idle", "failed", "totals", "meta", "count"} => counted \in CountRow
  /\ calm \in BOOLEAN

\* The database is a view, and so is what an open transaction reads.
LEMMA ViewType ==
  ASSUME DerivedTypeOK
  PROVE  Db \in Views /\ (snap \in Views \cup {None} => View \in Views)
<1>1. Db \in Views
  BY DEF Db, Views, DerivedTypeOK
<1> QED BY <1>1 DEF View

\* Every list counts and pages some names, in order.
LEMMA LookupsType ==
  ASSUME NEW v \in Views, summary \in SummaryRow
  PROVE  /\ DOMAIN LookupsOf(v) \subseteq Ips \cup Roots
         /\ \A key \in DOMAIN LookupsOf(v) :
              \E S \in SUBSET Names :
                LookupsOf(v)[key] = [count |-> Cardinality(S), pages |-> Paged(InOrder(S))]
<1> DEFINE byIp == [ip \in Ips |-> WithAddress(v, ip)]
           byRoot == [root \in Roots |-> WithNameserver(v, root)]
<1>1. Exported(v) \subseteq Names
  BY DEF Exported, ActiveIn, NamesIn
<1>2. /\ \A key \in DOMAIN byIp : byIp[key] \in SUBSET Names
      /\ \A key \in DOMAIN byRoot : byRoot[key] \in SUBSET Names
  BY <1>1 DEF WithAddress, WithNameserver
<1> HIDE DEF byIp, byRoot
<1>3. ASSUME NEW found, \A key \in DOMAIN found : found[key] \in SUBSET Names
      PROVE  /\ DOMAIN Lists(found) \subseteq DOMAIN found
             /\ \A key \in DOMAIN Lists(found) :
                  Lists(found)[key] = [count |-> Cardinality(found[key]), pages |-> Paged(InOrder(found[key]))]
  BY DEF Lists
<1>4. DOMAIN byIp = Ips /\ DOMAIN byRoot = Roots
  BY DEF byIp, byRoot
<1>6. LookupsOf(v) = [key \in DOMAIN Lists(byIp) \cup DOMAIN Lists(byRoot) |->
                        IF key \in DOMAIN Lists(byIp) THEN Lists(byIp)[key] ELSE Lists(byRoot)[key]]
  BY DEF LookupsOf, AddressLists, NameserverLists, byIp, byRoot
<1>7. /\ DOMAIN Lists(byIp) \subseteq Ips /\ DOMAIN Lists(byRoot) \subseteq Roots
      /\ \A key \in DOMAIN Lists(byIp) : \E S \in SUBSET Names :
           Lists(byIp)[key] = [count |-> Cardinality(S), pages |-> Paged(InOrder(S))]
      /\ \A key \in DOMAIN Lists(byRoot) : \E S \in SUBSET Names :
           Lists(byRoot)[key] = [count |-> Cardinality(S), pages |-> Paged(InOrder(S))]
  BY <1>2, <1>3, <1>4
<1> HIDE DEF byIp, byRoot
<1> QED BY <1>6, <1>7

\* A step of the system is a step of the derived tables, or leaves them alone.
LEMMA StepIsDerived == [Next]_vars => [DerivedNext]_derivedVars
<1>1. Export => UNCHANGED derivedVars
  BY DEF Export
<1>2. Others => DerivedNext
  BY DEF Others, DerivedNext
<1> QED BY <1>1, <1>2 DEF Next, Done, vars

\* The names of a posting, by position.
Chosen(key) == InOrder({i \in DOMAIN ordinals : Belongs(ordinals[i], key)})
Posted(key) == [i \in DOMAIN Chosen(key) |-> Chosen(key)[i] - 1]

\* The ordinals of a collection are the places of its names, less one.
LEMMA PostedType ==
  ASSUME DOMAIN ordinals \subseteq Names, NEW key
  PROVE  /\ Chosen(key) \in Seq(Names) /\ Posted(key) \in Seq(Nat)
         /\ Len(Posted(key)) = Len(Chosen(key)) /\ DOMAIN Posted(key) = DOMAIN Chosen(key)
         /\ ToSet(Chosen(key)) = {i \in DOMAIN ordinals : Belongs(ordinals[i], key)}
<1> DEFINE S == {i \in DOMAIN ordinals : Belongs(ordinals[i], key)}
           c == InOrder(S)
<1>1. S \in SUBSET Names /\ S \in SUBSET Nat /\ IsFiniteSet(S) /\ Cardinality(S) \in Nat
  BY NamesFinite
<1> HIDE DEF S
<1>2. /\ c \in [1..Cardinality(S) -> S] /\ Len(c) = Cardinality(S)
      /\ \A x \in S : \E i \in 1..Cardinality(S) : c[i] = x
  BY <1>1, InOrderIs
<1> HIDE DEF c
<1>3. c \in [1..Cardinality(S) -> Names]
  BY <1>1, <1>2
<1>4. c \in Seq(Names) /\ DOMAIN c = 1..Cardinality(S)
  BY <1>1, <1>3
<1>5. Chosen(key) = c
  BY DEF Chosen, c, S
<1>6. Posted(key) = [i \in 1..Cardinality(S) |-> c[i] - 1]
  BY <1>4, <1>5 DEF Posted
<1>7. \A i \in 1..Cardinality(S) : c[i] - 1 \in Nat
  BY <1>3 DEF Names
<1>8. Posted(key) \in Seq(Nat) /\ Len(Posted(key)) = Cardinality(S) /\ DOMAIN Posted(key) = 1..Cardinality(S)
  BY <1>1, <1>6, <1>7
<1>9. ToSet(c) = S
  BY <1>2, <1>4 DEF ToSet
<1> QED BY <1>2, <1>4, <1>5, <1>8, <1>9 DEF S

\* What is written for a collection is its ordinals.
LEMMA WritePostingsIs ==
  ASSUME WritePostings, DOMAIN ordinals \subseteq Names
  PROVE  posts' = [key \in Collections |-> [count |-> Len(Posted(key)), pages |-> Paged(Posted(key))]]
<1>1. \A key \in Collections : Len(Posted(key)) = Len(Chosen(key))
  BY PostedType
<1>2. posts' = [key \in Collections |-> [count |-> Len(Chosen(key)), pages |-> Paged(Posted(key))]]
  BY DEF WritePostings, Chosen, Posted
<1> QED BY <1>1, <1>2

\* A set of names in order.
LEMMA InOrderNames ==
  ASSUME NEW S \in SUBSET Names
  PROVE  /\ InOrder(S) \in Seq(Names) /\ Len(InOrder(S)) = Cardinality(S) /\ ToSet(InOrder(S)) = S
<1> DEFINE c == InOrder(S)
<1>1. S \in SUBSET Nat /\ IsFiniteSet(S) /\ Cardinality(S) \in Nat
  BY NamesFinite
<1>2. /\ c \in [1..Cardinality(S) -> S] /\ Len(c) = Cardinality(S)
      /\ \A x \in S : \E i \in 1..Cardinality(S) : c[i] = x
  BY <1>1, InOrderIs
<1> HIDE DEF c
<1>3. c \in [1..Cardinality(S) -> Names]
  BY <1>2
<1>4. c \in Seq(Names) /\ DOMAIN c = 1..Cardinality(S)
  BY <1>1, <1>3
<1>5. ToSet(c) = S
  BY <1>2, <1>4 DEF ToSet
<1> QED BY <1>2, <1>4, <1>5 DEF c

\* Before the export nothing is written.
LEMMA InitTyped == Init => TypeInv
<1> SUFFICES ASSUME Init PROVE TypeInv
  OBVIOUS
<1>1. DerivedTypeOK
  BY InitType DEF Init
<1>2. DOMAIN posts = {} /\ DOMAIN lookups = {} /\ DOMAIN ordinals = {}
  BY DEF Init
<1>3. TypeOK
  BY <1>1, <1>2 DEF Init, TypeOK, NoFiles
<1> QED BY <1>2, <1>3 DEF Init, TypeInv

\* Of the steps of the export those that write a table or a file.
LEMMA NumberType ==
  ASSUME TypeInv, Number
  PROVE  DOMAIN ordinals' \subseteq Names /\ snap' \in Views \cup {None}
<1>1. counted.export \in Nat
  BY DEF TypeInv, Number, CountRow
<1>2. DOMAIN Limited(Db, counted.export) \subseteq Names
      /\ DOMAIN Limited(Db, counted.export) = 1..Len(Limited(Db, counted.export))
  BY <1>1, LimitedIs
<1>3. Db \in Views
  BY ViewType DEF TypeInv, TypeOK
<1> QED BY <1>2, <1>3 DEF Number

\* The steps of the export keep the types.
LEMMA ExportTyped == TypeInv /\ Export => TypeInv'
<1> SUFFICES ASSUME TypeInv, Export PROVE TypeInv'
  OBVIOUS
<1>1. DerivedTypeOK' /\ DerivedTypeOK
  BY StepType DEF Export, TypeInv, TypeOK
<1>2. Db \in Views /\ View \in Views
  BY ViewType DEF TypeInv, TypeOK
<1> USE DEF TypeInv, TypeOK, fileVars
<1>3. CASE Begin
  BY <1>1, <1>3 DEF Begin
<1>4. CASE CountSummary
  <2>1. summary' \in SummaryRow
    <3>1. Cardinality(NamesIn(Db)) \in Nat /\ Cardinality(ActiveIn(Db)) \in Nat
      BY NamesFinite DEF NamesIn, ActiveIn
    <3> QED BY <1>4, <3>1 DEF CountSummary, SummaryRow
  <2> QED BY <1>1, <1>4, <2>1 DEF CountSummary
<1>5. CASE ReadMeta
  <2>1. summary' \in SummaryRow
    BY <1>1, <1>5 DEF ReadMeta, SummaryRow, DerivedTypeOK
  <2> QED BY <1>1, <1>5, <2>1 DEF ReadMeta
<1>6. CASE CountNames
  <2>1. counted' \in CountRow
    <3>1. Cardinality(NamesIn(Db)) \in Nat
      BY NamesFinite DEF NamesIn
    <3>2. EffectiveLimit(summary.names) \in Nat
      BY <1>6, EffectiveIs DEF CountNames, SummaryRow
    <3> QED BY <1>6, <3>1, <3>2, LesserIs DEF CountNames, CountRow
  <2> QED BY <1>1, <1>6, <2>1 DEF CountNames
<1>7. CASE FindHandoffs
  <2>1. handoff' \subseteq Names
    <3>1. counted.export \in Nat
      BY <1>7 DEF FindHandoffs, CountRow
    <3>2. ToSet(Limited(Db, counted.export)) \subseteq Names
      BY <3>1, LimitedIs DEF NamesIn
    <3> QED BY <1>7, <3>2 DEF FindHandoffs, HandoffIn
  <2> QED BY <1>1, <1>7, <2>1 DEF FindHandoffs
<1>8. CASE Number
  <2>1. DOMAIN ordinals' \subseteq Names /\ snap' \in Views \cup {None}
    BY <1>8, NumberType
  <2> QED BY <1>1, <1>8, <2>1 DEF Number
<1>9. CASE WriteRows
  <2>1. store'.count = counted.export /\ counted.export \in Nat
    BY <1>9 DEF WriteRows, CountRow
  <2> QED BY <1>1, <1>9, <2>1 DEF WriteRows
<1>10. CASE WritePostings
  <2>1. posts' = [key \in Collections |-> [count |-> Len(Posted(key)), pages |-> Paged(Posted(key))]]
    BY <1>10, WritePostingsIs
  <2>2. \A key \in Collections : Paged(Posted(key)) \in Seq(Seq(Nat))
    BY PostedType, PagedType
  <2>3. DOMAIN posts' \subseteq Collections /\ \A key \in DOMAIN posts' : posts'[key].pages \in Seq(Seq(Nat))
    BY <2>1, <2>2
  <2> QED BY <1>1, <1>10, <2>3 DEF WritePostings
<1>11. CASE WriteLookups
  <2>1. lookups' = LookupsOf(View) /\ summary \in SummaryRow
    BY <1>11 DEF WriteLookups
  <2>2. \A S \in SUBSET Names : Paged(InOrder(S)) \in Seq(Seq(Names))
    BY InOrderNames, PagedType
  <2>3. /\ DOMAIN lookups' \subseteq Ips \cup Roots
        /\ \A key \in DOMAIN lookups' : lookups'[key].pages \in Seq(Seq(Names))
    <3>1. ASSUME NEW key \in DOMAIN LookupsOf(View) PROVE LookupsOf(View)[key].pages \in Seq(Seq(Names))
      <4>1. PICK S \in SUBSET Names : LookupsOf(View)[key] = [count |-> Cardinality(S), pages |-> Paged(InOrder(S))]
        BY <1>2, <2>1, LookupsType
      <4> QED BY <2>2, <4>1
    <3>2. DOMAIN LookupsOf(View) \subseteq Ips \cup Roots
      BY <1>2, <2>1, LookupsType
    <3> QED BY <2>1, <3>1, <3>2
  <2> QED BY <1>1, <1>11, <2>3 DEF WriteLookups
<1>12. CASE WriteEvidence
  <2>1. files' \subseteq Names
    BY <1>2, <1>12 DEF WriteEvidence, Views, EvidenceRow
  <2> QED BY <1>1, <1>12, <2>1 DEF WriteEvidence
<1>13. CASE Validate
  BY <1>1, <1>13 DEF Validate
<1> QED BY <1>3, <1>4, <1>5, <1>6, <1>7, <1>8, <1>9, <1>10, <1>11, <1>12, <1>13 DEF Export

\* So does every step.
LEMMA StepTyped == TypeInv /\ [Next]_vars => TypeInv'
<1> SUFFICES ASSUME TypeInv, [Next]_vars PROVE TypeInv'
  OBVIOUS
<1>1. CASE Export
  BY <1>1, ExportTyped
<1>2. CASE Others
  <2>1. DerivedTypeOK'
    BY StepIsDerived, StepType DEF TypeInv, TypeOK
  <2>2. calm' \in BOOLEAN
    BY <1>2 DEF Others, TypeInv
  <2> QED BY <1>2, <2>1, <2>2 DEF Others, TypeInv, TypeOK, fileVars
<1>3. CASE UNCHANGED vars
  <2>1. DerivedTypeOK'
    BY StepIsDerived, StepType DEF TypeInv, TypeOK
  <2> QED BY <1>3, <2>1 DEF vars, exportVars, fileVars, TypeInv, TypeOK
<1> QED BY <1>1, <1>2, <1>3 DEF Next, Done

\* The state of an export has its types throughout (export_all, validate-release), whatever the
\* other processes write.
THEOREM PagesTyped == Spec => []TypeOK
<1>1. Spec => []TypeInv
  BY InitTyped, StepTyped, PTL DEF Spec
<1>2. TypeInv => TypeOK
  BY DEF TypeInv
<1> QED BY <1>1, <1>2, PTL

\* The system with an export implements DerivedRows: the export changes none of
\* the tables, and each step of another process is a step of that module.
THEOREM ExportLeavesTables == Spec => DerivedSpec
<1>1. Init => DerivedInit
  BY DEF Init
<1> QED BY <1>1, StepIsDerived, PTL DEF Spec, DerivedSpec

\* So what is proved of the tables holds beside an export: the IP index is in
\* sync, the labels are true, the TLSA summary is the latest observation.
THEOREM TablesStayTrue == Spec => []IpIndexInSync /\ []LabelsMatch /\ TlsaIsLatest
BY ExportLeavesTables, IpIndexStaysInSync, LabelsStayTrue, TlsaRefines, PTL

-----------------------------------------------------------------------------
(* What an export shows *)

\* Steps of an export from the numbering on, and those after a file was written.
Inside == {"names", "postings", "lookups", "evidence"}
Over == {"exported", "accepted", "rejected"}
RowsWritten == {"postings", "lookups", "evidence"} \cup Over
PostsWritten == {"lookups", "evidence"} \cup Over
ListsWritten == {"evidence"} \cup Over

\* The rows of a view as the store has them.
Stored(v) ==
  [i \in DOMAIN ordinals |->
     [row |-> ordinals[i], link |-> \E e \in v.evidence : e.name = ordinals[i].a.name]]

\* The ordinals are those of the first names of the view v.
Numbered(v) ==
  ordinals = [i \in 1..Len(Limited(v, counted.export)) |->
                Attributes(v, Limited(v, counted.export)[i])]

\* What is written by now was read from the view v, the database as it still is
\* if the indexer was alone and the tip is the one in the manifest.
Shows(v) ==
  /\ Numbered(v)
  /\ pc \in RowsWritten => store = [count |-> counted.export, pages |-> Paged(Stored(v))]
  /\ counted.export > 0 =>
       /\ snap = IF pc \in Inside THEN v ELSE None
       /\ pc \in ListsWritten => lookups = LookupsOf(v)
       /\ pc \in Over => files = {e.name : e \in v.evidence}
       /\ calm /\ summary.tip = tip => v = Db

\* The inductive invariant: there is one view of the database that all files show.
ViewInv ==
  /\ pc \in Inside \cup Over => \E v \in Views : Shows(v)
  /\ pc \in PostsWritten =>
       posts = [key \in Collections |-> [count |-> Len(Posted(key)), pages |-> Paged(Posted(key))]]
  /\ pc = "accepted" => summary.names > 0 /\ CountsMatch

\* Tips are numbered by the transactions that set them.
TipInv ==
  /\ \A i \in DOMAIN blocks : blocks[i].hash \in 0..writes
  /\ tip \in {None} \cup 0..writes
  /\ pc \notin {"idle", "failed", "totals", "meta"} => summary.tip \in {None} \cup 0..writes

\* Lists of a view depend on the summary and nothing else of the state;
LEMMA SameLookups ==
  ASSUME NEW v, UNCHANGED summary
  PROVE  LookupsOf(v)' = LookupsOf(v)
<1>1. Exported(v)' = Exported(v)
  BY DEF Exported, EffectiveLimit
<1>2. \A found : Lists(found)' = Lists(found)
  BY DEF Lists, EffectiveLimit
<1>3. AddressLists(v)' = AddressLists(v)
  BY <1>1, <1>2 DEF AddressLists, WithAddress
<1>4. NameserverLists(v)' = NameserverLists(v)
  BY <1>1, <1>2 DEF NameserverLists, WithNameserver
<1> QED BY <1>3, <1>4 DEF LookupsOf

\* stored rows of a view on the ordinals,
LEMMA SameStored ==
  ASSUME NEW v, UNCHANGED ordinals
  PROVE  Stored(v)' = Stored(v)
BY DEF Stored

\* attributes on the names with a handoff,
LEMMA SameAttributes ==
  ASSUME NEW v, UNCHANGED handoff
  PROVE  \A n : Attributes(v, n)' = Attributes(v, n)
BY DEF Attributes, Stage

\* and collections on the ordinals.
LEMMA SamePosted ==
  ASSUME UNCHANGED ordinals
  PROVE  \A key : Posted(key)' = Posted(key)
BY DEF Posted, Chosen, Belongs

\* Stored rows carry the names numbered.
LEMMA NumberedNames ==
  ASSUME NEW v \in Views, counted \in CountRow, Shows(v)
  PROVE  /\ {ordinals[i].a.name : i \in DOMAIN ordinals} = ToSet(Limited(v, counted.export))
         /\ DOMAIN ordinals = 1..Len(Limited(v, counted.export))
         /\ \A i \in DOMAIN ordinals :
              /\ ordinals[i] = Attributes(v, Limited(v, counted.export)[i])
              /\ ordinals[i].a.name = Limited(v, counted.export)[i]
<1> DEFINE s == Limited(v, counted.export)
<1>1. ordinals = [i \in 1..Len(s) |-> Attributes(v, s[i])]
  BY DEF Shows, Numbered
<1>2. DOMAIN s = 1..Len(s)
  BY LimitedIs DEF CountRow
<1> HIDE DEF s
<1>3. \A i \in 1..Len(s) : Attributes(v, s[i]).a.name = s[i]
  BY AttributesAre
<1>4. {ordinals[i].a.name : i \in DOMAIN ordinals} = ToSet(s)
  BY <1>1, <1>2, <1>3 DEF ToSet
<1> QED BY <1>1, <1>3, <1>4 DEF s

\* Stored rows are a sequence as long as the ordinals.
LEMMA StoredType ==
  ASSUME NEW k \in Nat, DOMAIN ordinals = 1..k, NEW v
  PROVE  /\ Stored(v) \in Seq({Stored(v)[i] : i \in DOMAIN ordinals}) /\ Len(Stored(v)) = k
         /\ DOMAIN Stored(v) = 1..k
<1>1. Stored(v) = [i \in 1..k |-> Stored(v)[i]]
  BY DEF Stored
<1>2. \A i \in 1..k : Stored(v)[i] \in {Stored(v)[j] : j \in DOMAIN ordinals}
  OBVIOUS
<1> QED BY <1>1, <1>2

\* The row store is written in the order of the ordinals, with what they stand for.
LEMMA WriteRowsIs ==
  ASSUME NEW v \in Views, counted \in CountRow, Shows(v), WriteRows, View = v \/ counted.export = 0
  PROVE  store' = [count |-> counted.export, pages |-> Paged(Stored(v))]
<1> DEFINE s == Limited(v, counted.export)
           numbered == {ordinals[i].a.name : i \in DOMAIN ordinals} \cap NamesIn(View)
           row(n) == [row |-> Attributes(View, n), link |-> \E e \in View.evidence : e.name = n]
           written == [i \in 1..Cardinality(numbered) |-> row(InOrder(numbered)[i])]
<1>1. /\ {ordinals[i].a.name : i \in DOMAIN ordinals} = ToSet(s) /\ DOMAIN ordinals = 1..Len(s)
      /\ \A i \in DOMAIN ordinals : ordinals[i] = Attributes(v, s[i]) /\ ordinals[i].a.name = s[i]
  BY NumberedNames
<1>2. /\ ToSet(s) \in SUBSET NamesIn(v) /\ InOrder(ToSet(s)) = s
      /\ Cardinality(ToSet(s)) = Len(s) /\ Len(s) = Lesser(counted.export, Cardinality(NamesIn(v)))
  BY LimitedIs DEF CountRow
<1>3. store' = [count |-> counted.export, pages |-> Paged(written)]
  BY DEF WriteRows
<1>4. written = Stored(v)
  <2>1. CASE View = v
    <3>1. numbered = ToSet(s)
      BY <1>1, <1>2, <2>1
    <3>2. written = [i \in 1..Len(s) |-> row(s[i])]
      BY <1>2, <3>1
    <3>3. Stored(v) = [i \in 1..Len(s) |-> [row |-> ordinals[i], link |-> \E e \in v.evidence : e.name = ordinals[i].a.name]]
      BY <1>1 DEF Stored
    <3>4. ASSUME NEW i \in 1..Len(s)
          PROVE  row(s[i]) = [row |-> ordinals[i], link |-> \E e \in v.evidence : e.name = ordinals[i].a.name]
      BY <1>1, <2>1
    <3> HIDE DEF row, s, written, numbered
    <3> QED BY <3>2, <3>3, <3>4
  <2>2. CASE counted.export = 0
    <3>1. Cardinality(NamesIn(v)) \in Nat
      BY NamesFinite DEF NamesIn
    <3>2. Len(s) = 0
      BY <1>2, <2>2, <3>1 DEF Lesser
    <3>3. DOMAIN ordinals = {}
      BY <1>1, <3>2
    <3>4. numbered = {} /\ Cardinality(numbered) = 0
      BY <3>3, FS_EmptySet
    <3> HIDE DEF row, numbered
    <3>5. written = <<>>
      <4>1. 1..Cardinality(numbered) = {}
        BY <3>4
      <4> QED BY <4>1
    <3>6. Stored(v) = <<>>
      BY <3>3 DEF Stored
    <3> QED BY <3>5, <3>6
  <2> QED BY <2>1, <2>2
<1> QED BY <1>3, <1>4

\* Inside the transaction the export reads the view the ordinals are of.
LEMMA ViewIs ==
  ASSUME NEW v \in Views, Shows(v), pc \in Inside, counted \in CountRow
  PROVE  counted.export = 0 \/ (counted.export > 0 /\ snap = v /\ View = v)
<1>1. v # None
  BY DataAssumption DEF Views
<1>2. counted.export \in Nat
  BY DEF CountRow
<1> QED BY <1>1, <1>2 DEF Shows, View

\* The numbering opens the transaction: the view is the database then.
LEMMA NumberView == TypeInv /\ Number /\ UNCHANGED derivedVars => \E v \in Views : Shows(v)'
<1> SUFFICES ASSUME TypeInv, Number, UNCHANGED derivedVars PROVE \E v \in Views : Shows(v)'
  OBVIOUS
<1>1. Db \in Views
  BY ViewType DEF TypeInv, TypeOK
<1>2. PICK v \in Views : v = Db
  BY <1>1
<1>3. v = Db'
  BY <1>2 DEF Db, derivedVars, dbVars
<1> DEFINE numbered(d) == [i \in 1..Len(Limited(d, counted.export)) |->
                             Attributes(d, Limited(d, counted.export)[i])]
<1>0. /\ UNCHANGED <<summary, counted, handoff, fileVars, calm>> /\ pc' = "names"
      /\ snap' = IF counted.export > 0 THEN Db ELSE None
      /\ ordinals' = numbered(Db)
  BY Zenon DEF Number
<1> HIDE DEF numbered
<1>4. /\ UNCHANGED <<summary, counted, handoff, fileVars, calm>> /\ pc' = "names"
      /\ snap' = IF counted.export > 0 THEN v ELSE None
      /\ ordinals' = numbered(v)
  <2>1. snap' = IF counted.export > 0 THEN v ELSE None
    BY <1>0, <1>2
  <2>2. ordinals' = numbered(v)
    BY <1>0, <1>2, Zenon
  <2> QED BY <1>0, <2>1, <2>2, Zenon
<1>5. Numbered(v)'
  BY <1>4 DEF Numbered, Attributes, numbered
<1>6. pc' \in Inside /\ pc' \notin RowsWritten /\ pc' \notin ListsWritten /\ pc' \notin Over
  BY <1>4 DEF Inside, RowsWritten, ListsWritten, Over
<1>7. counted'.export > 0 => snap' = IF pc' \in Inside THEN v ELSE None
  BY <1>4, <1>6
<1> DEFINE rest == /\ pc \in RowsWritten => store = [count |-> counted.export, pages |-> Paged(Stored(v))]
                   /\ pc \in ListsWritten => lookups = LookupsOf(v)
                   /\ pc \in Over => files = {e.name : e \in v.evidence}
<1>9. rest'
  BY <1>6, Zenon
<1>10. (calm /\ summary.tip = tip => v = Db)'
  BY <1>3
<1> HIDE DEF rest
<1>11. (Numbered(v) /\ rest /\ (counted.export > 0 => snap = IF pc \in Inside THEN v ELSE None)
           /\ (calm /\ summary.tip = tip => v = Db))' => Shows(v)'
  BY Zenon DEF rest, Shows
<1>8. Shows(v)'
  BY <1>5, <1>7, <1>9, <1>10, <1>11
<1> QED BY <1>8

\* A step that leaves what was read alone leaves what the ordinals show.
LEMMA NumberedKept ==
  ASSUME NEW v, Numbered(v), UNCHANGED <<counted, handoff, ordinals>>
  PROVE  Numbered(v)'
BY DEF Numbered, Attributes

\* A step of the export writes what the view it reads from shows.
LEMMA ExportView == TypeInv /\ ViewInv /\ Export => ViewInv'
<1> SUFFICES ASSUME TypeInv, ViewInv, Export PROVE ViewInv'
  OBVIOUS
<1> USE DEF Inside, Over, RowsWritten, PostsWritten, ListsWritten, fileVars
<1>1. UNCHANGED derivedVars /\ tip' = tip /\ Db' = Db
  BY DEF Export, derivedVars, dbVars, Db
<1>2. CASE Begin \/ CountSummary \/ ReadMeta \/ CountNames \/ FindHandoffs
  BY <1>2 DEF Begin, CountSummary, ReadMeta, CountNames, FindHandoffs, ViewInv
<1>3. CASE Number
  <2>1. \E v \in Views : Shows(v)'
    BY <1>1, <1>3, NumberView
  <2> QED BY <1>3, <2>1 DEF Number, ViewInv
<1>4. CASE WriteRows
  <2>1. PICK v \in Views : Shows(v)
    BY <1>4 DEF ViewInv, WriteRows
  <2>2. counted \in CountRow
    BY <1>4 DEF WriteRows, TypeInv
  <2>3. store' = [count |-> counted.export, pages |-> Paged(Stored(v))]
    BY <1>4, <2>1, <2>2, ViewIs, WriteRowsIs DEF WriteRows
  <2>4. UNCHANGED <<snap, summary, counted, handoff, ordinals, posts, lookups, files, calm>> /\ pc' = "postings"
    BY <1>4 DEF WriteRows
  <2>5. Stored(v)' = Stored(v)
    BY <2>4, SameStored
  <2>6. Numbered(v)'
    BY <2>1, <2>4, NumberedKept DEF Shows
  <2>7. pc = "names"
    BY <1>4 DEF WriteRows
  <2>8. Shows(v)'
    BY <1>1, <2>1, <2>3, <2>4, <2>5, <2>6, <2>7 DEF Shows
  <2> QED BY <2>4, <2>8 DEF ViewInv
<1>5. CASE WritePostings
  <2>1. PICK v \in Views : Shows(v)
    BY <1>5 DEF ViewInv, WritePostings
  <2>2. UNCHANGED <<snap, summary, counted, handoff, ordinals, store, lookups, files, calm>>
        /\ pc = "postings" /\ pc' = "lookups"
    BY <1>5 DEF WritePostings
  <2>3. Stored(v)' = Stored(v) /\ \A key : Posted(key)' = Posted(key)
    BY <2>2, SameStored, SamePosted
  <2>4. Numbered(v)'
    BY <2>1, <2>2, NumberedKept DEF Shows
  <2>5. Shows(v)'
    BY <1>1, <2>1, <2>2, <2>3, <2>4 DEF Shows
  <2>6. posts' = [key \in Collections |-> [count |-> Len(Posted(key)), pages |-> Paged(Posted(key))]]
    BY <1>5, WritePostingsIs DEF TypeInv
  <2>7. posts' = [key \in Collections |-> [count |-> Len(Posted(key)), pages |-> Paged(Posted(key))]']
    BY <2>3, <2>6
  <2> QED BY <2>2, <2>5, <2>7 DEF ViewInv
<1>6. CASE WriteLookups
  <2>1. PICK v \in Views : Shows(v)
    BY <1>6 DEF ViewInv, WriteLookups
  <2>2. UNCHANGED <<snap, summary, counted, handoff, ordinals, store, posts, files, calm>>
        /\ pc = "lookups" /\ pc' = "evidence" /\ lookups' = LookupsOf(View)
    BY <1>6 DEF WriteLookups
  <2>3. Stored(v)' = Stored(v) /\ (\A key : Posted(key)' = Posted(key)) /\ LookupsOf(v)' = LookupsOf(v)
    BY <2>2, SameStored, SamePosted, SameLookups
  <2>4. Numbered(v)'
    BY <2>1, <2>2, NumberedKept DEF Shows
  <2>5. counted \in CountRow /\ counted.export \in Nat
    BY <2>2 DEF TypeInv, CountRow
  <2>6. counted.export > 0 => lookups' = LookupsOf(v)
    BY <2>1, <2>2, <2>5, ViewIs
  <2>7. Shows(v)'
    BY <1>1, <2>1, <2>2, <2>3, <2>4, <2>6 DEF Shows
  <2>8. posts' = [key \in Collections |-> [count |-> Len(Posted(key)), pages |-> Paged(Posted(key))]']
    BY <2>2, <2>3 DEF ViewInv
  <2> QED BY <2>2, <2>7, <2>8 DEF ViewInv
<1>7. CASE WriteEvidence
  <2>1. PICK v \in Views : Shows(v)
    BY <1>7 DEF ViewInv, WriteEvidence
  <2>2. UNCHANGED <<summary, counted, handoff, ordinals, store, posts, lookups, calm>>
        /\ pc = "evidence" /\ pc' = "exported" /\ files' = {e.name : e \in View.evidence} /\ snap' = None
    BY <1>7 DEF WriteEvidence
  <2>3. Stored(v)' = Stored(v) /\ (\A key : Posted(key)' = Posted(key)) /\ LookupsOf(v)' = LookupsOf(v)
    BY <2>2, SameStored, SamePosted, SameLookups
  <2>4. Numbered(v)'
    BY <2>1, <2>2, NumberedKept DEF Shows
  <2>5. counted \in CountRow /\ counted.export \in Nat
    BY <2>2 DEF TypeInv, CountRow
  <2>6. counted.export > 0 => files' = {e.name : e \in v.evidence}
    BY <2>1, <2>2, <2>5, ViewIs
  <2>7. Shows(v)'
    BY <1>1, <2>1, <2>2, <2>3, <2>4, <2>6 DEF Shows
  <2>8. posts' = [key \in Collections |-> [count |-> Len(Posted(key)), pages |-> Paged(Posted(key))]']
    BY <2>2, <2>3 DEF ViewInv
  <2> QED BY <2>2, <2>7, <2>8 DEF ViewInv
<1>8. CASE Validate
  <2>1. PICK v \in Views : Shows(v)
    BY <1>8 DEF ViewInv, Validate
  <2>2. UNCHANGED <<snap, summary, counted, handoff, ordinals, store, posts, lookups, files, calm>>
        /\ pc = "exported" /\ pc' \in {"accepted", "rejected"}
        /\ (pc' = "accepted" => summary.names > 0 /\ CountsMatch)
    BY <1>8 DEF Validate, SummaryMatches
  <2>3. Stored(v)' = Stored(v) /\ (\A key : Posted(key)' = Posted(key)) /\ LookupsOf(v)' = LookupsOf(v)
    BY <2>2, SameStored, SamePosted, SameLookups
  <2>4. Numbered(v)'
    BY <2>1, <2>2, NumberedKept DEF Shows
  <2>5. Shows(v)'
    BY <1>1, <2>1, <2>2, <2>3, <2>4 DEF Shows
  <2>6. posts' = [key \in Collections |-> [count |-> Len(Posted(key)), pages |-> Paged(Posted(key))]']
    BY <2>2, <2>3 DEF ViewInv
  <2>7. CountsMatch' <=> CountsMatch
    BY <2>2 DEF CountsMatch, EffectiveLimit, ReadBack, PageCount
  <2> QED BY <2>2, <2>5, <2>6, <2>7 DEF ViewInv
<1> QED BY <1>2, <1>3, <1>4, <1>5, <1>6, <1>7, <1>8 DEF Export

\* Between two steps of the export.
LEMMA IndexStepTips ==
  ASSUME TipInv, DerivedTypeOK, IndexStep
  PROVE  /\ writes' = writes + 1 /\ tip' = writes + 1
         /\ (blocks' = blocks \/ \E b : b.hash = writes + 1 /\ blocks' = Append(blocks, b))
BY DEF IndexStep, IndexBlock, Bootstrap, Write

\* A step of another process changes no file; it changes the tip if it is the indexer.
LEMMA OthersView == TypeInv /\ TipInv /\ ViewInv /\ Others => ViewInv'
<1> SUFFICES ASSUME TypeInv, TipInv, ViewInv, Others PROVE ViewInv'
  OBVIOUS
<1>1. UNCHANGED <<pc, snap, summary, counted, handoff, ordinals, fileVars>>
  BY DEF Others
<1>2. pc \in Inside \cup Over => ~ (calm' /\ summary'.tip = tip')
  <2> SUFFICES ASSUME pc \in Inside \cup Over, calm', summary.tip = tip' PROVE FALSE
    BY <1>1
  <2>1. IndexStep
    BY DEF Others
  <2>2. tip' = writes + 1 /\ writes \in Nat
    BY <2>1, IndexStepTips DEF TypeInv, TypeOK, DerivedTypeOK
  <2>3. summary.tip \in {None} \cup 0..writes
    BY DEF TipInv, Inside, Over
  <2> QED BY <2>2, <2>3, DataAssumption
<1>3. ASSUME NEW v \in Views, Shows(v), pc \in Inside \cup Over PROVE Shows(v)'
  <2>1. Stored(v)' = Stored(v) /\ LookupsOf(v)' = LookupsOf(v)
    BY <1>1, SameStored, SameLookups
  <2>2. Numbered(v)'
    BY <1>1, <1>3, NumberedKept DEF Shows
  <2> QED BY <1>1, <1>2, <1>3, <2>1, <2>2 DEF Shows, fileVars
<1>4. \A key : Posted(key)' = Posted(key)
  BY <1>1, SamePosted
<1>5. CountsMatch' <=> CountsMatch
  BY <1>1 DEF CountsMatch, EffectiveLimit, ReadBack, PageCount, fileVars
<1> QED BY <1>1, <1>3, <1>4, <1>5 DEF ViewInv, fileVars

\* The invariants hold before any step.
LEMMA InitTips == Init => TipInv /\ ViewInv
BY DEF Init, DerivedInit, TipInv, ViewInv, Inside, Over, PostsWritten

\* A tip is older than the next transaction.
LEMMA StepTips == TypeInv /\ TipInv /\ [Next]_vars => TipInv'
<1> SUFFICES ASSUME TypeInv, TipInv, [Next]_vars PROVE TipInv'
  OBVIOUS
<1>1. writes \in Nat /\ blocks \in Seq([hash : Nat, name : Names, before : Row \cup {None}])
  BY DEF TypeInv, TypeOK, DerivedTypeOK
<1>2. CASE Export
  <2>1. UNCHANGED <<tip, blocks, writes>>
    BY <1>2 DEF Export, derivedVars, dbVars
  <2>2. pc' \notin {"idle", "failed", "totals", "meta"} => summary'.tip \in {None} \cup 0..writes
    <3>1. CASE ReadMeta
      <4>1. summary'.tip = tip
        BY <3>1 DEF ReadMeta, TypeInv, SummaryRow
      <4> QED BY <4>1 DEF TipInv
    <3>2. CASE ~ReadMeta
      <4>1. pc' \notin {"idle", "failed", "totals", "meta"}
              => pc \notin {"idle", "failed", "totals", "meta"} /\ UNCHANGED summary
        BY <1>2, <3>2 DEF Export, Begin, CountSummary, CountNames, FindHandoffs, Number, WriteRows,
             WritePostings, WriteLookups, WriteEvidence, Validate
      <4> QED BY <4>1 DEF TipInv
    <3> QED BY <3>1, <3>2
  <2> QED BY <2>1, <2>2 DEF TipInv
<1>3. CASE Others
  <2>1. UNCHANGED <<pc, summary>>
    BY <1>3 DEF Others
  <2>2. CASE IndexStep
    <3>1. /\ writes' = writes + 1 /\ tip' = writes + 1
          /\ (blocks' = blocks \/ \E b : b.hash = writes + 1 /\ blocks' = Append(blocks, b))
      BY <2>2, IndexStepTips DEF TypeInv, TypeOK
    <3>2. \A i \in DOMAIN blocks' : blocks'[i].hash \in 0..writes'
      BY <1>1, <3>1 DEF TipInv
    <3> QED BY <1>1, <2>1, <3>1, <3>2 DEF TipInv
  <2>3. CASE Rollback
    <3>1. writes' = writes + 1 /\ blocks # <<>> /\ blocks' = SubSeq(blocks, 1, Len(blocks) - 1)
          /\ tip' = IF Len(blocks) = 1 THEN None ELSE blocks[Len(blocks) - 1].hash
      BY <2>3 DEF Rollback, Write
    <3>2. \A i \in DOMAIN blocks : blocks[i].hash \in 0..writes'
      BY <1>1, <3>1 DEF TipInv
    <3>3. \A i \in DOMAIN blocks' : i \in DOMAIN blocks /\ blocks'[i] = blocks[i]
      BY <1>1, <3>1
    <3>4. Len(blocks) # 1 => Len(blocks) - 1 \in DOMAIN blocks
      <4>1. Len(blocks) \in Nat /\ Len(blocks) # 0 /\ DOMAIN blocks = 1..Len(blocks)
        BY <1>1, <3>1
      <4> QED BY <4>1
    <3>5. tip' \in {None} \cup 0..writes'
      BY <3>1, <3>2, <3>4
    <3>6. \A i \in DOMAIN blocks' : blocks'[i].hash \in 0..writes'
      BY <3>2, <3>3
    <3>7. pc' \notin {"idle", "failed", "totals", "meta"} => summary'.tip \in {None} \cup 0..writes'
      BY <1>1, <2>1, <3>1 DEF TipInv
    <3> QED BY <3>5, <3>6, <3>7 DEF TipInv
  <2>4. CASE JobStep \/ ImportStep
    <3>1. UNCHANGED <<tip, blocks>> /\ (writes' = writes \/ writes' = writes + 1)
      BY <2>4 DEF JobStep, ImportStep, DropIndex, ScanResources, InsertIps, UpdateNames, KillJob,
           ScanNames, ImportEvidence, Write, dbVars
    <3> QED BY <1>1, <2>1, <3>1 DEF TipInv
  <2> QED BY <1>3, <2>2, <2>3, <2>4 DEF Others
<1>4. CASE UNCHANGED vars
  BY <1>4 DEF vars, derivedVars, dbVars, exportVars, TipInv
<1> QED BY <1>2, <1>3, <1>4 DEF Next, Done

\* Every step keeps what is written that of one view.
LEMMA StepView == TypeInv /\ TipInv /\ ViewInv /\ [Next]_vars => ViewInv'
<1> SUFFICES ASSUME TypeInv, TipInv, ViewInv, [Next]_vars PROVE ViewInv'
  OBVIOUS
<1>1. CASE Export
  BY <1>1, ExportView
<1>2. CASE Others
  BY <1>2, OthersView
<1>3. CASE UNCHANGED vars
  <2>1. UNCHANGED <<pc, snap, summary, counted, handoff, ordinals, store, posts, lookups, files, calm, tip>> /\ Db' = Db
    BY <1>3 DEF vars, exportVars, fileVars, derivedVars, dbVars, Db
  <2>2. ASSUME NEW v \in Views, Shows(v) PROVE Shows(v)'
    <3>1. Stored(v)' = Stored(v) /\ LookupsOf(v)' = LookupsOf(v)
      BY <2>1, SameStored, SameLookups
    <3>2. Numbered(v)'
      BY <2>1, <2>2, NumberedKept DEF Shows
    <3> QED BY <2>1, <2>2, <3>1, <3>2 DEF Shows
  <2>3. \A key : Posted(key)' = Posted(key)
    BY <2>1, SamePosted
  <2>4. CountsMatch' <=> CountsMatch
    BY <2>1 DEF CountsMatch, EffectiveLimit, ReadBack, PageCount
  <2> QED BY <2>1, <2>2, <2>3, <2>4 DEF ViewInv
<1> QED BY <1>1, <1>2, <1>3 DEF Next, Done

\* The inductive invariant of the export.
LEMMA ExportInvariant == Spec => [](TypeInv /\ TipInv /\ ViewInv)
<1>1. Init => TypeInv /\ TipInv /\ ViewInv
  BY InitTyped, InitTips
<1>2. (TypeInv /\ TipInv /\ ViewInv) /\ [Next]_vars => (TypeInv /\ TipInv /\ ViewInv)'
  BY StepTyped, StepTips, StepView
<1> QED BY <1>1, <1>2, PTL DEF Spec

-----------------------------------------------------------------------------
(* The collections, the lists and the accepted release *)

\* What is in the store once the export is over.
LEMMA StoreIs ==
  ASSUME TypeInv, ViewInv, pc \in Over, NEW v \in Views, Shows(v)
  PROVE  /\ counted \in CountRow /\ counted.export \in Nat
         /\ store = [count |-> counted.export, pages |-> Paged(Stored(v))]
         /\ DOMAIN ordinals = 1..Len(Limited(v, counted.export))
         /\ Len(Limited(v, counted.export)) \in Nat
         /\ \A i \in DOMAIN ordinals :
              /\ ordinals[i] = Attributes(v, Limited(v, counted.export)[i])
              /\ ordinals[i].a.name = Limited(v, counted.export)[i]
         /\ Stored(v) \in Seq({Stored(v)[i] : i \in DOMAIN ordinals})
         /\ Len(Stored(v)) = Len(Limited(v, counted.export))
         /\ DOMAIN Stored(v) = DOMAIN ordinals
         /\ Flat(store.pages) = Stored(v)
<1> USE DEF Over
<1>1. counted \in CountRow /\ counted.export \in Nat
  BY DEF TypeInv, CountRow
<1>2. store = [count |-> counted.export, pages |-> Paged(Stored(v))]
  BY DEF Shows, RowsWritten
<1>3. /\ DOMAIN ordinals = 1..Len(Limited(v, counted.export))
      /\ \A i \in DOMAIN ordinals :
           /\ ordinals[i] = Attributes(v, Limited(v, counted.export)[i])
           /\ ordinals[i].a.name = Limited(v, counted.export)[i]
  BY <1>1, NumberedNames
<1>4. Len(Limited(v, counted.export)) \in Nat
  BY <1>1, LimitedIs
<1>5. /\ Stored(v) \in Seq({Stored(v)[i] : i \in DOMAIN ordinals})
      /\ Len(Stored(v)) = Len(Limited(v, counted.export))
      /\ DOMAIN Stored(v) = DOMAIN ordinals
  BY <1>3, <1>4, StoredType
<1>6. Flat(store.pages) = Stored(v)
  BY <1>2, <1>5, FlatPaged
<1> QED BY <1>1, <1>2, <1>3, <1>4, <1>5, <1>6

\* A collection read back, each ordinal replaced by the row found for it.
LEMMA PostedRows ==
  ASSUME TypeInv, ViewInv, pc \in Over, NEW v \in Views, Shows(v), NEW key \in Collections
  PROVE  /\ ReadBack(posts[key]) = Posted(key)
         /\ {RowAt(Posted(key)[i]) : i \in DOMAIN Posted(key)} =
              {ordinals[i] : i \in {j \in DOMAIN ordinals : Belongs(ordinals[j], key)}}
<1>1. /\ store.pages = Paged(Stored(v)) /\ DOMAIN ordinals = 1..Len(Stored(v))
      /\ Stored(v) \in Seq({Stored(v)[i] : i \in DOMAIN ordinals})
      /\ DOMAIN ordinals \subseteq Names
  BY StoreIs DEF TypeInv
<1>2. posts[key] = [count |-> Len(Posted(key)), pages |-> Paged(Posted(key))]
  BY DEF ViewInv, PostsWritten
<1>3. /\ Chosen(key) \in Seq(Names) /\ Posted(key) \in Seq(Nat)
      /\ DOMAIN Posted(key) = DOMAIN Chosen(key)
      /\ ToSet(Chosen(key)) = {i \in DOMAIN ordinals : Belongs(ordinals[i], key)}
  BY <1>1, PostedType
<1>4. ReadBack(posts[key]) = Posted(key)
  BY <1>2, <1>3, ReadBackPaged
<1>5. \A i \in DOMAIN ordinals : RowAt(i - 1) = ordinals[i]
  <2> SUFFICES ASSUME NEW i \in DOMAIN ordinals PROVE RowAt(i - 1) = ordinals[i]
    OBVIOUS
  <2>1. RowAt(i - 1) = Stored(v)[i].row
    BY <1>1, RowAtPaged
  <2>2. Stored(v)[i].row = ordinals[i]
    BY DEF Stored
  <2> QED BY <2>1, <2>2
<1>6. ASSUME NEW i \in DOMAIN Chosen(key)
      PROVE  Chosen(key)[i] \in DOMAIN ordinals /\ RowAt(Posted(key)[i]) = ordinals[Chosen(key)[i]]
  <2>1. Chosen(key)[i] \in DOMAIN ordinals
    BY <1>3 DEF ToSet
  <2>2. Posted(key)[i] = Chosen(key)[i] - 1
    BY DEF Posted
  <2> QED BY <1>5, <2>1, <2>2
<1>7. {RowAt(Posted(key)[i]) : i \in DOMAIN Posted(key)} = {ordinals[c] : c \in ToSet(Chosen(key))}
  BY <1>3, <1>6 DEF ToSet
<1> QED BY <1>3, <1>4, <1>7

\* However the database changes while the site is written, a collection read back through its
\* ordinals is exactly the stored rows that belong to it, and every link to evidence leads to a file.
THEOREM PostingsAlwaysResolve == Spec => []PostingsResolve
<1>1. TypeInv /\ TipInv /\ ViewInv => PostingsResolve
  <2> SUFFICES ASSUME TypeInv, ViewInv, pc \in Over PROVE PostingsResolve
    BY DEF PostingsResolve, Written, Over
  <2>1. PICK v \in Views : Shows(v)
    BY DEF ViewInv
  <2>2. /\ counted.export \in Nat /\ Flat(store.pages) = Stored(v) /\ DOMAIN Stored(v) = DOMAIN ordinals
        /\ DOMAIN ordinals = 1..Len(Limited(v, counted.export))
    BY <2>1, StoreIs
  <2>3. ToSet(Stored(v)) = {Stored(v)[i] : i \in DOMAIN ordinals}
    BY <2>2 DEF ToSet
  <2>4. \A i \in DOMAIN ordinals :
          /\ Stored(v)[i].row = ordinals[i]
          /\ Stored(v)[i].link <=> \E e \in v.evidence : e.name = ordinals[i].a.name
    BY DEF Stored
  <2>5. ASSUME NEW key \in Collections
        PROVE  ToSet([i \in DOMAIN ReadBack(posts[key]) |-> RowAt(ReadBack(posts[key])[i])]) =
                 {r.row : r \in {s \in ToSet(Flat(store.pages)) : Belongs(s.row, key)}}
    <3>1. /\ ReadBack(posts[key]) = Posted(key)
          /\ {RowAt(Posted(key)[i]) : i \in DOMAIN Posted(key)} =
               {ordinals[i] : i \in {j \in DOMAIN ordinals : Belongs(ordinals[j], key)}}
      BY <2>1, PostedRows
    <3>2. ToSet([i \in DOMAIN Posted(key) |-> RowAt(Posted(key)[i])])
            = {RowAt(Posted(key)[i]) : i \in DOMAIN Posted(key)}
      BY DEF ToSet
    <3>3. {r.row : r \in {s \in {Stored(v)[i] : i \in DOMAIN ordinals} : Belongs(s.row, key)}}
            = {ordinals[i] : i \in {j \in DOMAIN ordinals : Belongs(ordinals[j], key)}}
      BY <2>4
    <3> QED BY <2>2, <2>3, <3>1, <3>2, <3>3
  <2>6. ASSUME NEW row \in ToSet(Flat(store.pages)), row.link PROVE row.row.a.name \in files
    <3>1. PICK i \in DOMAIN ordinals : row = Stored(v)[i]
      BY <2>2, <2>3
    <3>2. \E e \in v.evidence : e.name = row.row.a.name
      BY <2>4, <2>6, <3>1
    <3>3. counted.export > 0
      <4> SUFFICES ASSUME counted.export = 0 PROVE FALSE
        BY <2>2
      <4>1. Cardinality(NamesIn(v)) \in Nat
        BY NamesFinite DEF NamesIn
      <4>2. Len(Limited(v, 0)) = 0
        BY <4>1, LimitedIs DEF Lesser
      <4> QED BY <2>2, <3>1, <4>2
    <3>4. files = {e.name : e \in v.evidence}
      BY <2>1, <3>3 DEF Shows
    <3> QED BY <3>2, <3>4
  <2> QED BY <2>5, <2>6 DEF PostingsResolve
<1> QED BY <1>1, ExportInvariant, PTL

\* Lists are made from the names that were numbered.
LEMMA ExportedIs ==
  ASSUME NEW v \in Views, summary \in SummaryRow
  PROVE  Exported(v) = {n \in ToSet(Limited(v, EffectiveLimit(summary.names))) : ~v.rows[n].expired}
<1> DEFINE L == EffectiveLimit(summary.names)
           M == ToSet(Limited(v, L))
<1>1. L \in Nat
  BY EffectiveIs DEF SummaryRow
<1>2. IsFiniteSet(NamesIn(v)) /\ Cardinality(NamesIn(v)) \in Nat
  BY NamesFinite DEF NamesIn
<1> HIDE DEF L
<1>3. /\ M \in SUBSET NamesIn(v) /\ Cardinality(M) = Len(Limited(v, L))
      /\ Len(Limited(v, L)) = Lesser(L, Cardinality(NamesIn(v)))
  BY <1>1, LimitedIs
<1> HIDE DEF M
<1>4. L >= Cardinality(NamesIn(v)) => M = NamesIn(v)
  <2> SUFFICES ASSUME L >= Cardinality(NamesIn(v)) PROVE M = NamesIn(v)
    OBVIOUS
  <2>1. Cardinality(M) = Cardinality(NamesIn(v))
    BY <1>1, <1>2, <1>3 DEF Lesser
  <2> QED BY <1>2, <1>3, <2>1, FS_Subset
<1>5. Exported(v) = ActiveIn(v) \cap M
  BY <1>4 DEF Exported, L, M
<1>6. ActiveIn(v) \cap M = {n \in M : ~v.rows[n].expired}
  BY <1>3 DEF ActiveIn
<1> QED BY <1>5, <1>6 DEF M, L

\* A nameserver's list.
LEMMA ServerList ==
  ASSUME NEW v \in Views, summary \in SummaryRow, EffectiveLimit(summary.names) # 0, NEW root \in Roots
  PROVE  /\ root \in DOMAIN LookupsOf(v) <=> WithNameserver(v, root) # {}
         /\ root \in DOMAIN LookupsOf(v) =>
              LookupsOf(v)[root] = [count |-> Cardinality(WithNameserver(v, root)),
                                    pages |-> Paged(InOrder(WithNameserver(v, root)))]
<1>1. root \notin Ips
  BY DataAssumption, DerivedAssumption DEF Roots
<1>2. DOMAIN AddressLists(v) \subseteq Ips
  BY DEF AddressLists, Lists
<1>3. /\ root \in DOMAIN NameserverLists(v) <=> WithNameserver(v, root) # {}
      /\ root \in DOMAIN NameserverLists(v) =>
           NameserverLists(v)[root] = [count |-> Cardinality(WithNameserver(v, root)),
                                       pages |-> Paged(InOrder(WithNameserver(v, root)))]
  BY DEF NameserverLists, Lists
<1> QED BY <1>1, <1>2, <1>3 DEF LookupsOf

\* A list of names read back is these names, as many as it says.
LEMMA ListReadBack ==
  ASSUME NEW S \in SUBSET Names, NEW list, list = [count |-> Cardinality(S), pages |-> Paged(InOrder(S))]
  PROVE  ReadBack(list) = InOrder(S) /\ ToSet(ReadBack(list)) = S /\ Len(ReadBack(list)) = list.count
<1>1. InOrder(S) \in Seq(Names) /\ Len(InOrder(S)) = Cardinality(S) /\ ToSet(InOrder(S)) = S
  BY InOrderNames
<1>2. ReadBack(list) = InOrder(S)
  BY <1>1, ReadBackPaged
<1> QED BY <1>1, <1>2

\* Of a release that passes validate-release the list of a nameserver is the active stored rows
\* delegated to it, and no list is longer or shorter than it says.
THEOREM LookupsAlwaysMatch == Spec => []LookupsMatchRows
<1>1. TypeInv /\ TipInv /\ ViewInv => LookupsMatchRows
  <2> SUFFICES ASSUME TypeInv, ViewInv, pc = "accepted" PROVE LookupsMatchRows
    BY DEF LookupsMatchRows
  <2> DEFINE L == EffectiveLimit(summary.names)
  <2>1. PICK v \in Views : Shows(v)
    BY DEF ViewInv, Over
  <2>2. pc \in Over /\ summary \in SummaryRow
    BY DEF Over, TypeInv
  <2>3. /\ counted.export \in Nat /\ Flat(store.pages) = Stored(v) /\ DOMAIN Stored(v) = DOMAIN ordinals
        /\ DOMAIN ordinals = 1..Len(Limited(v, counted.export))
        /\ store.count = counted.export
        /\ \A i \in DOMAIN ordinals :
             /\ ordinals[i] = Attributes(v, Limited(v, counted.export)[i])
             /\ ordinals[i].a.name = Limited(v, counted.export)[i]
    <3>1. store = [count |-> counted.export, pages |-> Paged(Stored(v))]
      BY <2>1, <2>2, StoreIs
    <3>2. store.count = counted.export
      BY <3>1
    <3> QED BY <2>1, <2>2, <3>2, StoreIs
  <2>4. counted.export = L /\ L # 0
    <3>1. L # 0 /\ store.count = L
      BY <2>2, EffectiveIs DEF ViewInv, CountsMatch, SummaryRow
    <3> QED BY <2>3, <3>1
  <2>5. lookups = LookupsOf(v)
    BY <2>1, <2>3, <2>4 DEF Shows, ListsWritten, Over
  <2>6. ASSUME NEW root \in Roots
        PROVE  {r.row.a.name : r \in {s \in ToSet(Flat(store.pages)) : ~s.row.a.expired /\ root \in s.row.under}}
                 = WithNameserver(v, root)
    <3> DEFINE s == Limited(v, L)
    <3>1. ToSet(Flat(store.pages)) = {Stored(v)[i] : i \in DOMAIN ordinals}
      BY <2>3 DEF ToSet
    <3>2. \A i \in DOMAIN ordinals : Stored(v)[i].row = Attributes(v, s[i])
      BY <2>3, <2>4 DEF Stored
    <3>3. \A n : /\ Attributes(v, n).a.name = n /\ Attributes(v, n).a.expired = v.rows[n].expired
                 /\ Attributes(v, n).under = v.rows[n].res.ns
      BY AttributesAre
    <3>4. ToSet(s) = {s[i] : i \in DOMAIN ordinals}
      <4>1. DOMAIN s = 1..Len(s)
        BY <2>3, <2>4, LimitedIs
      <4> QED BY <2>3, <2>4, <4>1 DEF ToSet
    <3>5. WithNameserver(v, root) = {n \in ToSet(s) : ~v.rows[n].expired /\ root \in v.rows[n].res.ns}
      BY <2>2, ExportedIs DEF WithNameserver
    <3> HIDE DEF s
    <3>6. {r.row.a.name : r \in {x \in {Stored(v)[i] : i \in DOMAIN ordinals} : ~x.row.a.expired /\ root \in x.row.under}}
            = {n \in {s[i] : i \in DOMAIN ordinals} : ~v.rows[n].expired /\ root \in v.rows[n].res.ns}
      BY <3>2, <3>3
    <3> QED BY <3>1, <3>4, <3>5, <3>6
  <2>7. ASSUME NEW root \in Roots
        PROVE  (IF root \in DOMAIN lookups THEN ToSet(ReadBack(lookups[root])) ELSE {}) = WithNameserver(v, root)
    <3>1. WithNameserver(v, root) \in SUBSET Names
      BY DEF WithNameserver, Exported, ActiveIn, NamesIn
    <3>2. root \in DOMAIN lookups <=> WithNameserver(v, root) # {}
      BY <2>2, <2>4, <2>5, ServerList
    <3>3. root \in DOMAIN lookups =>
            lookups[root] = [count |-> Cardinality(WithNameserver(v, root)),
                             pages |-> Paged(InOrder(WithNameserver(v, root)))]
      BY <2>2, <2>4, <2>5, ServerList
    <3> QED BY <3>1, <3>2, <3>3, ListReadBack
  <2>8. ASSUME NEW key \in DOMAIN lookups
        PROVE  Len(ReadBack(lookups[key])) = lookups[key].count
    <3>1. PICK S \in SUBSET Names : lookups[key] = [count |-> Cardinality(S), pages |-> Paged(InOrder(S))]
      BY <2>2, <2>5, <2>8, LookupsType
    <3> QED BY <3>1, ListReadBack
  <2> QED BY <2>6, <2>7, <2>8 DEF LookupsMatchRows
<1> QED BY <1>1, ExportInvariant, PTL

\* The step that accepts a release compares the manifest with the database: the view of the files
\* is the database of that moment.
LEMMA AcceptedStep ==
  TypeInv /\ ViewInv /\ [Next]_vars
    => ((pc = "exported" /\ pc' = "accepted" /\ calm) =>
          /\ [i \in DOMAIN ReadBack(store) |-> ReadBack(store)[i].row] =
               [i \in 1..EffectiveLimit(summary.names) |->
                  Attributes(Db, Limited(Db, EffectiveLimit(summary.names))[i])]
          /\ lookups = LookupsOf(Db))
<1> SUFFICES ASSUME TypeInv, ViewInv, [Next]_vars, pc = "exported", pc' = "accepted", calm
             PROVE  /\ [i \in DOMAIN ReadBack(store) |-> ReadBack(store)[i].row] =
                         [i \in 1..EffectiveLimit(summary.names) |->
                            Attributes(Db, Limited(Db, EffectiveLimit(summary.names))[i])]
                    /\ lookups = LookupsOf(Db)
  OBVIOUS
<1> DEFINE L == EffectiveLimit(summary.names)
<1>1. Validate
  <2>1. pc' # pc
    OBVIOUS
  <2>2. ~Others /\ ~Done /\ ~UNCHANGED vars
    BY <2>1 DEF Others, Done, vars, exportVars
  <2>3. Export
    BY <2>2 DEF Next
  <2> QED BY <2>3 DEF Export, Begin, CountSummary, ReadMeta, CountNames, FindHandoffs, Number,
             WriteRows, WritePostings, WriteLookups, WriteEvidence
<1>2. SummaryMatches /\ ManifestMatches /\ CountsMatch
  BY <1>1 DEF Validate
<1>3. pc \in Over /\ summary \in SummaryRow
  BY DEF Over, TypeInv
<1>4. PICK v \in Views : Shows(v)
  BY <1>3 DEF ViewInv
<1>5. /\ counted.export \in Nat
      /\ store = [count |-> counted.export, pages |-> Paged(Stored(v))]
      /\ DOMAIN ordinals = 1..Len(Limited(v, counted.export))
      /\ \A i \in DOMAIN ordinals : ordinals[i] = Attributes(v, Limited(v, counted.export)[i])
      /\ Stored(v) \in Seq({Stored(v)[i] : i \in DOMAIN ordinals})
      /\ Len(Stored(v)) = Len(Limited(v, counted.export))
      /\ DOMAIN Stored(v) = DOMAIN ordinals
  BY <1>3, <1>4, StoreIs
<1>6. counted.export = L /\ L # 0 /\ L \in Nat /\ L <= Cardinality(NamesIn(Db))
  <2>1. L \in Nat /\ L <= summary.names /\ (L = 0 <=> summary.names = 0)
    BY <1>3, EffectiveIs DEF SummaryRow
  <2>2. summary.names = Cardinality(NamesIn(Db)) /\ summary.names > 0 /\ store.count = L
    BY <1>2 DEF SummaryMatches, CountsMatch
  <2>3. summary.names # 0
    BY <1>3, <2>2 DEF SummaryRow
  <2> QED BY <1>5, <2>1, <2>2, <2>3
<1>7. v = Db /\ lookups = LookupsOf(v)
  <2>1. summary.tip = tip /\ counted.export > 0
    BY <1>2, <1>5, <1>6 DEF ManifestMatches
  <2> QED BY <1>3, <1>4, <2>1 DEF Shows, ListsWritten
<1>8. Len(Limited(v, L)) = L
  <2>1. Cardinality(NamesIn(v)) \in Nat
    BY NamesFinite DEF NamesIn
  <2>2. Len(Limited(v, L)) = Lesser(L, Cardinality(NamesIn(v)))
    BY <1>6, LimitedIs
  <2> QED BY <1>6, <1>7, <2>1, <2>2 DEF Lesser
<1>9. ReadBack(store) = Stored(v)
  BY <1>5, <1>6, <1>8, ReadBackPaged
<1>10. \A i \in 1..L : Stored(v)[i].row = Attributes(v, Limited(v, L)[i])
  BY <1>5, <1>6, <1>8 DEF Stored
<1>11. DOMAIN ReadBack(store) = 1..L
  BY <1>5, <1>6, <1>8, <1>9
<1>12. [i \in DOMAIN ReadBack(store) |-> ReadBack(store)[i].row] = [i \in 1..L |-> Attributes(v, Limited(v, L)[i])]
  BY <1>9, <1>10, <1>11
<1> QED BY <1>7, <1>12

\* A release that passes the check shows the rows and lists of the database as it is then, whatever
\* the indexer did during the export.
THEOREM AcceptedShowsNow == Spec => AcceptedIsCurrent
<1>1. (TypeInv /\ TipInv /\ ViewInv) /\ [Next]_vars
        => [(pc = "exported" /\ pc' = "accepted" /\ calm) =>
             /\ [i \in DOMAIN ReadBack(store) |-> ReadBack(store)[i].row] =
                  [i \in 1..EffectiveLimit(summary.names) |->
                     Attributes(Db, Limited(Db, EffectiveLimit(summary.names))[i])]
             /\ lookups = LookupsOf(Db)]_vars
  BY AcceptedStep
<1> QED BY <1>1, ExportInvariant, PTL DEF Spec, AcceptedIsCurrent
=============================================================================
