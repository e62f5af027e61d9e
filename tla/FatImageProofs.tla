--------------------------- MODULE FatImageProofs ---------------------------
(***************************************************************************)
(* Proofs about the FAT image builder, for any tree of files, any size of  *)
(* the image and of its clusters, and files that change at any time while  *)
(* it is made.  FatInv is the inductive invariant of the layout, DataInv   *)
(* that of the bytes; the lemmas before them say what the FAT's size, the  *)
(* order of the nodes, their short names, a directory's bytes and a chain  *)
(* come to, each by induction on the recursion that computes it.           *)
(***************************************************************************)
EXTENDS FatImage, TLAPS, WellFoundedInduction, FiniteSetTheorems,
        SequenceTheorems

-----------------------------------------------------------------------------
(* Sizes and the size of the FAT *)

\* The sizes are positive numbers.
LEMMA Sizes ==
    /\ SECTOR \in Nat \ {0} /\ SEC_PER_CLUS \in Nat \ {0}
    /\ RSVD_SEC_CNT \in Nat \ {0} /\ NUM_FATS \in Nat \ {0}
    /\ FatEntryBytes \in Nat \ {0} /\ DirEntryBytes \in Nat \ {0}
    /\ BYTES_PER_CLUSTER \in Nat \ {0}
<1>1. /\ SECTOR \in Nat \ {0} /\ SEC_PER_CLUS \in Nat \ {0}
      /\ RSVD_SEC_CNT \in Nat \ {0} /\ NUM_FATS \in Nat \ {0}
      /\ FatEntryBytes \in Nat \ {0} /\ DirEntryBytes \in Nat \ {0}
  BY FatAssumption
<1> QED
  BY <1>1 DEF BYTES_PER_CLUSTER

\* Multiplication keeps the order.
LEMMA TimesMonotone ==
    ASSUME NEW x \in Int, NEW y \in Int, x <= y, NEW b \in Nat
    PROVE  x * b \in Int /\ y * b \in Int /\ x * b <= y * b
OBVIOUS

\* Division rounds down.
LEMMA DivFloor ==
    ASSUME NEW a \in Int, NEW b \in Nat \ {0}
    PROVE  /\ a \div b \in Int
           /\ b * (a \div b) <= a
           /\ a < b * (a \div b) + b
OBVIOUS

\* It keeps the order of what is divided.
LEMMA DivMonotone ==
    ASSUME NEW x \in Int, NEW y \in Int, x <= y, NEW b \in Nat \ {0}
    PROVE  x \div b <= y \div b
<1> DEFINE p == x \div b
           q == y \div b
<1>1. /\ p \in Int /\ q \in Int
      /\ b * p <= x /\ y < b * q + b
  BY DivFloor
<1> HIDE DEF p, q
<1>2. b * p < b * q + b
  BY <1>1
<1>3. p <= q
  BY <1>1, <1>2
<1> QED
  BY <1>3 DEF p, q

\* Quotient rounds up.
LEMMA QuotientCeil ==
    ASSUME NEW a \in Int, NEW b \in Nat \ {0}
    PROVE  /\ Quotient(a, b) \in Int
           /\ a <= b * Quotient(a, b)
           /\ b * Quotient(a, b) < a + b
<1>1. a + b - 1 \in Int /\ a + b - 1 = a + (b - 1)
  OBVIOUS
<1> QED
  BY <1>1, DivFloor DEF Quotient

\* The sectors a FAT needs for the clusters left beside FATs of s sectors.
SectorsNeeded(tot, s) == Quotient((ClustersWith(tot, s) + 2) * FatEntryBytes, SECTOR)

\* Counts of sectors and of clusters are numbers.
LEMMA SectorsNeededType ==
    ASSUME NEW tot \in Nat, NEW s \in Int
    PROVE  SectorsNeeded(tot, s) \in Int /\ ClustersWith(tot, s) \in Int
<1>1. ClustersWith(tot, s) \in Int
  <2>1. tot - RSVD_SEC_CNT - NUM_FATS * s \in Int
    BY Sizes
  <2> QED
    BY <2>1, Sizes, DivFloor DEF ClustersWith
<1>2. (ClustersWith(tot, s) + 2) * FatEntryBytes \in Int
  BY <1>1, Sizes
<1> QED
  BY <1>1, <1>2, Sizes, QuotientCeil DEF SectorsNeeded

\* Larger FATs leave fewer clusters, which need no larger FATs.
LEMMA LargerFatNeedsLess ==
    ASSUME NEW tot \in Nat, NEW s \in Int, NEW t \in Int, s <= t
    PROVE  SectorsNeeded(tot, t) <= SectorsNeeded(tot, s)
<1>1. tot - RSVD_SEC_CNT - NUM_FATS * t <= tot - RSVD_SEC_CNT - NUM_FATS * s
      /\ tot - RSVD_SEC_CNT - NUM_FATS * t \in Int
      /\ tot - RSVD_SEC_CNT - NUM_FATS * s \in Int
  <2>1. NUM_FATS * s <= NUM_FATS * t /\ NUM_FATS * s \in Int /\ NUM_FATS * t \in Int
    BY Sizes
  <2>2. tot - RSVD_SEC_CNT \in Int
    BY Sizes
  <2> QED
    BY <2>1, <2>2
<1>2. ClustersWith(tot, t) <= ClustersWith(tot, s)
  BY <1>1, Sizes, DivMonotone DEF ClustersWith
<1> DEFINE a == (ClustersWith(tot, t) + 2) * FatEntryBytes
           b == (ClustersWith(tot, s) + 2) * FatEntryBytes
<1>3. a \in Int /\ b \in Int /\ a <= b
  <2> DEFINE x == ClustersWith(tot, t)
             y == ClustersWith(tot, s)
  <2>1. x \in Int /\ y \in Int /\ x <= y
    BY <1>2, SectorsNeededType
  <2> HIDE DEF x, y
  <2>2. x + 2 \in Int /\ y + 2 \in Int /\ x + 2 <= y + 2 /\ FatEntryBytes \in Nat
    BY <2>1, Sizes
  <2> QED
    BY <2>2, TimesMonotone DEF x, y
<1> HIDE DEF a, b
<1>4. a + SECTOR - 1 <= b + SECTOR - 1 /\ a + SECTOR - 1 \in Int /\ b + SECTOR - 1 \in Int
  BY <1>3, Sizes
<1>5. Quotient(a, SECTOR) <= Quotient(b, SECTOR)
  BY <1>4, Sizes, DivMonotone DEF Quotient
<1> QED
  BY <1>5 DEF SectorsNeeded, a, b

\* fat_sz_for ends, with a FAT that has room for all clusters.
LEMMA FatFits ==
    ASSUME NEW tot \in Nat
    PROVE  fat_sz_for(tot) \in Nat /\ SectorsNeeded(tot, fat_sz_for(tot)) <= fat_sz_for(tot)
<1> DEFINE need(s) == SectorsNeeded(tot, s)
           F(f) == [s \in Nat |-> IF need(s) <= s THEN s ELSE f[need(s)]]
           grow == CHOOSE f : f = F(f)
           g == [s \in Nat |-> IF need(s) <= s THEN s ELSE need(s)]
<1>1. fat_sz_for(tot) = grow[1]
  BY DEF fat_sz_for, SectorsNeeded
<1>2. ASSUME NEW s \in Nat, ~ need(s) <= s
      PROVE  need(s) \in Nat /\ need(need(s)) <= need(s)
  <2>1. need(s) \in Int /\ s < need(s)
    BY <1>2, SectorsNeededType
  <2> QED
    BY <2>1, LargerFatNeedsLess
<1> HIDE DEF need
<1>3. g = F(g)
  BY <1>2
<1> HIDE DEF F, g
<1>4. grow = F(grow)
  BY <1>3
<1> HIDE DEF grow
<1>5. \A s \in Nat : grow[s] = IF need(s) <= s THEN s ELSE grow[need(s)]
  BY <1>4 DEF F
<1>6. grow[1] \in Nat /\ need(grow[1]) <= grow[1]
  <2>1. CASE need(1) <= 1
    BY <1>5, <2>1
  <2>2. CASE ~ need(1) <= 1
    BY <1>2, <1>5, <2>2
  <2> QED
    BY <2>1, <2>2
<1> QED
  BY <1>1, <1>6 DEF need

\* Clusters the FAT has no room for are more than the data region has.
LEMMA FatFullMeansMore ==
    ASSUME NEW tot \in Nat, NEW n \in Int,
           n * FatEntryBytes > fat_sz_for(tot) * SECTOR
    PROVE  n - ROOT_CLUS > ClustersWith(tot, fat_sz_for(tot))
<1> DEFINE f == fat_sz_for(tot)
           c == ClustersWith(tot, f)
           q == Quotient((c + 2) * FatEntryBytes, SECTOR)
<1>1. f \in Nat /\ q <= f /\ c \in Int
  BY FatFits, SectorsNeededType DEF SectorsNeeded
<1>2. (c + 2) * FatEntryBytes \in Int
  BY <1>1, Sizes
<1>3. q \in Int /\ (c + 2) * FatEntryBytes <= SECTOR * q
  BY <1>2, Sizes, QuotientCeil
<1>4. n * FatEntryBytes > f * SECTOR
  OBVIOUS
<1> HIDE DEF f, c, q
<1>5. SECTOR * q <= f * SECTOR /\ SECTOR * q \in Int /\ f * SECTOR \in Int
  <2>1. q * SECTOR <= f * SECTOR /\ q * SECTOR \in Int /\ f * SECTOR \in Int
    BY <1>1, <1>3, Sizes, TimesMonotone
  <2>2. q * SECTOR = SECTOR * q
    BY <1>3, Sizes
  <2> QED
    BY <2>1, <2>2
<1>6. (c + 2) * FatEntryBytes < n * FatEntryBytes
  <2>1. n * FatEntryBytes \in Int
    BY Sizes
  <2> HIDE DEF f
  <2> QED
    BY <1>2, <1>3, <1>4, <1>5, <2>1
<1>7. c + 2 < n
  <2> SUFFICES ASSUME ~ (c + 2 < n) PROVE FALSE
    OBVIOUS
  <2>1. n <= c + 2 /\ c + 2 \in Int
    BY <1>1
  <2>2. n * FatEntryBytes <= (c + 2) * FatEntryBytes
    BY <2>1, Sizes, TimesMonotone
  <2> QED
    BY <1>2, <1>6, <2>2, Sizes
<1>8. c < n - 2
  BY <1>1, <1>7
<1> QED
  BY <1>8 DEF f, c, ROOT_CLUS

-----------------------------------------------------------------------------
(* Induction, and functions defined by recursion on an interval *)

\* A set that has 0 and with each number the next has all numbers.
LEMMA Induction ==
    ASSUME NEW S, 0 \in S, \A n \in Nat : n \in S => n + 1 \in S
    PROVE  \A n \in Nat : n \in S
<1> SUFFICES ASSUME NEW m \in Nat, m \notin S PROVE FALSE
  OBVIOUS
<1> DEFINE T == {n \in Nat : n \notin S}
<1>1. PICK x \in T : \A y \in T : ~ (<<y, x>> \in OpToRel(<, Nat))
  <2>1. T \subseteq Nat /\ T # {}
    OBVIOUS
  <2> QED
    BY <2>1, NatLessThanWellFounded, WFMin
<1>2. x \in Nat \ {0}
  BY <1>1
<1>3. x - 1 \in Nat /\ x - 1 < x /\ (x - 1) + 1 = x
  BY <1>2
<1>4. x - 1 \notin T
  BY <1>1, <1>2, <1>3 DEF OpToRel
<1> QED
  BY <1>1, <1>3, <1>4

\* u is b and what the n steps g make of it, one after the other.
Steps(S, n, g) == g \in [1..n -> [S -> S]]

Computes(u, S, b, n, g) ==
    /\ u \in [0..n -> S]
    /\ u[0] = b
    /\ \A i \in 1..n : u[i] = g[i][u[i - 1]]

\* There is always such a u.
LEMMA Recursion ==
    ASSUME NEW S, NEW b \in S, NEW n \in Nat, NEW g, Steps(S, n, g)
    PROVE  \E u : Computes(u, S, b, n, g)
<1> USE DEF Steps, Computes
<1> DEFINE Fits(u, k) == /\ u \in [0..k -> S]
                         /\ u[0] = b /\ \A i \in 1..k : u[i] = g[i][u[i - 1]]
           I == {k \in Nat : k <= n => \E u : Fits(u, k)}
<1>1. 0 \in I
  <2>1. Fits([i \in 0..0 |-> b], 0)
    OBVIOUS
  <2> QED
    BY <2>1
<1>2. ASSUME NEW k \in Nat, k \in I, k + 1 <= n
      PROVE  \E u : Fits(u, k + 1)
  <2>1. PICK u : Fits(u, k)
    BY <1>2
  <2> DEFINE h == [i \in 0..(k + 1) |-> IF i <= k THEN u[i] ELSE g[k + 1][u[k]]]
  <2>2. k + 1 \in 1..n /\ k \in 0..k
    BY <1>2
  <2>3. g[k + 1][u[k]] \in S
    BY <2>1, <2>2
  <2>4. h \in [0..(k + 1) -> S] /\ h[0] = b
    BY <2>1, <2>3
  <2>5. ASSUME NEW i \in 1..(k + 1) PROVE h[i] = g[i][h[i - 1]]
    <3>1. CASE i <= k
      <4>1. i \in 1..k /\ i - 1 \in 0..k /\ i - 1 <= k
        BY <3>1
      <4> QED
        BY <2>1, <3>1, <4>1
    <3>2. CASE i = k + 1
      BY <2>1, <3>2
    <3> QED
      BY <3>1, <3>2
  <2> HIDE DEF h
  <2> QED
    BY <2>4, <2>5
<1>3. ASSUME NEW k \in Nat, k \in I PROVE k + 1 \in I
  <2>1. CASE k + 1 <= n
    <3>1. \E u : Fits(u, k + 1)
      BY <1>2, <1>3, <2>1
    <3> HIDE DEF Fits
    <3> QED
      BY <3>1
  <2>2. CASE ~ (k + 1 <= n)
    BY <2>2
  <2> QED
    BY <2>1, <2>2
<1> HIDE DEF I
<1>4. n \in I
  BY <1>1, <1>3, Induction
<1> USE DEF I
<1> QED
  BY <1>4

-----------------------------------------------------------------------------
(* Sequences *)

Increasing(s) == \A i, j \in 1..Len(s) : i < j => s[i] < s[j]

\* An element appended is added to the elements.
LEMMA ToSetAppend ==
    ASSUME NEW S, NEW s \in Seq(S), NEW x \in S
    PROVE  ToSet(Append(s, x)) = ToSet(s) \union {x}
<1> DEFINE a == Append(s, x)
<1>1. /\ Len(s) \in Nat /\ Len(a) = Len(s) + 1
      /\ DOMAIN s = 1..Len(s) /\ DOMAIN a = 1..Len(a)
      /\ \A i \in 1..Len(a) : a[i] = IF i <= Len(s) THEN s[i] ELSE x
  BY AppendProperties, LenProperties
<1> HIDE DEF a
<1>2. {a[i] : i \in 1..Len(a)} = {s[i] : i \in 1..Len(s)} \union {x}
  <2>1. Len(a) \in 1..Len(a) /\ a[Len(a)] = x
    BY <1>1
  <2>2. \A i \in 1..Len(s) : i \in 1..Len(a) /\ a[i] = s[i]
    BY <1>1
  <2>3. \A i \in 1..Len(a) : i \in 1..Len(s) \/ a[i] = x
    BY <1>1
  <2> QED
    BY <2>1, <2>2, <2>3
<1> QED
  BY <1>1, <1>2 DEF ToSet, a

\* The nodes of a set, in order.
LEMMA OrderedIs ==
    ASSUME Len(tree) \in Nat, Nodes = 1..Len(tree), NEW S \in SUBSET Nodes
    PROVE  /\ Ordered(S) \in Seq(S)
           /\ Increasing(Ordered(S))
           /\ ToSet(Ordered(S)) = S
<1> DEFINE n == Len(tree)
           F(f) == [i \in 0..n |-> IF i = 0 THEN <<>>
                                   ELSE IF i \in S THEN Append(f[i - 1], i)
                                   ELSE f[i - 1]]
           upto == CHOOSE f : f = F(f)
           g == [i \in 1..n |-> [s \in Seq(S) |-> IF i \in S THEN Append(s, i) ELSE s]]
<1> DEFINE T == Seq(S)
<1>1. Ordered(S) = upto[n]
  BY DEF Ordered
<1>2. PICK u \in [0..n -> Seq(S)] : u[0] = <<>> /\ \A i \in 1..n : u[i] = g[i][u[i - 1]]
  <2> DEFINE e == <<>>
  <2>1. g \in [1..n -> [T -> T]] /\ e \in T /\ n \in Nat
    OBVIOUS
  <2>2. Steps(T, n, g)
    BY <2>1 DEF Steps
  <2> HIDE DEF n, g, T, e
  <2>3. \E u : Computes(u, T, e, n, g)
    BY <2>1, <2>2, Recursion
  <2> QED
    BY <2>3 DEF Computes, T, e
<1>3. u = F(u)
  <2>1. u = [i \in 0..n |-> u[i]]
    BY <1>2
  <2>2. ASSUME NEW i \in 0..n PROVE u[i] = F(u)[i]
    <3>1. CASE i = 0
      BY <1>2, <3>1
    <3>2. CASE i # 0
      <4>1. i \in 1..n /\ i - 1 \in 0..n
        BY <3>2
      <4> QED
        BY <1>2, <3>2, <4>1
    <3> QED
      BY <3>1, <3>2
  <2> QED
    BY <2>1, <2>2
<1> HIDE DEF F, g, T
<1>4. upto = F(upto)
  BY <1>3
<1> HIDE DEF upto
<1> USE DEF F
<1> DEFINE P(s, i) == /\ s \in Seq(S) /\ Increasing(s)
                      /\ ToSet(s) = {x \in S : x <= i}
           I == {i \in Nat : i <= n => P(upto[i], i)}
<1>5. \A x \in S : x \in Nat /\ ~ x <= 0 /\ x <= n
  OBVIOUS
<1>6. 0 \in I
  <2>1. upto[0] = <<>>
    BY <1>4
  <2>2. {x \in S : x <= 0} = {}
    BY <1>5
  <2>3. P(<<>>, 0)
    BY <2>2 DEF Increasing, ToSet
  <2> HIDE DEF P
  <2> QED
    BY <2>1, <2>3
<1>7. ASSUME NEW i \in Nat, i \in I PROVE i + 1 \in I
  <2> SUFFICES ASSUME i + 1 <= n PROVE P(upto[i + 1], i + 1)
    OBVIOUS
  <2>1. i + 1 \in 0..n /\ i + 1 # 0 /\ (i + 1) - 1 = i /\ i <= n
    OBVIOUS
  <2> DEFINE s == upto[i]
  <2>2. P(s, i)
    BY <1>7, <2>1
  <2>3. upto[i + 1] = IF i + 1 \in S THEN Append(s, i + 1) ELSE s
    BY <1>4, <2>1
  <2> HIDE DEF s
  <2>4. CASE i + 1 \in S
    <3>1. {x \in S : x <= i + 1} = {x \in S : x <= i} \union {i + 1}
      <4>1. \A x \in S : x <= i + 1 <=> (x <= i \/ x = i + 1)
        BY <1>5
      <4> QED
        BY <2>4, <4>1
    <3>2. \A k \in 1..Len(s) : s[k] < i + 1
      <4>1. \A k \in 1..Len(s) : s[k] \in ToSet(s)
        BY <2>2 DEF ToSet
      <4>2. \A x \in ToSet(s) : x \in Nat /\ x <= i
        BY <1>5, <2>2
      <4> QED
        BY <4>1, <4>2
    <3>3. Append(s, i + 1) \in Seq(S) /\ Len(Append(s, i + 1)) = Len(s) + 1
          /\ \A k \in 1..(Len(s) + 1) : Append(s, i + 1)[k] = IF k <= Len(s) THEN s[k] ELSE i + 1
      BY <2>2, <2>4, AppendProperties
    <3>4. Increasing(Append(s, i + 1))
      BY <2>2, <3>2, <3>3 DEF Increasing
    <3>5. ToSet(Append(s, i + 1)) = ToSet(s) \union {i + 1}
      BY <2>2, <2>4, ToSetAppend
    <3> QED
      BY <2>2, <2>3, <2>4, <3>1, <3>3, <3>4, <3>5
  <2>5. CASE i + 1 \notin S
    <3>1. {x \in S : x <= i + 1} = {x \in S : x <= i}
      <4>1. \A x \in S : x <= i + 1 <=> x <= i
        BY <1>5, <2>5
      <4> QED
        BY <4>1
    <3> QED
      BY <2>2, <2>3, <2>5, <3>1
  <2> QED
    BY <2>4, <2>5
<1> HIDE DEF I
<1>8. n \in I
  BY <1>6, <1>7, Induction
<1>9. P(upto[n], n)
  BY <1>8 DEF I
<1>10. {x \in S : x <= n} = S
  BY <1>5
<1> QED
  BY <1>1, <1>9, <1>10

\* FlattenSeq puts one part after the other.
LEMMA FlattenParts ==
    ASSUME NEW S, NEW seqs \in Seq(Seq(S))
    PROVE  \E f \in [0..Len(seqs) -> Seq(S)] :
              /\ f[0] = <<>>
              /\ \A i \in 1..Len(seqs) : f[i] = f[i - 1] \o seqs[i]
              /\ FlattenSeq(seqs) = f[Len(seqs)]
<1> DEFINE n == Len(seqs)
           F(f) == [i \in 1..n |-> IF i = 1 THEN seqs[i] ELSE f[i - 1] \o seqs[i]]
           flatten == CHOOSE f : f = F(f)
           T == Seq(S)
           g == [i \in 1..n |-> [s \in T |-> s \o seqs[i]]]
<1>1. n \in Nat /\ \A i \in 1..n : seqs[i] \in T
  <2> HIDE DEF T
  <2> SUFFICES ASSUME seqs \in Seq(T) PROVE n \in Nat /\ \A i \in 1..n : seqs[i] \in T
    BY DEF T
  <2> QED
    BY ElementOfSeq, LenProperties
<1>2. PICK u \in [0..n -> T] : u[0] = <<>> /\ \A i \in 1..n : u[i] = g[i][u[i - 1]]
  <2> DEFINE e == <<>>
  <2>1. g \in [1..n -> [T -> T]] /\ e \in T
    BY <1>1, ConcatProperties
  <2>2. Steps(T, n, g)
    BY <2>1 DEF Steps
  <2> HIDE DEF n, g, T, e
  <2>3. \E u : Computes(u, T, e, n, g)
    BY <1>1, <2>1, <2>2, Recursion
  <2> QED
    BY <2>3 DEF Computes, e
<1>3. \A i \in 1..n : i - 1 \in 0..n /\ u[i] = u[i - 1] \o seqs[i]
  <2> SUFFICES ASSUME NEW i \in 1..n
               PROVE  i - 1 \in 0..n /\ u[i] = u[i - 1] \o seqs[i]
    OBVIOUS
  <2>1. i - 1 \in 0..n
    BY <1>1
  <2>2. \A s \in T : g[i][s] = s \o seqs[i]
    OBVIOUS
  <2> HIDE DEF T, g
  <2> QED
    BY <1>2, <2>1, <2>2
<1>4. ASSUME n # 0 PROVE FlattenSeq(seqs) = u[n]
  <2>1. FlattenSeq(seqs) = flatten[n]
    BY <1>4 DEF FlattenSeq
  <2> DEFINE v == [i \in 1..n |-> u[i]]
  <2>2. \A i \in 1..n : v[i] = IF i = 1 THEN seqs[i] ELSE v[i - 1] \o seqs[i]
    <3> SUFFICES ASSUME NEW i \in 1..n
                 PROVE  v[i] = IF i = 1 THEN seqs[i] ELSE v[i - 1] \o seqs[i]
      OBVIOUS
    <3>1. CASE i = 1
      <4>1. u[i] = <<>> \o seqs[i]
        <5>1. u[i] = u[i - 1] \o seqs[i]
          BY <1>3
        <5>2. i - 1 = 0
          BY <3>1
        <5> QED
          BY <1>2, <5>1, <5>2
      <4>2. <<>> \o seqs[i] = seqs[i]
        BY <1>1, ConcatEmptySeq
      <4> QED
        BY <3>1, <4>1, <4>2
    <3>2. CASE i # 1
      <4>1. i - 1 \in 1..n
        BY <3>2, <1>1
      <4> QED
        BY <1>3, <3>2, <4>1
    <3> QED
      BY <3>1, <3>2
  <2>3. v = F(v)
    <3>1. v = [i \in 1..n |-> v[i]]
      OBVIOUS
    <3> HIDE DEF v
    <3> QED
      BY <2>2, <3>1
  <2> HIDE DEF F
  <2>4. flatten = F(flatten)
    BY <2>3
  <2> HIDE DEF flatten
  <2>5. \A i \in 1..n : flatten[i] = IF i = 1 THEN seqs[i] ELSE flatten[i - 1] \o seqs[i]
    BY <2>4 DEF F
  <2> DEFINE I == {i \in Nat : i \in 1..n => flatten[i] = v[i]}
  <2> HIDE DEF n, v
  <2>6. 0 \in I
    OBVIOUS
  <2>7. ASSUME NEW i \in Nat, i \in I PROVE i + 1 \in I
    <3> SUFFICES ASSUME i + 1 \in 1..n PROVE flatten[i + 1] = v[i + 1]
      OBVIOUS
    <3>1. CASE i = 0
      BY <2>2, <2>5, <3>1
    <3>2. CASE i # 0
      <4>1. i \in 1..n /\ i + 1 # 1 /\ (i + 1) - 1 = i
        BY <1>1, <3>2
      <4>2. flatten[i + 1] = flatten[i] \o seqs[i + 1]
        BY <2>5, <4>1
      <4>3. v[i + 1] = v[i] \o seqs[i + 1]
        BY <2>2, <4>1
      <4> QED
        BY <2>7, <4>1, <4>2, <4>3
    <3> QED
      BY <3>1, <3>2
  <2> HIDE DEF I
  <2>8. n \in I
    BY <1>1, <2>6, <2>7, Induction
  <2>9. n \in 1..n
    BY <1>1, <1>4
  <2>10. flatten[n] = v[n]
    BY <2>8, <2>9 DEF I
  <2> QED
    BY <2>1, <2>9, <2>10 DEF v
<1>5. ASSUME n = 0 PROVE FlattenSeq(seqs) = u[n]
  <2>1. FlattenSeq(seqs) = seqs
    BY <1>5 DEF FlattenSeq
  <2>2. seqs = <<>>
    BY <1>5, EmptySeq
  <2> QED
    BY <1>2, <1>5, <2>1, <2>2
<1>6. u \in [0..Len(seqs) -> Seq(S)]
  BY <1>2
<1> HIDE DEF g
<1> QED
  BY <1>2, <1>3, <1>4, <1>5, <1>6

\* A set of numbers that is not empty has a smallest.
LEMMA Smallest ==
    ASSUME NEW S \in SUBSET Nat, S # {}
    PROVE  \E x \in S : \A y \in S : x <= y
<1>1. PICK x \in S : \A y \in S : ~ (<<y, x>> \in OpToRel(<, Nat))
  BY NatLessThanWellFounded, WFMin
<1>2. \A y \in S : ~ y < x
  BY <1>1 DEF OpToRel
<1> QED
  BY <1>2

-----------------------------------------------------------------------------
(* The tree *)

\* Trees are sequences of nodes, each with a parent before it.
LEMMA TreeShape ==
    ASSUME tree \in Trees
    PROVE  /\ Len(tree) \in Nat /\ Nodes = 1..Len(tree)
           /\ \A n \in Nodes :
                 /\ tree[n].dir \in BOOLEAN /\ tree[n].size \in Nat
                 /\ tree[n].name \in Names
                 /\ tree[n].parent \in 0..(n - 1)
<1> DEFINE Node == [parent : Nat, dir : BOOLEAN, size : Nat, name : Names]
<1>1. /\ tree \in Seq(Node)
      /\ tree[1].parent = 0 /\ tree[1].dir
      /\ \A n \in 2..Len(tree) : tree[n].parent \in 1..(n - 1)
  BY FatAssumption
<1>2. \A n \in 1..Len(tree) : tree[n] \in Node
  <2> HIDE DEF Node
  <2> QED
    BY <1>1, ElementOfSeq
<1>3. Len(tree) \in Nat /\ DOMAIN tree = 1..Len(tree)
  <2> HIDE DEF Node
  <2> QED
    BY <1>1, LenProperties
<1>4. \A n \in 1..Len(tree) : tree[n].parent \in 0..(n - 1)
  <2> SUFFICES ASSUME NEW n \in 1..Len(tree) PROVE tree[n].parent \in 0..(n - 1)
    OBVIOUS
  <2>1. CASE n = 1
    BY <1>1, <2>1
  <2>2. CASE n # 1
    <3>1. n \in 2..Len(tree)
      BY <1>3, <2>2
    <3>2. tree[n].parent \in 1..(n - 1)
      BY <1>1, <3>1
    <3> QED
      BY <3>2
  <2> QED
    BY <2>1, <2>2
<1>5. \A n \in 1..Len(tree) : /\ tree[n].dir \in BOOLEAN /\ tree[n].size \in Nat
                              /\ tree[n].name \in Names
  BY <1>2
<1> QED
  BY <1>3, <1>4, <1>5 DEF Nodes

\* Children are nodes.
LEMMA ChildrenAre ==
    ASSUME tree \in Trees, NEW n
    PROVE  /\ Children(n) \in Seq(Nodes)
           /\ Len(Children(n)) \in Nat
           /\ \A i \in 1..Len(Children(n)) : Children(n)[i] \in Nodes
<1> DEFINE S == {c \in Nodes : tree[c].parent = n}
<1>1. Ordered(S) \in Seq(S) /\ S \subseteq Nodes
  <2>1. S \in SUBSET Nodes
    OBVIOUS
  <2> HIDE DEF S
  <2> QED
    BY <2>1, OrderedIs, TreeShape
<1>2. Children(n) = Ordered(S)
  BY DEF Children
<1> HIDE DEF S
<1>3. Children(n) \in Seq(Nodes)
  BY <1>1, <1>2, SeqMonotonic
<1> QED
  BY <1>3, ElementOfSeq, LenProperties

\* They are the nodes with that parent.
LEMMA ChildOf ==
    ASSUME tree \in Trees, NEW n, NEW i \in 1..Len(Children(n))
    PROVE  Children(n)[i] \in Nodes /\ tree[Children(n)[i]].parent = n
<1> DEFINE S == {c \in Nodes : tree[c].parent = n}
<1>1. Ordered(S) \in Seq(S)
  <2>1. S \in SUBSET Nodes
    OBVIOUS
  <2> HIDE DEF S
  <2> QED
    BY <2>1, OrderedIs, TreeShape
<1>2. Children(n) = Ordered(S)
  BY DEF Children
<1>3. Children(n)[i] \in S
  <2> HIDE DEF S
  <2> QED
    BY <1>1, <1>2, ElementOfSeq
<1> QED
  BY <1>3

\* Only a directory has children.
LEMMA ParentIsDir ==
    ASSUME tree \in Trees, NEW c \in Nodes, NEW n \in Nodes, tree[c].parent = n
    PROVE  tree[n].dir
<1>1. Nodes = 1..Len(tree) /\ Len(tree) \in Nat
  BY TreeShape
<1>2. tree[1].parent = 0
  BY FatAssumption
<1>3. c \in 2..Len(tree)
  BY <1>1, <1>2
<1>4. tree[tree[c].parent].dir
  BY <1>3, FatAssumption
<1> QED
  BY <1>4

-----------------------------------------------------------------------------
(* Short names *)

ShortForm == (STRING \X Int \X STRING) \union {None}

\* Numbers are cut to numbers, and one digit is always kept.
LEMMA DigitsAre ==
    ASSUME NEW n \in 1..999, NEW digits \in 1..4
    PROVE  /\ LeadingDigits(n, digits) \in Int
           /\ n <= 9 => LeadingDigits(n, digits) = n
<1> DEFINE ten(k) == <<1, 10, 100, 1000, 10000>>[k + 1]
           P(k) == /\ n \div ten(k) < ten(digits)
                   /\ \A j \in 0..(k - 1) : n \div ten(j) >= ten(digits)
           drop == CHOOSE k \in 0..3 : P(k)
<1>1. LeadingDigits(n, digits) = n \div ten(drop)
  BY DEF LeadingDigits
<1>2. /\ ten(0) = 1 /\ ten(1) = 10 /\ ten(2) = 100 /\ ten(3) = 1000
      /\ ten(4) = 10000
  OBVIOUS
<1> HIDE DEF ten
<1>3. ten(digits) >= 10 /\ ten(digits) \in Nat
  BY <1>2
<1>4. \E k \in 0..3 : P(k)
  <2>1. CASE n < ten(digits)
    <3>1. n \div ten(0) = n
      BY <1>2
    <3>2. P(0)
      BY <2>1, <3>1
    <3> QED
      BY <3>2
  <2>2. CASE n >= ten(digits) /\ n \div 10 < ten(digits)
    <3>1. n \div ten(0) = n
      BY <1>2
    <3>2. 0..(1 - 1) = {0}
      OBVIOUS
    <3>3. P(1)
      BY <1>2, <2>2, <3>1, <3>2
    <3> QED
      BY <3>3
  <2>3. CASE n >= ten(digits) /\ n \div 10 >= ten(digits)
    <3>1. n \div ten(0) = n
      BY <1>2
    <3>2. 0..(2 - 1) = {0, 1}
      OBVIOUS
    <3>3. n \div 100 < 10
      OBVIOUS
    <3>4. n \div 100 < ten(digits)
      BY <1>3, <3>3
    <3>5. P(2)
      BY <1>2, <2>3, <3>1, <3>2, <3>4
    <3> QED
      BY <3>5
  <2> QED
    BY <1>3, <2>1, <2>2, <2>3
<1>5. drop \in 0..3 /\ P(drop)
  BY <1>4
<1> HIDE DEF drop
<1>6. n \div ten(drop) \in Int
  <2>1. drop = 0 \/ drop = 1 \/ drop = 2 \/ drop = 3
    BY <1>5
  <2> QED
    BY <1>2, <2>1
<1>7. n <= 9 => n \div ten(drop) = n
  <2> SUFFICES ASSUME n <= 9 PROVE n \div ten(drop) = n
    OBVIOUS
  <2>1. n \div ten(0) = n /\ n < ten(digits)
    BY <1>2, <1>3
  <2>2. drop = 0
    <3> SUFFICES ASSUME drop # 0 PROVE FALSE
      OBVIOUS
    <3>1. 0 \in 0..(drop - 1)
      BY <1>5
    <3> QED
      BY <1>3, <1>5, <2>1, <3>1
  <2> QED
    BY <2>1, <2>2
<1> QED
  BY <1>1, <1>6, <1>7

\* What short_name returns; and where it finds none, all of the nine numbered
\* names of one digit are taken.
LEMMA ShortNameIs ==
    ASSUME NEW name \in Names, NEW taken
    PROVE  /\ short_name(name, taken) \in ShortForm
           /\ short_name(name, taken) = None =>
                 \A n \in 1..9 : <<name.stem, n, name.ext>> \in taken
<1> DEFINE numbered(n) == <<name.stem, LeadingDigits(n, name.digits), name.ext>>
           plain == <<name.stem, name.number, name.ext>>
           free(n) == numbered(n) \notin taken
           first == CHOOSE n \in 1..999 : free(n) /\ \A m \in 1..(n - 1) : ~ free(m)
<1>1. short_name(name, taken) =
          IF name.fits /\ plain \notin taken THEN plain
          ELSE IF \E n \in 1..999 : free(n) THEN numbered(first) ELSE None
  BY DEF short_name
<1>2. /\ name.stem \in STRING /\ name.ext \in STRING /\ name.number \in Nat
      /\ name.digits \in 1..4
  BY DEF Names
<1>3. \A n \in 1..999 : numbered(n) \in STRING \X Int \X STRING
  BY <1>2, DigitsAre
<1>4. plain \in STRING \X Int \X STRING
  BY <1>2
<1>5. ASSUME \E n \in 1..999 : free(n) PROVE first \in 1..999
  <2> DEFINE S == {n \in 1..999 : free(n)}
  <2> HIDE DEF free
  <2>1. S \in SUBSET Nat /\ S # {}
    BY <1>5
  <2>2. PICK x \in S : \A y \in S : x <= y
    <3> HIDE DEF S
    <3> QED
      BY <2>1, Smallest
  <2>3. x \in 1..999 /\ free(x) /\ \A m \in 1..(x - 1) : ~ free(m)
    BY <2>2
  <2> QED
    BY <2>3
<1>6. \A n \in 1..9 : n \in 1..999 /\ numbered(n) = <<name.stem, n, name.ext>>
  BY <1>2, DigitsAre
<1>7. plain # None /\ \A n : numbered(n) # None
  BY DEF None
<1> HIDE DEF first, plain, numbered
<1>8. short_name(name, taken) \in ShortForm
  <2>1. CASE name.fits /\ plain \notin taken
    BY <1>1, <1>4, <2>1 DEF ShortForm
  <2>2. CASE ~ (name.fits /\ plain \notin taken) /\ \E n \in 1..999 : free(n)
    <3>1. numbered(first) \in STRING \X Int \X STRING
      BY <1>3, <1>5, <2>2
    <3> QED
      BY <1>1, <2>2, <3>1 DEF ShortForm
  <2>3. CASE ~ (name.fits /\ plain \notin taken) /\ ~ \E n \in 1..999 : free(n)
    BY <1>1, <2>3 DEF ShortForm
  <2> QED
    BY <2>1, <2>2, <2>3
<1>9. ASSUME short_name(name, taken) = None
      PROVE  \A n \in 1..9 : <<name.stem, n, name.ext>> \in taken
  <2>1. \A n \in 1..999 : ~ free(n)
    BY <1>1, <1>7, <1>9
  <2> QED
    BY <2>1, <1>6
<1> QED
  BY <1>8, <1>9

\* The short names of n's children, one after the other.
LEMMA ShortNamesAre ==
    ASSUME tree \in Trees, NEW n
    PROVE  LET m == Len(Children(n))
           IN  \E u \in [0..m -> Seq(ShortForm)] :
                  /\ u[0] = <<>>
                  /\ \A i \in 1..m :
                        u[i] = Append(u[i - 1],
                                      short_name(tree[Children(n)[i]].name,
                                                 ToSet(u[i - 1])))
                  /\ \A i \in 0..m : Len(u[i]) = i
                  /\ ShortNames(n) = u[m]
<1> DEFINE children == Children(n)
           m == Len(children)
           next(i, s) == Append(s, short_name(tree[children[i]].name, ToSet(s)))
           F(f) == [i \in 0..m |-> IF i = 0 THEN <<>> ELSE next(i, f[i - 1])]
           names == CHOOSE f : f = F(f)
           T == Seq(ShortForm)
           g == [i \in 1..m |-> [s \in T |-> next(i, s)]]
<1>1. m \in Nat /\ \A i \in 1..m : tree[children[i]].name \in Names
  BY ChildrenAre, TreeShape
<1>2. ShortNames(n) = names[m]
  BY DEF ShortNames
<1>3. \A i \in 1..m, s \in T : next(i, s) \in T /\ Len(next(i, s)) = Len(s) + 1
  BY <1>1, ShortNameIs, AppendProperties
<1>4. PICK u : Computes(u, T, <<>>, m, g)
  <2> DEFINE e == <<>>
  <2>1. Steps(T, m, g) /\ e \in T
    <3> HIDE DEF next
    <3> QED
      BY <1>3 DEF Steps
  <2> HIDE DEF m, g, T, e
  <2>2. \E u : Computes(u, T, e, m, g)
    BY <1>1, <2>1, Recursion
  <2> QED
    BY <2>2 DEF e
<1> HIDE DEF next, T
<1>5. /\ u \in [0..m -> T] /\ u[0] = <<>>
      /\ \A i \in 1..m : u[i] = next(i, u[i - 1])
  <2>1. u \in [0..m -> T] /\ u[0] = <<>> /\ \A i \in 1..m : u[i] = g[i][u[i - 1]]
    BY <1>4 DEF Computes
  <2> SUFFICES ASSUME NEW i \in 1..m PROVE u[i] = next(i, u[i - 1])
    BY <2>1
  <2>2. u[i - 1] \in T
    BY <1>1, <2>1
  <2> QED
    BY <2>1, <2>2
<1>6. u = F(u)
  <2>1. u = [i \in 0..m |-> u[i]]
    BY <1>5
  <2>2. ASSUME NEW i \in 0..m PROVE u[i] = F(u)[i]
    <3>1. i = 0 \/ i \in 1..m
      BY <1>1
    <3> QED
      BY <1>5, <3>1
  <2> QED
    BY <2>1, <2>2
<1> HIDE DEF F
<1>7. names = F(names)
  BY <1>6
<1> HIDE DEF names, g
<1>8. /\ names[0] = <<>>
      /\ \A i \in 1..m : i \in 0..m /\ names[i] = next(i, names[i - 1])
  BY <1>1, <1>7 DEF F
<1>9. names[m] = u[m]
  <2> DEFINE I == {i \in Nat : i <= m => names[i] = u[i]}
  <2> HIDE DEF m
  <2>1. 0 \in I
    BY <1>5, <1>8
  <2>2. ASSUME NEW i \in Nat, i \in I PROVE i + 1 \in I
    <3> SUFFICES ASSUME i + 1 <= m PROVE names[i + 1] = u[i + 1]
      OBVIOUS
    <3>1. i + 1 \in 1..m /\ (i + 1) - 1 = i /\ i <= m
      BY <1>1
    <3> QED
      BY <1>5, <1>8, <2>2, <3>1
  <2> HIDE DEF I
  <2>3. m \in I
    BY <1>1, <2>1, <2>2, Induction
  <2> QED
    BY <1>1, <2>3 DEF I
<1>10. \A i \in 0..m : Len(u[i]) = i
  <2> DEFINE I == {i \in Nat : i <= m => Len(u[i]) = i}
  <2> HIDE DEF m
  <2>1. 0 \in I
    BY <1>5
  <2>2. ASSUME NEW i \in Nat, i \in I PROVE i + 1 \in I
    <3> SUFFICES ASSUME i + 1 <= m PROVE Len(u[i + 1]) = i + 1
      OBVIOUS
    <3>1. i + 1 \in 1..m /\ (i + 1) - 1 = i /\ i \in 0..m
      BY <1>1
    <3>2. u[i + 1] = next(i + 1, u[i]) /\ u[i] \in T /\ Len(u[i]) = i
      BY <1>5, <2>2, <3>1
    <3> QED
      BY <1>3, <3>1, <3>2
  <2> HIDE DEF I
  <2>3. \A i \in Nat : i \in I
    BY <2>1, <2>2, Induction
  <2> QED
    BY <1>1, <2>3 DEF I
<1> QED
  BY <1>2, <1>5, <1>9, <1>10 DEF next, T

\* They are as many as the children, whatever the children are.
LEMMA ShortNamesType ==
    ASSUME tree \in Trees, NEW n
    PROVE  ShortNames(n) \in Seq(ShortForm) /\ Len(ShortNames(n)) = Len(Children(n))
<1> DEFINE m == Len(Children(n))
<1>1. m \in 0..m
  BY ChildrenAre
<1> HIDE DEF m
<1>2. PICK u \in [0..m -> Seq(ShortForm)] :
         (\A i \in 0..m : Len(u[i]) = i) /\ ShortNames(n) = u[m]
  BY ShortNamesAre DEF m
<1> QED
  BY <1>1, <1>2 DEF m

\* A finite set that is mapped into a smaller one has two elements that go to
\* the same.
Maps(f, S, T) == f \in [S -> T]

\* More elements than values they are mapped to: two are mapped to one.
LEMMA Collision ==
    ASSUME NEW S, IsFiniteSet(S), NEW T, IsFiniteSet(T),
           Cardinality(T) < Cardinality(S), NEW f, Maps(f, S, T)
    PROVE  \E x \in S, y \in S : x # y /\ f[x] = f[y]
BY FS_PigeonHole DEF Maps

\* A name that cannot be shortened has nine before it.
LEMMA NamesRunOut ==
    ASSUME tree \in Trees, NEW n, None \in ToSet(ShortNames(n))
    PROVE  Len(Children(n)) >= 10
<1> DEFINE m == Len(Children(n))
           short(i, s) == short_name(tree[Children(n)[i]].name, ToSet(s))
<1>1. PICK u \in [0..m -> Seq(ShortForm)] :
         /\ u[0] = <<>>
         /\ \A i \in 1..m : u[i] = Append(u[i - 1], short(i, u[i - 1]))
         /\ \A i \in 0..m : Len(u[i]) = i
         /\ ShortNames(n) = u[m]
  BY ShortNamesAre
<1>2. m \in Nat /\ \A i \in 1..m : tree[Children(n)[i]].name \in Names
  BY ChildrenAre, TreeShape
<1> HIDE DEF m
<1>3. \A i \in 1..m : short(i, u[i - 1]) \in ShortForm
  BY <1>2, ShortNameIs
<1>4. \A i \in 1..m : i - 1 \in 0..m /\ u[i - 1] \in Seq(ShortForm)
  <2>1. u \in [0..m -> Seq(ShortForm)]
    BY <1>1
  <2>2. \A i \in 1..m : i - 1 \in 0..m
    BY <1>2
  <2> HIDE DEF short
  <2> QED
    BY <2>1, <2>2
<1> HIDE DEF short
<1> DEFINE P(i) == None \in ToSet(u[i]) => \E j \in 1..i : short(j, u[j - 1]) = None
           I == {i \in Nat : i <= m => P(i)}
<1>5. 0 \in I
  BY <1>1 DEF ToSet
<1>6. ASSUME NEW i \in Nat, i \in I PROVE i + 1 \in I
  <2> SUFFICES ASSUME i + 1 <= m, None \in ToSet(u[i + 1])
               PROVE  \E j \in 1..(i + 1) : short(j, u[j - 1]) = None
    OBVIOUS
  <2>1. i + 1 \in 1..m /\ (i + 1) - 1 = i /\ i <= m
    BY <1>2
  <2> DEFINE x == short(i + 1, u[i])
  <2>2. u[i + 1] = Append(u[i], x) /\ x \in ShortForm /\ u[i] \in Seq(ShortForm)
    BY <1>1, <1>3, <1>4, <2>1
  <2>3. ToSet(u[i + 1]) = ToSet(u[i]) \union {x}
    BY <2>2, ToSetAppend
  <2>4. CASE x = None
    BY <2>1, <2>4
  <2>5. CASE None \in ToSet(u[i])
    BY <1>6, <2>1, <2>5
  <2> QED
    BY <2>3, <2>4, <2>5
<1> HIDE DEF I
<1>7. m \in I
  BY <1>2, <1>5, <1>6, Induction
<1>8. PICK j \in 1..m : short(j, u[j - 1]) = None
  BY <1>1, <1>2, <1>7 DEF I
<1> DEFINE s == u[j - 1]
           name == tree[Children(n)[j]].name
<1>9. s \in Seq(ShortForm) /\ Len(s) = j - 1
  BY <1>1, <1>4, <1>8
<1>10. \A k \in 1..9 : \E i \in 1..(j - 1) : s[i] = <<name.stem, k, name.ext>>
  <2>1. \A k \in 1..9 : <<name.stem, k, name.ext>> \in ToSet(s)
    BY <1>2, <1>8, ShortNameIs DEF short
  <2>2. \A x \in ToSet(s) : \E i \in 1..(j - 1) : s[i] = x
    BY <1>9 DEF ToSet
  <2> QED
    BY <2>1, <2>2
<1> HIDE DEF s, name
<1>11. j - 1 >= 9
  <2> SUFFICES ASSUME j - 1 < 9 PROVE FALSE
    BY <1>2
  <2> DEFINE f == [k \in 1..9 |-> CHOOSE i \in 1..(j - 1) :
                                      s[i] = <<name.stem, k, name.ext>>]
  <2>1. \A k \in 1..9 : f[k] \in 1..(j - 1) /\ s[f[k]] = <<name.stem, k, name.ext>>
    BY <1>10
  <2> DEFINE places == 1..(j - 1)
             digit == 1..9
  <2>2. Maps(f, digit, places)
    BY <2>1 DEF Maps
  <2>3. IsFiniteSet(places) /\ Cardinality(places) < 9
    <3>1. j - 1 \in Int /\ 1 \in Int
      BY <1>2
    <3>2. IsFiniteSet(places) /\ Cardinality(places) = IF 1 > j - 1 THEN 0 ELSE (j - 1) - 1 + 1
      BY <3>1, FS_Interval
    <3> QED
      BY <3>1, <3>2
  <2>4. IsFiniteSet(digit) /\ Cardinality(digit) = 9
    <3>1. 1 \in Int /\ 9 \in Int
      OBVIOUS
    <3>2. IsFiniteSet(digit) /\ Cardinality(digit) = IF 1 > 9 THEN 0 ELSE 9 - 1 + 1
      BY <3>1, FS_Interval
    <3> QED
      BY <3>2
  <2> HIDE DEF f, places, digit
  <2>5. Cardinality(places) < Cardinality(digit)
    BY <2>3, <2>4
  <2>6. \E x \in digit, y \in digit : x # y /\ f[x] = f[y]
    BY <2>2, <2>3, <2>4, <2>5, Collision
  <2>7. PICK x \in 1..9, y \in 1..9 : x # y /\ f[x] = f[y]
    BY <2>6 DEF digit
  <2>8. <<name.stem, x, name.ext>> = <<name.stem, y, name.ext>>
    BY <2>1, <2>7
  <2> QED
    BY <2>7, <2>8
<1>12. j >= 10 /\ j <= m
  BY <1>2, <1>11
<1> QED
  BY <1>2, <1>12 DEF m

-----------------------------------------------------------------------------
(* Parts put together *)

\* Parts of the same lengths make wholes of the same length.
LEMMA FlattenSameLength ==
    ASSUME NEW S, NEW a \in Seq(Seq(S)), NEW T, NEW b \in Seq(Seq(T)),
           Len(a) = Len(b), \A i \in 1..Len(a) : Len(a[i]) = Len(b[i])
    PROVE  /\ FlattenSeq(a) \in Seq(S)
           /\ Len(FlattenSeq(a)) = Len(FlattenSeq(b))
<1> DEFINE n == Len(a)
<1>1. PICK f \in [0..n -> Seq(S)] :
         /\ f[0] = <<>>
         /\ \A i \in 1..n : f[i] = f[i - 1] \o a[i]
         /\ FlattenSeq(a) = f[n]
  BY FlattenParts
<1>2. PICK g \in [0..n -> Seq(T)] :
         /\ g[0] = <<>>
         /\ \A i \in 1..n : g[i] = g[i - 1] \o b[i]
         /\ FlattenSeq(b) = g[n]
  BY FlattenParts
<1>3. n \in Nat /\ \A i \in 1..n : a[i] \in Seq(S) /\ b[i] \in Seq(T)
  <2> DEFINE P == Seq(S)
             Q == Seq(T)
  <2>1. a \in Seq(P) /\ b \in Seq(Q)
    OBVIOUS
  <2> HIDE DEF P, Q
  <2>2. Len(a) \in Nat /\ \A i \in 1..Len(a) : a[i] \in P /\ b[i] \in Q
    BY <2>1, ElementOfSeq, LenProperties
  <2> QED
    BY <2>2 DEF P, Q
<1> HIDE DEF n
<1> DEFINE I == {i \in Nat : i <= n => Len(f[i]) = Len(g[i])}
<1>4. 0 \in I
  BY <1>1, <1>2
<1>5. ASSUME NEW i \in Nat, i \in I PROVE i + 1 \in I
  <2> SUFFICES ASSUME i + 1 <= n PROVE Len(f[i + 1]) = Len(g[i + 1])
    OBVIOUS
  <2>1. i + 1 \in 1..n /\ (i + 1) - 1 = i /\ i \in 0..n
    BY <1>3
  <2>2. f[i + 1] = f[i] \o a[i + 1] /\ g[i + 1] = g[i] \o b[i + 1]
    BY <1>1, <1>2, <2>1
  <2>3. f[i] \in Seq(S) /\ g[i] \in Seq(T) /\ Len(f[i]) = Len(g[i])
    BY <1>1, <1>2, <1>5, <2>1
  <2>4. a[i + 1] \in Seq(S) /\ b[i + 1] \in Seq(T)
    BY <1>3, <2>1
  <2>5. Len(f[i + 1]) = Len(f[i]) + Len(a[i + 1])
    <3> DEFINE s == f[i]
               t == a[i + 1]
    <3>1. s \in Seq(S) /\ t \in Seq(S) /\ f[i + 1] = s \o t
      BY <2>2, <2>3, <2>4
    <3> HIDE DEF s, t
    <3>2. Len(f[i + 1]) = Len(s) + Len(t)
      BY <3>1, ConcatProperties
    <3> QED
      BY <3>2 DEF s, t
  <2>6. Len(g[i + 1]) = Len(g[i]) + Len(b[i + 1])
    BY <2>2, <2>3, <2>4, ConcatProperties
  <2>7. Len(a[i + 1]) = Len(b[i + 1])
    BY <2>1 DEF n
  <2> QED
    BY <2>3, <2>5, <2>6, <2>7
<1> HIDE DEF I
<1>6. n \in I
  BY <1>3, <1>4, <1>5, Induction
<1> QED
  BY <1>1, <1>2, <1>3, <1>6 DEF I

\* Blocks of one length follow one another at multiples of it.
LEMMA FlattenBlocks ==
    ASSUME NEW S, NEW seqs \in Seq(Seq(S)), NEW b \in Nat,
           \A i \in 1..Len(seqs) : Len(seqs[i]) = b
    PROVE  /\ FlattenSeq(seqs) \in Seq(S)
           /\ Len(FlattenSeq(seqs)) = Len(seqs) * b
           /\ \A i \in 1..Len(seqs), j \in 1..b :
                 FlattenSeq(seqs)[(i - 1) * b + j] = seqs[i][j]
<1> DEFINE n == Len(seqs)
<1>1. PICK f \in [0..n -> Seq(S)] :
         /\ f[0] = <<>>
         /\ \A i \in 1..n : f[i] = f[i - 1] \o seqs[i]
         /\ FlattenSeq(seqs) = f[n]
  BY FlattenParts
<1>2. n \in Nat /\ \A i \in 1..n : seqs[i] \in Seq(S) /\ Len(seqs[i]) = b
  <2> DEFINE P == Seq(S)
  <2>1. seqs \in Seq(P)
    OBVIOUS
  <2> HIDE DEF P
  <2>2. Len(seqs) \in Nat /\ \A i \in 1..Len(seqs) : seqs[i] \in P
    BY <2>1, ElementOfSeq, LenProperties
  <2> QED
    BY <2>2 DEF P
<1> HIDE DEF n
<1> DEFINE At(k, i, j) == f[k][(i - 1) * b + j]
           P(k) == /\ Len(f[k]) = k * b
                   /\ \A i \in 1..k, j \in 1..b : At(k, i, j) = seqs[i][j]
           I == {k \in Nat : k <= n => P(k)}
<1>3. 0 \in I
  <2>1. Len(f[0]) = 0 * b
    BY <1>1
  <2>2. 1..0 = {}
    OBVIOUS
  <2> QED
    BY <2>1, <2>2
<1>4. ASSUME NEW k \in Nat, k \in I PROVE k + 1 \in I
  <2> HIDE DEF P
  <2> SUFFICES ASSUME k + 1 <= n PROVE P(k + 1)
    OBVIOUS
  <2> USE DEF P
  <2>1. k + 1 \in 1..n /\ (k + 1) - 1 = k /\ k \in 0..n /\ k <= n
    BY <1>2
  <2> DEFINE s == f[k]
             t == seqs[k + 1]
             r == f[k + 1]
  <2>2. s \in Seq(S) /\ t \in Seq(S) /\ Len(s) = k * b /\ Len(t) = b
    BY <1>1, <1>2, <1>4, <2>1
  <2>3. r = s \o t
    BY <1>1, <2>1
  <2>4. k * b \in Nat /\ (k + 1) * b = k * b + b
    OBVIOUS
  <2> HIDE DEF s, t, r
  <2>5. /\ Len(r) = (k + 1) * b
        /\ \A x \in 1..(k * b) : r[x] = s[x]
        /\ \A j \in 1..b : r[k * b + j] = t[j]
    <3>1. Len(r) = k * b + b
      BY <2>2, <2>3, ConcatProperties
    <3>2. \A x \in 1..(k * b + b) : r[x] = IF x <= k * b THEN s[x] ELSE t[x - k * b]
      BY <2>2, <2>3, ConcatProperties
    <3>3. ASSUME NEW j \in 1..b PROVE r[k * b + j] = t[j]
      <4> DEFINE q == k * b
      <4>1. q \in Nat /\ \A x \in 1..(q + b) : r[x] = IF x <= q THEN s[x] ELSE t[x - q]
        BY <2>4, <3>2
      <4> HIDE DEF q
      <4>2. q + j \in 1..(q + b) /\ ~ q + j <= q /\ (q + j) - q = j
        BY <4>1
      <4>3. r[q + j] = t[j]
        BY <4>1, <4>2
      <4> QED
        BY <4>3 DEF q
    <3>4. ASSUME NEW x \in 1..(k * b) PROVE r[x] = s[x]
      <4>1. x \in 1..(k * b + b) /\ x <= k * b
        BY <2>4
      <4> QED
        BY <3>2, <4>1
    <3> QED
      BY <2>4, <3>1, <3>3, <3>4
  <2>6. ASSUME NEW i \in 1..(k + 1), NEW j \in 1..b
        PROVE  At(k + 1, i, j) = seqs[i][j]
    <3>1. CASE i = k + 1
      BY <2>1, <2>5, <3>1 DEF r, t
    <3>2. CASE i # k + 1
      <4>1. i \in 1..k
        BY <3>2
      <4>2. (i - 1) * b + j \in 1..(k * b)
        <5>1. (i - 1) + 1 <= k /\ i - 1 \in Nat
          BY <4>1
        <5>2. ((i - 1) + 1) * b <= k * b
          BY <5>1, TimesMonotone
        <5>3. ((i - 1) + 1) * b = (i - 1) * b + b /\ (i - 1) * b \in Nat
          BY <5>1
        <5> DEFINE p == (i - 1) * b
                   q == k * b
        <5>4. p \in Nat /\ q \in Nat /\ p + b <= q
          BY <2>4, <5>2, <5>3
        <5> HIDE DEF p, q
        <5>5. p + j \in 1..q
          BY <5>4
        <5> QED
          BY <5>5 DEF p, q
      <4>3. At(k + 1, i, j) = s[(i - 1) * b + j]
        BY <2>5, <4>2 DEF r
      <4>4. At(k, i, j) = seqs[i][j]
        BY <1>4, <2>1, <4>1
      <4> QED
        BY <4>3, <4>4 DEF s
    <3> QED
      BY <3>1, <3>2
  <2> QED
    BY <2>5, <2>6 DEF r
<1> HIDE DEF I
<1>5. n \in I
  BY <1>2, <1>3, <1>4, Induction
<1>6. n \in 0..n
  BY <1>2
<1> QED
  BY <1>1, <1>2, <1>5, <1>6 DEF I, n

-----------------------------------------------------------------------------
(* Directories *)

\* What an entry of n may be.
EntryOf(n, lay) ==
    {<<"lfn", c>> : c \in Nodes}
    \union {<<"short", s, tree[c].dir, lay.first[c], tree[c].size>> :
               s \in ShortForm, c \in Nodes}
    \union {<<"dot", lay.first[n]>>,
            <<"dotdot", IF lay.parent[n] = ROOT_CLUS THEN 0 ELSE lay.parent[n]>>}

\* A child has its long name's entries and one for the short name.
LEMMA ChildEntriesAre ==
    ASSUME tree \in Trees, NEW n, NEW c \in Nodes, NEW short \in ShortForm, NEW lay
    PROVE  /\ ChildEntries(c, short, lay) \in Seq(EntryOf(n, lay))
           /\ Len(ChildEntries(c, short, lay)) = Len(LfnEntries(c, short)) + 1
           /\ Len(LfnEntries(c, short)) \in Nat
<1> DEFINE E == EntryOf(n, lay)
           lfn == LfnEntries(c, short)
           e == <<"short", short, tree[c].dir, lay.first[c], tree[c].size>>
<1>1. tree[c].name.lfn \in Nat
  BY TreeShape DEF Names
<1>2. <<"lfn", c>> \in E
  BY DEF EntryOf
<1>3. e \in E
  <2>1. <<"short", short, tree[c].dir, lay.first[c], tree[c].size>> \in
            {<<"short", s, tree[d].dir, lay.first[d], tree[d].size>> :
               s \in ShortForm, d \in Nodes}
    OBVIOUS
  <2> QED
    BY <2>1 DEF EntryOf
<1>4. lfn \in Seq(E) /\ Len(lfn) \in Nat
  <2>1. CASE SpelledOut(c, short)
    BY <2>1 DEF LfnEntries
  <2>2. CASE ~ SpelledOut(c, short)
    <3> DEFINE k == tree[c].name.lfn
               x == <<"lfn", c>>
    <3>1. lfn = [i \in 1..k |-> x]
      BY <2>2 DEF LfnEntries
    <3>2. k \in Nat /\ x \in E
      BY <1>1, <1>2
    <3> HIDE DEF E, lfn, k, x
    <3> QED
      BY <3>1, <3>2
  <2> QED
    BY <2>1, <2>2
<1>5. ChildEntries(c, short, lay) = Append(lfn, e)
  BY DEF ChildEntries
<1> HIDE DEF E, lfn, e
<1>6. Append(lfn, e) \in Seq(E) /\ Len(Append(lfn, e)) = Len(lfn) + 1
  BY <1>3, <1>4, AppendProperties
<1> QED
  BY <1>4, <1>5, <1>6 DEF E, lfn

\* A directory's entries, those of all children put together.
ChildParts(n, lay) ==
    [i \in DOMAIN Children(n) |-> ChildEntries(Children(n)[i], ShortNames(n)[i], lay)]

\* Each child's part is its long name's entries and its own.
LEMMA ChildPartsAre ==
    ASSUME tree \in Trees, NEW n, NEW lay
    PROVE  /\ ChildParts(n, lay) \in Seq(Seq(EntryOf(n, lay)))
           /\ Len(ChildParts(n, lay)) = Len(Children(n))
           /\ \A i \in 1..Len(Children(n)) :
                 Len(ChildParts(n, lay)[i]) =
                     Len(LfnEntries(Children(n)[i], ShortNames(n)[i])) + 1
<1> DEFINE children == Children(n)
           m == Len(children)
           short == ShortNames(n)
           E == EntryOf(n, lay)
           part(i) == ChildEntries(children[i], short[i], lay)
<1>1. /\ m \in Nat /\ DOMAIN children = 1..m
      /\ \A i \in 1..m : children[i] \in Nodes /\ short[i] \in ShortForm
  <2>1. children \in Seq(Nodes) /\ m \in Nat /\ \A i \in 1..m : children[i] \in Nodes
    BY ChildrenAre
  <2>2. short \in Seq(ShortForm) /\ Len(short) = m
    BY ShortNamesType
  <2> HIDE DEF children, short
  <2> QED
    BY <2>1, <2>2, ElementOfSeq, LenProperties
<1>2. \A i \in 1..m : /\ part(i) \in Seq(E)
                      /\ Len(part(i)) = Len(LfnEntries(children[i], short[i])) + 1
  <2> HIDE DEF children, short, m
  <2> QED
    BY <1>1, ChildEntriesAre
<1>3. ChildParts(n, lay) = [i \in 1..m |-> part(i)]
  BY <1>1 DEF ChildParts
<1> DEFINE P == Seq(E)
<1> HIDE DEF part, m, P
<1>4. \A i \in 1..m : part(i) \in P
  BY <1>2 DEF P
<1>5. [i \in 1..m |-> part(i)] \in Seq(P) /\ Len([i \in 1..m |-> part(i)]) = m
  BY <1>1, <1>4
<1>6. \A i \in 1..m : Len(ChildParts(n, lay)[i]) = Len(LfnEntries(children[i], short[i])) + 1
  BY <1>2, <1>3
<1> QED
  BY <1>3, <1>5, <1>6 DEF P, m

\* "." and "..".
LEMMA DotEntriesAre ==
    ASSUME NEW n, NEW lay
    PROVE  /\ DotEntries(n, lay) \in Seq(EntryOf(n, lay))
           /\ Len(DotEntries(n, lay)) = IF lay.parent[n] = 0 THEN 0 ELSE 2
<1> DEFINE E == EntryOf(n, lay)
           dot == <<"dot", lay.first[n]>>
           dotdot == <<"dotdot", IF lay.parent[n] = ROOT_CLUS THEN 0 ELSE lay.parent[n]>>
<1>1. dot \in E /\ dotdot \in E
  BY DEF EntryOf
<1>2. DotEntries(n, lay) = IF lay.parent[n] = 0 THEN <<>> ELSE <<dot, dotdot>>
  BY DEF DotEntries
<1> HIDE DEF E, dot, dotdot
<1>3. <<dot, dotdot>> \in Seq(E) /\ <<>> \in Seq(E)
  BY <1>1
<1> QED
  BY <1>2, <1>3 DEF E

\* How many entries there are depends on the layout only in that the root has
\* no "." and "..".
LEMMA EntriesAre ==
    ASSUME tree \in Trees, NEW n, NEW lay
    PROVE  /\ Entries(n, lay) \in Seq(EntryOf(n, lay))
           /\ \A other : (other.parent[n] = 0 <=> lay.parent[n] = 0) =>
                 Len(Entries(n, other)) = Len(Entries(n, lay))
<1> DEFINE whole(l) == FlattenSeq(ChildParts(n, l))
<1>1. ASSUME NEW l
      PROVE  /\ Entries(n, l) = DotEntries(n, l) \o whole(l)
             /\ whole(l) \in Seq(EntryOf(n, l))
             /\ Len(whole(l)) = Len(whole(lay))
  <2>1. Entries(n, l) = DotEntries(n, l) \o whole(l)
    BY DEF Entries, ChildParts
  <2>2. /\ ChildParts(n, l) \in Seq(Seq(EntryOf(n, l)))
        /\ ChildParts(n, lay) \in Seq(Seq(EntryOf(n, lay)))
        /\ Len(ChildParts(n, l)) = Len(ChildParts(n, lay))
        /\ \A i \in 1..Len(ChildParts(n, l)) :
              Len(ChildParts(n, l)[i]) = Len(ChildParts(n, lay)[i])
    BY ChildPartsAre
  <2> QED
    BY <2>1, <2>2, FlattenSameLength
<1> HIDE DEF whole
<1>2. ASSUME NEW l
      PROVE  /\ Entries(n, l) \in Seq(EntryOf(n, l))
             /\ Len(Entries(n, l)) = (IF l.parent[n] = 0 THEN 0 ELSE 2) + Len(whole(lay))
  <2> DEFINE E == EntryOf(n, l)
             d == DotEntries(n, l)
             w == whole(l)
  <2>1. d \in Seq(E) /\ w \in Seq(E)
    BY <1>1, DotEntriesAre
  <2>2. Entries(n, l) = d \o w /\ Len(w) = Len(whole(lay))
    BY <1>1
  <2>3. Len(d) = IF l.parent[n] = 0 THEN 0 ELSE 2
    BY DotEntriesAre
  <2> HIDE DEF E, d, w
  <2>4. d \o w \in Seq(E) /\ Len(d \o w) = Len(d) + Len(w)
    BY <2>1, ConcatProperties
  <2> QED
    BY <2>2, <2>3, <2>4 DEF E
<1>3. \A other : (other.parent[n] = 0 <=> lay.parent[n] = 0) =>
          Len(Entries(n, other)) = Len(Entries(n, lay))
  BY <1>2
<1> QED
  BY <1>2, <1>3

\* The bytes of a directory: its entries, one block each, and a NUL.
ByteOf(n, lay) == {Byte(e, k) : e \in EntryOf(n, lay), k \in 1..DirEntryBytes}
                      \union {NUL}

\* A directory's bytes are those of its entries and a NUL behind them.
LEMMA DirectoryBytes ==
    ASSUME tree \in Trees, NEW n, NEW lay
    PROVE  LET entries == Entries(n, lay)
               bytes == build_dir_entries(n, lay)
               size == Len(entries) * DirEntryBytes
           IN  /\ Len(entries) \in Nat
               /\ bytes \in Seq(ByteOf(n, lay))
               /\ size \in Nat /\ Len(bytes) = size + 1
               /\ bytes[size + 1] = NUL
               /\ \A i \in 1..Len(entries), j \in 1..DirEntryBytes :
                     bytes[(i - 1) * DirEntryBytes + j] = Byte(entries[i], j)
<1> DEFINE entries == Entries(n, lay)
           m == Len(entries)
           blocks == [i \in DOMAIN entries |-> Bytes(entries[i], DirEntryBytes)]
           S == ByteOf(n, lay)
           E == EntryOf(n, lay)
           bytes == FlattenSeq(blocks)
           b == DirEntryBytes
<1>1. /\ m \in Nat /\ DOMAIN entries = 1..m
      /\ \A i \in 1..m : entries[i] \in E
  <2>1. entries \in Seq(E)
    BY EntriesAre
  <2> HIDE DEF entries, E
  <2> QED
    BY <2>1, ElementOfSeq, LenProperties
<1>2. b \in Nat
  BY Sizes
<1>3. \A e \in E, k \in 1..b : Byte(e, k) \in S
  BY DEF ByteOf
<1>4. ASSUME NEW e \in E
      PROVE  /\ Bytes(e, b) \in Seq(S) /\ Len(Bytes(e, b)) = b
             /\ \A j \in 1..b : Bytes(e, b)[j] = Byte(e, j)
  <2>1. Bytes(e, b) = [k \in 1..b |-> Byte(e, k)]
    BY DEF Bytes
  <2> HIDE DEF S, b
  <2> QED
    BY <1>2, <1>3, <2>1
<1>5. /\ blocks \in Seq(Seq(S)) /\ Len(blocks) = m
      /\ \A i \in 1..m : blocks[i] = Bytes(entries[i], b)
  <2> DEFINE P == Seq(S)
  <2>1. blocks = [i \in 1..m |-> Bytes(entries[i], b)]
    BY <1>1
  <2>2. \A i \in 1..m : Bytes(entries[i], b) \in P
    BY <1>1, <1>4
  <2> HIDE DEF P, m, blocks, entries
  <2>3. blocks \in Seq(P) /\ Len(blocks) = m /\ \A i \in 1..m : blocks[i] = Bytes(entries[i], b)
    BY <1>1, <2>1, <2>2
  <2> QED
    BY <2>3 DEF P
<1>6. \A i \in 1..Len(blocks) : Len(blocks[i]) = b
  BY <1>1, <1>4, <1>5
<1>7. build_dir_entries(n, lay) = Append(bytes, NUL)
  BY DEF build_dir_entries
<1> HIDE DEF blocks, entries, m, S, b
<1>8. /\ bytes \in Seq(S) /\ Len(bytes) = m * b
      /\ \A i \in 1..m, j \in 1..b : bytes[(i - 1) * b + j] = blocks[i][j]
  BY <1>2, <1>5, <1>6, FlattenBlocks
<1>9. \A i \in 1..m, j \in 1..b : bytes[(i - 1) * b + j] = Byte(entries[i], j)
  <2> SUFFICES ASSUME NEW i \in 1..m, NEW j \in 1..b
               PROVE  bytes[(i - 1) * b + j] = Byte(entries[i], j)
    OBVIOUS
  <2>1. bytes[(i - 1) * b + j] = blocks[i][j]
    BY <1>8
  <2>2. blocks[i] = Bytes(entries[i], b) /\ entries[i] \in E
    BY <1>1, <1>5
  <2>3. Bytes(entries[i], b)[j] = Byte(entries[i], j)
    BY <1>4, <2>2
  <2> QED
    BY <2>1, <2>2, <2>3
<1> HIDE DEF bytes
<1> DEFINE all == Append(bytes, NUL)
<1>10. NUL \in S
  BY DEF S, ByteOf
<1>11. m * b \in Nat
  BY <1>1, <1>2
<1>12. /\ all \in Seq(S) /\ Len(all) = m * b + 1 /\ all[m * b + 1] = NUL
       /\ \A x \in 1..(m * b) : all[x] = bytes[x]
  BY <1>8, <1>10, <1>11, AppendProperties
<1>13. ASSUME NEW i \in 1..m, NEW j \in 1..b
       PROVE  (i - 1) * b + j \in 1..(m * b)
  <2>1. i - 1 \in Nat /\ i \in Nat /\ i <= m /\ (i - 1) + 1 = i
    BY <1>1
  <2>2. i * b <= m * b /\ i * b = (i - 1) * b + b /\ (i - 1) * b \in Nat
    BY <1>1, <1>2, <2>1, TimesMonotone
  <2> DEFINE p == (i - 1) * b
             q == m * b
  <2>3. p \in Nat /\ q \in Nat /\ p + b <= q
    BY <1>11, <2>2
  <2> HIDE DEF p, q
  <2>4. p + j \in 1..q
    BY <1>2, <2>3
  <2> QED
    BY <2>4 DEF p, q
<1> HIDE DEF all
<1>14. \A i \in 1..m, j \in 1..b : all[(i - 1) * b + j] = Byte(entries[i], j)
  BY <1>9, <1>12, <1>13
<1> QED
  BY <1>1, <1>7, <1>11, <1>12, <1>14 DEF all, m, b, S, entries

-----------------------------------------------------------------------------
(* Chains *)

\* The clusters used are 2 to next_clus - 1; each is followed by the next, or
\* ends a chain, as the last does.
Linked ==
    /\ next_clus \in Nat /\ next_clus >= ROOT_CLUS
    /\ fat \in [ROOT_CLUS..(next_clus - 1) -> Int]
    /\ \A c \in ROOT_CLUS..(next_clus - 1) : fat[c] = c + 1 \/ fat[c] = EOC
    /\ next_clus > ROOT_CLUS => fat[next_clus - 1] = EOC

\* A run of k clusters from c on that ends there.
Run(c, k) ==
    /\ c \in Nat /\ k \in Nat \ {0} /\ c >= ROOT_CLUS /\ c + k <= next_clus
    /\ \A d \in c..(c + k - 2) : fat[d] = d + 1
    /\ fat[c + k - 1] = EOC

Numbers(c, k) == [i \in 1..k |-> c + i - 1]

\* The numbers of a run: how many, which, and the first before the rest.
LEMMA NumbersAre ==
    ASSUME NEW c \in Int, NEW k \in Nat
    PROVE  /\ Numbers(c, k) \in Seq(Int) /\ Len(Numbers(c, k)) = k
           /\ ToSet(Numbers(c, k)) = c..(c + k - 1)
           /\ Numbers(c, k + 1) = <<c>> \o Numbers(c + 1, k)
<1>1. Numbers(c, k) \in Seq(Int) /\ Len(Numbers(c, k)) = k /\ DOMAIN Numbers(c, k) = 1..k
  BY DEF Numbers
<1>2. ToSet(Numbers(c, k)) = c..(c + k - 1)
  <2>1. ToSet(Numbers(c, k)) = {c + i - 1 : i \in 1..k}
    BY <1>1 DEF ToSet, Numbers
  <2>2. ASSUME NEW d \in c..(c + k - 1) PROVE \E i \in 1..k : d = c + i - 1
    <3>1. d - c + 1 \in 1..k /\ d = c + (d - c + 1) - 1
      OBVIOUS
    <3> QED
      BY <3>1
  <2>3. \A i \in 1..k : c + i - 1 \in c..(c + k - 1)
    OBVIOUS
  <2> QED
    BY <2>1, <2>2, <2>3
<1>3. Numbers(c, k + 1) = <<c>> \o Numbers(c + 1, k)
  <2> DEFINE a == Numbers(c, k + 1)
             s == Numbers(c + 1, k)
             b == <<c>> \o s
  <2>1. a \in Seq(Int) /\ Len(a) = k + 1 /\ \A i \in 1..(k + 1) : a[i] = c + i - 1
    BY DEF Numbers
  <2>2. s \in Seq(Int) /\ Len(s) = k /\ \A i \in 1..k : s[i] = (c + 1) + i - 1
    BY DEF Numbers
  <2>3. <<c>> \in Seq(Int) /\ Len(<<c>>) = 1 /\ <<c>>[1] = c
    OBVIOUS
  <2> HIDE DEF a, s
  <2>4. b \in Seq(Int) /\ Len(b) = 1 + k
        /\ \A i \in 1..(1 + k) : b[i] = IF i <= 1 THEN <<c>>[i] ELSE s[i - 1]
    BY <2>2, <2>3, ConcatProperties
  <2> HIDE DEF b
  <2>5. ASSUME NEW i \in 1..(k + 1) PROVE a[i] = b[i]
    <3>1. CASE i = 1
      BY <2>1, <2>3, <2>4, <3>1
    <3>2. CASE i # 1
      <4>1. i - 1 \in 1..k /\ ~ i <= 1 /\ i \in 1..(1 + k)
        BY <3>2
      <4>2. b[i] = (c + 1) + (i - 1) - 1
        BY <2>2, <2>4, <4>1
      <4> QED
        BY <2>1, <4>2
    <3> QED
      BY <3>1, <3>2
  <2>6. Len(a) = Len(b) /\ \A i \in 1..Len(a) : a[i] = b[i]
    <3>1. Len(a) = Len(b) /\ 1..Len(a) = 1..(k + 1)
      BY <2>1, <2>4
    <3> QED
      BY <2>5, <3>1
  <2>7. a = b
    BY <2>1, <2>4, <2>6, SeqEqual
  <2> QED
    BY <2>7 DEF a, b, s
<1> QED
  BY <1>1, <1>2, <1>3

\* The chain of a run is the run: following the FAT ends, and where it should.
LEMMA ChainIs ==
    ASSUME Linked, next_clus <= EndMark, NEW first, NEW k, Run(first, k)
    PROVE  Chain(first) = Numbers(first, k)
<1> DEFINE N == next_clus
           used == ROOT_CLUS..(N - 1)
           F(f) == [c \in Int |-> IF c \in DOMAIN fat /\ c < EndMark
                                  THEN <<c>> \o f[fat[c]] ELSE <<>>]
           after == CHOOSE f : f = F(f)
<1>1. Chain(first) = after[first]
  BY DEF Chain
<1>2. /\ N \in Nat /\ N <= EOC /\ DOMAIN fat = used
      /\ \A c \in used : c < EndMark
      /\ \A c \in used : c \in Nat /\ fat[c] \in Int
      /\ \A c \in used : fat[c] = c + 1 \/ fat[c] = EOC
      /\ EOC \in Int /\ EOC \notin used /\ ROOT_CLUS = 2
      /\ \A c \in used : N - 1 \in used /\ fat[N - 1] = EOC
  BY DEF Linked, EOC, EndMark, ROOT_CLUS
<1> HIDE DEF N
<1> DEFINE ends(c) == {d \in c..(N - 1) : fat[d] = EOC}
           end(c) == CHOOSE d \in ends(c) : \A e \in ends(c) : d <= e
<1>3. ASSUME NEW c \in used
      PROVE  /\ end(c) \in c..(N - 1) /\ fat[end(c)] = EOC
             /\ \A e \in c..(N - 1) : fat[e] = EOC => end(c) <= e
  <2>1. ends(c) \in SUBSET Nat /\ ends(c) # {}
    BY <1>2
  <2>2. \E d \in ends(c) : \A e \in ends(c) : d <= e
    <3> HIDE DEF ends
    <3> QED
      BY <2>1, Smallest
  <2> QED
    BY <2>2
<1> HIDE DEF end
<1> DEFINE g == [c \in Int |-> IF c \in used THEN Numbers(c, end(c) - c + 1) ELSE <<>>]
<1>4. ASSUME NEW c \in used
      PROVE  g[c] = <<c>> \o g[fat[c]]
  <2>1. c \in Int /\ g[c] = Numbers(c, end(c) - c + 1)
    BY <1>2
  <2>2. CASE fat[c] = EOC
    <3>1. end(c) = c
      BY <1>2, <1>3, <2>2
    <3>2. g[fat[c]] = <<>>
      BY <1>2, <2>2
    <3>3. Numbers(c + 1, 0) = <<>>
      BY DEF Numbers
    <3>4. Numbers(c, 0 + 1) = <<c>> \o Numbers(c + 1, 0)
      BY <2>1, NumbersAre
    <3>5. c - c + 1 = 0 + 1
      BY <2>1
    <3> QED
      BY <2>1, <3>1, <3>2, <3>3, <3>4, <3>5
  <2>3. CASE fat[c] # EOC
    <3>1. fat[c] = c + 1 /\ c + 1 \in used
      BY <1>2, <2>3
    <3>2. end(c) = end(c + 1)
      <4>1. end(c) \in c..(N - 1) /\ end(c) # c
        BY <1>3, <2>3
      <4>2. end(c) \in (c + 1)..(N - 1)
        BY <1>2, <4>1
      <4>3. end(c + 1) \in c..(N - 1) /\ end(c + 1) \in Int
        BY <1>2, <1>3, <3>1
      <4>4. end(c) <= end(c + 1) /\ end(c + 1) <= end(c)
        BY <1>3, <3>1, <4>2, <4>3
      <4> QED
        BY <4>2, <4>3, <4>4
    <3> DEFINE e == end(c)
               m == e - c
    <3>3. e \in (c + 1)..(N - 1)
      BY <1>3, <3>1, <3>2
    <3>4. m \in Nat /\ e - c + 1 = m + 1 /\ e - (c + 1) + 1 = m
      BY <1>2, <2>1, <3>3
    <3>5. g[c + 1] = Numbers(c + 1, e - (c + 1) + 1)
      BY <1>2, <3>1, <3>2
    <3> HIDE DEF g, e, m
    <3>6. Numbers(c, m + 1) = <<c>> \o Numbers(c + 1, m)
      BY <2>1, <3>4, NumbersAre
    <3> QED
      BY <2>1, <3>1, <3>4, <3>5, <3>6 DEF e
  <2> QED
    BY <2>2, <2>3
<1>5. g = F(g)
  <2>1. \A c \in Int : g[c] = IF c \in used THEN <<c>> \o g[fat[c]] ELSE <<>>
    BY <1>4
  <2>2. g = [c \in Int |-> g[c]]
    OBVIOUS
  <2> HIDE DEF g, used
  <2> QED
    BY <1>2, <2>1, <2>2
<1> HIDE DEF F, g
<1>6. after = F(after)
  BY <1>5
<1> HIDE DEF after
<1>7. \A c \in Int : after[c] = IF c \in used THEN <<c>> \o after[fat[c]] ELSE <<>>
  BY <1>2, <1>6 DEF F
<1>8. /\ first \in Nat /\ k \in Nat \ {0} /\ first >= 2 /\ first + k <= N
      /\ \A d \in first..(first + k - 2) : fat[d] = d + 1
      /\ fat[first + k - 1] = EOC
  BY <1>2 DEF Run, N
<1> DEFINE c(j) == first + k - 1 - j
           I == {j \in Nat : j < k => after[c(j)] = Numbers(c(j), j + 1)}
<1>9. 0 \in I
  <2>1. c(0) \in used /\ c(0) \in Int /\ fat[c(0)] = EOC
    BY <1>2, <1>8
  <2>2. after[EOC] = <<>>
    BY <1>2, <1>7
  <2>3. Numbers(c(0) + 1, 0) = <<>>
    BY DEF Numbers
  <2> HIDE DEF c
  <2>4. Numbers(c(0), 0 + 1) = <<c(0)>> \o Numbers(c(0) + 1, 0)
    BY <2>1, NumbersAre
  <2>5. after[c(0)] = <<c(0)>> \o after[EOC]
    BY <1>7, <2>1
  <2> QED
    BY <2>2, <2>3, <2>4, <2>5
<1>10. ASSUME NEW j \in Nat, j \in I PROVE j + 1 \in I
  <2> SUFFICES ASSUME j + 1 < k PROVE after[c(j + 1)] = Numbers(c(j + 1), (j + 1) + 1)
    OBVIOUS
  <2>1. c(j + 1) \in used /\ c(j + 1) \in Int /\ fat[c(j + 1)] = c(j)
        /\ c(j + 1) + 1 = c(j) /\ j < k
    <3>1. c(j + 1) \in first..(first + k - 2) /\ c(j + 1) + 1 = c(j)
      BY <1>8
    <3>2. fat[c(j + 1)] = c(j + 1) + 1
      BY <1>8, <3>1
    <3>3. c(j + 1) \in used /\ c(j + 1) \in Int
      BY <1>2, <1>8, <3>1
    <3> QED
      BY <1>8, <3>1, <3>2, <3>3
  <2>2. after[c(j)] = Numbers(c(j), j + 1)
    BY <1>10, <2>1
  <2> HIDE DEF c
  <2>3. after[c(j + 1)] = <<c(j + 1)>> \o after[c(j)]
    BY <1>7, <2>1
  <2>4. Numbers(c(j + 1), (j + 1) + 1) = <<c(j + 1)>> \o Numbers(c(j), j + 1)
    <3> DEFINE x == c(j + 1)
               i == j + 1
    <3>1. x \in Int /\ i \in Nat /\ x + 1 = c(j)
      BY <2>1
    <3> HIDE DEF x, i
    <3>2. Numbers(x, i + 1) = <<x>> \o Numbers(x + 1, i)
      BY <3>1, NumbersAre
    <3>3. Numbers(x, i + 1) = <<x>> \o Numbers(c(j), i)
      BY <3>1, <3>2
    <3> QED
      BY <3>3 DEF x, i
  <2> QED
    BY <2>2, <2>3, <2>4
<1> HIDE DEF I
<1>11. k - 1 \in Nat /\ k - 1 \in I
  BY <1>8, <1>9, <1>10, Induction
<1>12. c(k - 1) = first /\ (k - 1) + 1 = k /\ k - 1 < k
  BY <1>8
<1>13. after[first] = Numbers(first, k)
  <2>1. after[c(k - 1)] = Numbers(c(k - 1), (k - 1) + 1)
    BY <1>11, <1>12 DEF I
  <2> QED
    BY <1>12, <2>1
<1> QED
  BY <1>1, <1>13

-----------------------------------------------------------------------------
(* The inductive invariant *)

\* The clusters node n needs, its parent known.
Needs(n, lay) ==
    IF tree[n].dir THEN DirClusters(n, lay)
    ELSE Quotient(tree[n].size, BYTES_PER_CLUSTER)

Files == {n \in Nodes \ Dirs : layout.first[n] # 0}

\* The nodes of S not to be visited any more come before those that are.
InOrder(S) == \A n \in S \ ToSet(todo), t \in ToSet(todo) : n < t

FatTypeOK ==
    /\ tree \in Trees /\ tot_sec \in Totals
    /\ host \in [Nodes -> Nat \union {Gone}]
    /\ todo \in Seq(Nodes) /\ Increasing(todo)
    /\ layout \in [first : [Nodes -> Nat], parent : [Nodes -> Nat],
                   dir_n : [Nodes -> Nat]]
    /\ written \in [Nodes -> Nat]
    /\ \E S : data \in Seq(S)

\* A node with a first cluster has its run there, those of earlier nodes before.
Runs ==
    \A n \in Nodes :
       /\ layout.first[n] = 0 => layout.dir_n[n] = 0
       /\ layout.first[n] # 0 =>
             /\ layout.dir_n[n] = Needs(n, layout)
             /\ Run(layout.first[n], layout.dir_n[n])
             /\ \A m \in Nodes : m < n /\ layout.first[m] # 0 =>
                   layout.first[m] + layout.dir_n[m] <= layout.first[n]

Passes == {"dirs", "files", "fats", "written", "fat full", "no file"}

\* How far the passes are.
Progress ==
    /\ pc \in {"begin", "too small", "layout", "no short name",
             "size overflows"} \union Passes
    /\ pc = "begin" => \A n \in Nodes : layout.first[n] = 0 /\ layout.dir_n[n] = 0
    /\ pc = "layout" =>
          /\ \A n \in ToSet(todo) : layout.first[n] = 0
          /\ \A n \in Nodes \ ToSet(todo) : layout.dir_n[n] = Needs(n, layout)
          /\ InOrder(Nodes)
    /\ pc \in Passes => \A n \in Nodes : layout.dir_n[n] = Needs(n, layout)
    /\ pc = "dirs" => ToSet(todo) \subseteq Dirs /\ InOrder(Dirs)
    /\ pc = "files" => ToSet(todo) \subseteq Files /\ InOrder(Files)
    /\ pc \in {"fats", "written"} => todo = <<>>

FatInv == FatTypeOK /\ Linked /\ Runs /\ Progress /\ GivenUpForCause

\* What is written for node n, and where.
Content(n) ==
    IF tree[n].dir THEN build_dir_entries(n, layout)
    ELSE Bytes(<<"file", n>>, tree[n].size)

Place(n) == (layout.first[n] - ROOT_CLUS) * BYTES_PER_CLUSTER

Placed(n) ==
    /\ Place(n) + Len(Content(n)) <= Len(data)
    /\ \A i \in 1..Len(Content(n)) : data[Place(n) + i] = Content(n)[i]

Room == Used + Cardinality(Dirs) <= clus_count

\* The files written with other than the size that was scanned.
Bad == {f \in Files \ ToSet(todo) : written[f] # tree[f].size}

\* What has been written is in its place, up to the first such file.
DataInv ==
    /\ pc = "layout" => Len(data) = DataBytes
    /\ pc = "dirs" /\ Room =>
          /\ Len(data) + Cardinality(Dirs \ ToSet(todo)) * BYTES_PER_CLUSTER
                >= DataBytes
          /\ \A n \in Dirs \ ToSet(todo) : Placed(n)
    /\ pc \in {"files", "fats", "written"} /\ Room =>
          /\ Bad = {} => Used * BYTES_PER_CLUSTER <= Len(data)
          /\ \A n \in Dirs \union (Files \ ToSet(todo)) :
                (\A f \in Bad : n < f) => Placed(n)

\* The first of a list in order is the least of it.
LEMMA FirstOf ==
    ASSUME NEW S \in SUBSET Int, NEW s \in Seq(S), Increasing(s), s # <<>>
    PROVE  /\ Head(s) \in S /\ Tail(s) \in Seq(S) /\ Increasing(Tail(s))
           /\ Head(s) \in ToSet(s) /\ ToSet(Tail(s)) = ToSet(s) \ {Head(s)}
           /\ ToSet(s) \subseteq S
           /\ \A t \in ToSet(Tail(s)) : Head(s) < t
<1>1. Len(s) \in Nat \ {0} /\ Head(s) = s[1]
  BY EmptySeq, HeadTailProperties
<1>2. /\ Head(s) \in S /\ Tail(s) \in Seq(S) /\ Len(Tail(s)) = Len(s) - 1
      /\ \A i \in 1..(Len(s) - 1) : Tail(s)[i] = s[i + 1]
      /\ \A i \in 1..Len(s) : s[i] \in S
  BY HeadTailProperties, ElementOfSeq, <1>1
<1> DEFINE t == Tail(s)
<1> HIDE DEF t
<1>3. ToSet(s) = {s[i] : i \in 1..Len(s)} /\ ToSet(t) = {t[i] : i \in 1..Len(t)}
  <2>1. DOMAIN s = 1..Len(s) /\ DOMAIN t = 1..Len(t)
    BY <1>2, LenProperties DEF t
  <2> QED
    BY <2>1 DEF ToSet
<1>4. \A i \in 1..Len(t) : i + 1 \in 1..Len(s) /\ t[i] = s[i + 1] /\ s[1] < s[i + 1]
  BY <1>1, <1>2 DEF t, Increasing
<1>5. Increasing(t)
  <2> SUFFICES ASSUME NEW i \in 1..Len(t), NEW j \in 1..Len(t), i < j
               PROVE  t[i] < t[j]
    BY DEF Increasing
  <2>1. i + 1 < j + 1 /\ i + 1 \in 1..Len(s) /\ j + 1 \in 1..Len(s)
    BY <1>4
  <2> QED
    BY <1>4, <2>1 DEF Increasing
<1>6. 1 \in 1..Len(s) /\ \A i \in 1..Len(s) : i = 1 \/ (i - 1 \in 1..Len(t) /\ (i - 1) + 1 = i)
  BY <1>1, <1>2 DEF t
<1>7. ToSet(t) = ToSet(s) \ {s[1]}
  <2>1. \A x \in ToSet(t) : x \in ToSet(s) /\ x # s[1]
    <3> SUFFICES ASSUME NEW i \in 1..Len(t)
                 PROVE  t[i] \in ToSet(s) /\ t[i] # s[1]
      BY <1>3
    <3>1. i + 1 \in 1..Len(s) /\ t[i] = s[i + 1] /\ s[1] < s[i + 1]
      BY <1>4
    <3>2. s[1] \in Int /\ s[i + 1] \in Int /\ s[i + 1] \in ToSet(s)
      BY <1>2, <1>3, <1>6, <3>1
    <3> QED
      BY <3>1, <3>2
  <2>2. ASSUME NEW x \in ToSet(s), x # s[1] PROVE x \in ToSet(t)
    <3>1. PICK i \in 1..Len(s) : x = s[i]
      BY <1>3
    <3>2. i - 1 \in 1..Len(t) /\ (i - 1) + 1 = i
      BY <1>6, <2>2, <3>1
    <3>3. t[i - 1] = x
      BY <1>4, <3>1, <3>2
    <3> QED
      BY <1>3, <3>2, <3>3
  <2> QED
    BY <2>1, <2>2
<1>8. ToSet(s) \subseteq S /\ s[1] \in ToSet(s) /\ \A x \in ToSet(t) : s[1] < x
  BY <1>2, <1>3, <1>4, <1>6
<1> QED
  BY <1>1, <1>2, <1>5, <1>7, <1>8 DEF t

\* What a run taken from the free clusters does to the FAT.
LEMMA AllocIs ==
    ASSUME Linked, NEW k \in Nat, NEW m, NEW lay, alloc_run(m, k, lay)
    PROVE  /\ Linked' /\ next_clus' = next_clus + k
           /\ \A c \in ROOT_CLUS..(next_clus - 1) : fat'[c] = fat[c]
           /\ k # 0 => /\ \A d \in next_clus..(next_clus + k - 2) : fat'[d] = d + 1
                       /\ fat'[next_clus + k - 1] = EOC
<1> DEFINE N == next_clus
           last == N + k - 1
<1>1. /\ N \in Nat /\ N >= 2 /\ ROOT_CLUS = 2 /\ EOC \in Int
      /\ DOMAIN fat = 2..(N - 1)
      /\ \A c \in 2..(N - 1) : fat[c] \in Int /\ (fat[c] = c + 1 \/ fat[c] = EOC)
      /\ N > 2 => fat[N - 1] = EOC
  BY DEF Linked, ROOT_CLUS, EOC
<1>2. /\ next_clus' = N + k
      /\ fat' = [c \in (DOMAIN fat) \union N..last |->
                     IF c \in DOMAIN fat THEN fat[c]
                     ELSE IF c = last THEN EOC ELSE c + 1]
  BY DEF alloc_run
<1> HIDE DEF N
<1>3. (2..(N - 1)) \union N..last = 2..((N + k) - 1)
  BY <1>1
<1>4. fat' = [c \in 2..((N + k) - 1) |->
                 IF c \in 2..(N - 1) THEN fat[c]
                 ELSE IF c = last THEN EOC ELSE c + 1]
  BY <1>1, <1>2, <1>3
<1>5. \A c \in 2..((N + k) - 1) :
         /\ c < N => fat'[c] = fat[c]
         /\ c >= N => fat'[c] = IF c = last THEN EOC ELSE c + 1
  BY <1>1, <1>4
<1>6. \A c \in 2..((N + k) - 1) : fat'[c] \in Int /\ (fat'[c] = c + 1 \/ fat'[c] = EOC)
  BY <1>1, <1>5
<1>7. N + k > 2 => fat'[(N + k) - 1] = EOC
  <2>1. CASE k = 0
    BY <1>1, <1>5, <2>1
  <2>2. CASE k # 0
    BY <1>1, <1>5, <2>2
  <2> QED
    BY <2>1, <2>2
<1>8. fat' \in [2..((N + k) - 1) -> Int]
  BY <1>4, <1>6
<1>9. Linked'
  <2>1. N + k \in Nat /\ N + k >= 2
    BY <1>1
  <2> QED
    BY <1>1, <1>2, <1>6, <1>7, <1>8, <2>1 DEF Linked
<1>10. k # 0 => /\ \A d \in N..(N + k - 2) : fat'[d] = d + 1
                /\ fat'[N + k - 1] = EOC
  BY <1>1, <1>5
<1>11. \A c \in 2..(N - 1) : fat'[c] = fat[c]
  BY <1>1, <1>5
<1> QED
  BY <1>1, <1>2, <1>9, <1>10, <1>11 DEF N

\* Runs stay when clusters are added behind them.
LEMMA RunStays ==
    ASSUME Linked, next_clus' \in Nat, next_clus <= next_clus',
           \A c \in ROOT_CLUS..(next_clus - 1) : fat'[c] = fat[c]
    PROVE  \A c, k : Run(c, k) => Run(c, k)'
<1> SUFFICES ASSUME NEW c, NEW k, Run(c, k) PROVE Run(c, k)'
  OBVIOUS
<1>1. /\ c \in Nat /\ k \in Nat \ {0} /\ c >= ROOT_CLUS /\ c + k <= next_clus
      /\ \A d \in c..(c + k - 2) : fat[d] = d + 1
      /\ fat[c + k - 1] = EOC
  BY DEF Run
<1>2. next_clus \in Nat /\ ROOT_CLUS = 2
  BY DEF Linked, ROOT_CLUS
<1>3. \A d \in c..(c + k - 1) : d \in ROOT_CLUS..(next_clus - 1)
  BY <1>1, <1>2
<1>4. \A d \in c..(c + k - 1) : fat'[d] = fat[d]
  BY <1>3
<1>5. \A d \in c..(c + k - 2) : fat'[d] = d + 1
  BY <1>1, <1>4
<1>6. c + k - 1 \in c..(c + k - 1)
  BY <1>1
<1>7. fat'[c + k - 1] = EOC
  BY <1>1, <1>4, <1>6
<1>8. c + k <= next_clus'
  BY <1>1, <1>2
<1> QED
  BY <1>1, <1>5, <1>7, <1>8 DEF Run

\* The sizes of directories and files, in clusters.
LEMMA NeedsAre ==
    ASSUME tree \in Trees, NEW n \in Nodes, NEW lay
    PROVE  /\ Needs(n, lay) \in Nat
           /\ n \in Dirs => Needs(n, lay) # 0
           /\ n \notin Dirs => (Needs(n, lay) = 0 <=> tree[n].size = 0)
           /\ \A other : (other.parent[n] = 0 <=> lay.parent[n] = 0) =>
                 Needs(n, other) = Needs(n, lay)
<1> DEFINE B == BYTES_PER_CLUSTER
<1>1. B \in Nat \ {0} /\ tree[n].size \in Nat /\ tree[n].dir \in BOOLEAN
  BY Sizes, TreeShape
<1> HIDE DEF B
<1>2. ASSUME NEW a \in Nat
      PROVE  Quotient(a, B) \in Nat /\ (Quotient(a, B) = 0 <=> a = 0)
  <2> DEFINE q == Quotient(a, B)
  <2>1. q \in Int /\ a <= B * q /\ B * q < a + B
    BY <1>1, QuotientCeil
  <2> HIDE DEF q
  <2>2. q >= 0
    <3> SUFFICES ASSUME q <= -1 PROVE FALSE
      BY <2>1
    <3>1. q * B <= -1 * B /\ q * B \in Int
      BY <1>1, <2>1, TimesMonotone
    <3>2. q * B = B * q
      BY <1>1, <2>1
    <3> QED
      BY <1>1, <2>1, <3>1, <3>2
  <2>3. q = 0 => a = 0
    BY <1>1, <2>1
  <2>4. a = 0 => q = 0
    <3> SUFFICES ASSUME a = 0, q >= 1 PROVE FALSE
      BY <2>1, <2>2
    <3>1. 1 * B <= q * B /\ q * B \in Int
      BY <1>1, <2>1, TimesMonotone
    <3>2. q * B = B * q
      BY <1>1, <2>1
    <3> QED
      BY <1>1, <2>1, <3>1, <3>2
  <2> QED
    BY <2>1, <2>2, <2>3, <2>4 DEF q
<1>3. ASSUME NEW other
      PROVE  /\ Len(build_dir_entries(n, other)) \in Nat \ {0}
             /\ Len(build_dir_entries(n, other)) = Len(Entries(n, other)) * DirEntryBytes + 1
  BY DirectoryBytes
<1>4. \A other : DirClusters(n, other) \in Nat \ {0}
  BY <1>2, <1>3 DEF DirClusters, B
<1>5. ASSUME NEW other, other.parent[n] = 0 <=> lay.parent[n] = 0
      PROVE  DirClusters(n, other) = DirClusters(n, lay)
  <2>1. Len(Entries(n, other)) = Len(Entries(n, lay))
    BY <1>5, EntriesAre
  <2>2. Len(build_dir_entries(n, other)) = Len(build_dir_entries(n, lay))
    BY <1>3, <2>1
  <2> QED
    BY <2>2 DEF DirClusters
<1> QED
  BY <1>1, <1>2, <1>4, <1>5 DEF Needs, Dirs, B

\* Min of two numbers.
LEMMA MinOfTwo ==
    ASSUME NEW x \in Int, NEW y \in Int
    PROVE  Min({x, y}) = IF x <= y THEN x ELSE y
<1> DEFINE m == IF x <= y THEN x ELSE y
<1>1. m \in {x, y} /\ \A z \in {x, y} : m <= z
  OBVIOUS
<1>2. \A n \in {x, y} : (\A z \in {x, y} : n <= z) => n = m
  OBVIOUS
<1> HIDE DEF m
<1>3. Min({x, y}) = m
  BY <1>1, <1>2 DEF Min
<1> QED
  BY <1>3 DEF m

\* A part of a sequence, from behind its place a to b.
LEMMA SubSeqIs ==
    ASSUME NEW S, NEW s \in Seq(S), NEW a \in Nat, NEW b \in Nat, a <= b, b <= Len(s)
    PROVE  /\ SubSeq(s, a + 1, b) \in Seq(S)
           /\ Len(SubSeq(s, a + 1, b)) = b - a
           /\ \A i \in 1..(b - a) : SubSeq(s, a + 1, b)[i] = s[a + i]
<1> DEFINE m == a + 1
           r == SubSeq(s, m, b)
<1>1. \A i \in (a + 1)..b : i \in 1..Len(s) /\ s[i] \in S
  BY ElementOfSeq
<1>2. m \in Int /\ b \in Int /\ \A i \in m..b : s[i] \in S
  BY <1>1
<1>3. b - m + 1 = b - a /\ (~ m <= b => b - a = 0) /\ \A i \in 1..(b - a) : m + i - 1 = a + i
  OBVIOUS
<1> HIDE DEF m
<1>4. /\ r \in Seq(S) /\ Len(r) = IF m <= b THEN b - m + 1 ELSE 0
      /\ \A i \in 1..(b - m + 1) : r[i] = s[m + i - 1]
  BY <1>2, SubSeqProperties
<1> HIDE DEF r
<1>5. /\ r \in Seq(S) /\ Len(r) = b - a /\ \A i \in 1..(b - a) : r[i] = s[a + i]
  BY <1>3, <1>4
<1> QED
  BY <1>5 DEF r, m

\* What is before the slice stays; what is in it and behind it, if there is
\* room for the slice.
LEMMA AssignIs ==
    ASSUME NEW S, data \in Seq(S), NEW bytes \in Seq(S), NEW cluster \in Nat,
           cluster >= ROOT_CLUS, NEW n \in Nat, Assign(cluster, n, bytes)
    PROVE  LET off == (cluster - ROOT_CLUS) * BYTES_PER_CLUSTER
               len == Len(bytes)
           IN  /\ data' \in Seq(S) /\ off \in Nat /\ len \in Nat
               /\ \A p \in 1..Len(data) : p <= off => p <= Len(data') /\ data'[p] = data[p]
               /\ off + n <= Len(data) =>
                     /\ Len(data') = Len(data) - n + len
                     /\ \A i \in 1..len : data'[off + i] = bytes[i]
                     /\ \A p \in (off + n + 1)..Len(data) :
                           data'[p - n + len] = data[p]
<1> DEFINE o == (cluster - ROOT_CLUS) * BYTES_PER_CLUSTER
           D == Len(data)
           off == IF o <= D THEN o ELSE D
           end == IF off + n <= D THEN off + n ELSE D
           front == SubSeq(data, 1, off)
           back == SubSeq(data, end + 1, D)
           len == Len(bytes)
<1>1. o \in Nat /\ D \in Nat /\ len \in Nat
  <2>1. cluster - ROOT_CLUS \in Nat
    BY DEF ROOT_CLUS
  <2> QED
    BY <2>1, Sizes, LenProperties
<1>2. data' = front \o bytes \o back
  <2> HIDE DEF o, D
  <2>1. Min({o, D}) = off
    BY <1>1, MinOfTwo
  <2> HIDE DEF off
  <2>2. off \in Int /\ off + n \in Int
    BY <1>1 DEF off
  <2>3. Min({off + n, D}) = end
    BY <1>1, <2>2, MinOfTwo
  <2> HIDE DEF end
  <2> QED
    BY <2>1, <2>3 DEF Assign, o, D
<1>3. off \in Nat /\ off <= D /\ end \in Nat /\ off <= end /\ end <= D
  <2> HIDE DEF o, D
  <2> QED
    BY <1>1
<1>4. /\ front \in Seq(S) /\ Len(front) = off
      /\ \A i \in 1..off : front[i] = data[i]
  <2> HIDE DEF off
  <2>1. 0 \in Nat /\ 0 <= off /\ off <= Len(data) /\ 0 + 1 = 1 /\ off - 0 = off
        /\ \A i \in 1..off : 0 + i = i
    BY <1>3
  <2>2. /\ SubSeq(data, 0 + 1, off) \in Seq(S) /\ Len(SubSeq(data, 0 + 1, off)) = off - 0
        /\ \A i \in 1..(off - 0) : SubSeq(data, 0 + 1, off)[i] = data[0 + i]
    BY <1>3, <2>1, SubSeqIs
  <2> QED
    BY <2>1, <2>2
<1>5. /\ back \in Seq(S) /\ Len(back) = D - end
      /\ \A i \in 1..(D - end) : back[i] = data[end + i]
  <2> HIDE DEF end
  <2> QED
    BY <1>1, <1>3, SubSeqIs
<1> HIDE DEF o, D, off, end, front, back
<1> DEFINE w == front \o bytes
<1>6. /\ w \in Seq(S) /\ Len(w) = off + len
      /\ \A i \in 1..(off + len) : w[i] = IF i <= off THEN front[i] ELSE bytes[i - off]
  BY <1>4, ConcatProperties
<1> HIDE DEF w
<1>7. /\ data' \in Seq(S) /\ Len(data') = (off + len) + (D - end)
      /\ \A i \in 1..((off + len) + (D - end)) :
            data'[i] = IF i <= off + len THEN w[i] ELSE back[i - (off + len)]
  <2>1. data' = w \o back
    BY <1>2 DEF w
  <2> QED
    BY <1>5, <1>6, <2>1, ConcatProperties
<1> HIDE DEF len
<1>8. ASSUME NEW p \in 1..D, p <= o
      PROVE  p <= Len(data') /\ data'[p] = data[p]
  <2>1. p \in 1..off
    BY <1>1, <1>8 DEF off
  <2>2. p \in 1..(off + len) /\ p <= off + len /\ p \in 1..((off + len) + (D - end))
    BY <1>1, <1>3, <2>1
  <2>3. data'[p] = w[p]
    BY <1>7, <2>2
  <2>4. w[p] = front[p]
    BY <1>6, <2>1, <2>2
  <2>5. p <= (off + len) + (D - end)
    BY <1>1, <1>3, <2>2
  <2> QED
    BY <1>4, <1>7, <2>1, <2>3, <2>4, <2>5
<1>9. ASSUME o + n <= D
      PROVE  /\ Len(data') = D - n + len
             /\ \A i \in 1..len : data'[o + i] = bytes[i]
             /\ \A p \in (o + n + 1)..D : data'[p - n + len] = data[p]
  <2>1. off = o /\ end = o + n
    BY <1>1, <1>9 DEF off, end
  <2>2. Len(data') = D - n + len
    BY <1>1, <1>7, <2>1
  <2>3. ASSUME NEW i \in 1..len PROVE data'[o + i] = bytes[i]
    <3>1. o + i \in 1..((off + len) + (D - end)) /\ o + i <= off + len
          /\ o + i \in 1..(off + len) /\ ~ o + i <= off /\ (o + i) - off = i
      BY <1>1, <1>3, <2>1
    <3> QED
      BY <1>6, <1>7, <3>1
  <2>4. ASSUME NEW p \in (o + n + 1)..D PROVE data'[p - n + len] = data[p]
    <3> DEFINE i == p - n + len
    <3>1. i \in 1..((off + len) + (D - end)) /\ ~ i <= off + len
          /\ i - (off + len) \in 1..(D - end) /\ end + (i - (off + len)) = p
      BY <1>1, <1>3, <2>1
    <3> HIDE DEF i
    <3>2. data'[i] = back[i - (off + len)]
      BY <1>7, <3>1
    <3>3. back[i - (off + len)] = data[p]
      BY <1>5, <3>1
    <3> QED
      BY <3>2, <3>3 DEF i
  <2> QED
    BY <2>2, <2>3, <2>4
<1> QED
  BY <1>1, <1>7, <1>8, <1>9 DEF o, D, len

\* A sequence over a set is one over a larger set.
LEMMA WiderSeq ==
    ASSUME NEW S, NEW T, S \subseteq T, NEW s \in Seq(S)
    PROVE  s \in Seq(T)
BY ElementOfSeq, SeqDef

\* The clusters counted are in the data region.
LEMMA Geometry ==
    ASSUME tot_sec \in Nat, clus_count >= 0
    PROVE  /\ clus_count \in Nat /\ DataBytes \in Nat
           /\ clus_count * BYTES_PER_CLUSTER <= DataBytes
<1> DEFINE x == tot_sec - RSVD_SEC_CNT - NUM_FATS * FatSec
           c == clus_count
<1>1. x \in Int /\ c \in Int /\ SEC_PER_CLUS * c <= x /\ c = x \div SEC_PER_CLUS
  <2>1. x \in Int
    <3>1. FatSec \in Nat
      BY FatFits DEF FatSec
    <3> HIDE DEF FatSec
    <3> QED
      BY <3>1, Sizes
  <2>2. c = x \div SEC_PER_CLUS
    BY DEF clus_count, ClustersWith
  <2> HIDE DEF x, c
  <2> QED
    BY <2>1, <2>2, Sizes, DivFloor
<1>2. DataBytes = x * SECTOR /\ BYTES_PER_CLUSTER = SECTOR * SEC_PER_CLUS /\ c >= 0
  BY DEF DataBytes, BYTES_PER_CLUSTER
<1> HIDE DEF x, c
<1>3. SEC_PER_CLUS * c \in Nat
  BY <1>1, <1>2, Sizes
<1>4. (SEC_PER_CLUS * c) * SECTOR <= x * SECTOR
  BY <1>1, <1>3, Sizes, TimesMonotone
<1>5. (SEC_PER_CLUS * c) * SECTOR = c * (SECTOR * SEC_PER_CLUS)
  BY <1>1, Sizes
<1>6. x \in Nat
  BY <1>1, <1>3
<1>7. x * SECTOR \in Nat
  BY <1>6, Sizes
<1> QED
  BY <1>1, <1>2, <1>4, <1>5, <1>7 DEF c

\* The invariant holds when create_image begins.
LEMMA FatStart == FatInit => FatInv
<1> SUFFICES ASSUME FatInit PROVE FatInv
  OBVIOUS
<1>1. /\ pc = "begin" /\ tree \in Trees /\ tot_sec \in Totals /\ todo = <<>>
      /\ Nodes = DOMAIN tree /\ fat = <<>> /\ next_clus = ROOT_CLUS /\ data = <<>>
      /\ host = [n \in Nodes |-> tree[n].size]
      /\ written = [n \in Nodes |-> 0]
      /\ layout = [first |-> [n \in Nodes |-> 0], parent |-> [n \in Nodes |-> 0],
                   dir_n |-> [n \in Nodes |-> 0]]
  BY DEF FatInit, Nodes
<1>2. Nodes = 1..Len(tree) /\ \A n \in Nodes : tree[n].size \in Nat
  BY <1>1, TreeShape
<1>3. host \in [Nodes -> Nat \union {Gone}] /\ written \in [Nodes -> Nat]
  BY <1>1, <1>2
<1>4. layout \in [first : [Nodes -> Nat], parent : [Nodes -> Nat], dir_n : [Nodes -> Nat]]
  BY <1>1
<1>5. /\ todo \in Seq(Nodes) /\ Increasing(todo) /\ data \in Seq({})
  BY <1>1 DEF Increasing
<1>6. FatTypeOK
  <2> HIDE DEF Nodes
  <2> QED
    BY <1>1, <1>3, <1>4, <1>5 DEF FatTypeOK
<1>7. Linked
  <2>1. fat \in [2..1 -> Int]
    <3>1. 2..1 = {} /\ DOMAIN fat = {}
      BY <1>1
    <3> QED
      BY <1>1, <3>1
  <2> QED
    BY <1>1, <2>1 DEF Linked, ROOT_CLUS
<1>8. \A n \in Nodes : layout.first[n] = 0 /\ layout.dir_n[n] = 0
  BY <1>1
<1>9. Runs
  BY <1>8 DEF Runs
<1>10. Progress /\ GivenUpForCause
  BY <1>1, <1>8 DEF Progress, Passes, GivenUpForCause
<1> QED
  BY <1>6, <1>7, <1>9, <1>10 DEF FatInv

\* What no action changes.
LEMMA FatFixed ==
    [FatNext]_fatVars => tree' = tree /\ tot_sec' = tot_sec
BY DEF FatNext, fatVars, ScanTree, LayoutNode, LayoutFails, WriteDirEntries, WriteFile,
       WriteFats, NextPass, HostChanges

\* The definitions that only look at the tree.
LEMMA TreeFixed ==
    ASSUME tree' = tree
    PROVE  /\ Nodes' = Nodes /\ Dirs' = Dirs
           /\ \A n : Children(n)' = Children(n)
           /\ \A n, lay : Needs(n, lay)' = Needs(n, lay)
<1>1. Nodes' = Nodes /\ Dirs' = Dirs
  BY DEF Nodes, Dirs
<1>2. \A n : Children(n)' = Children(n)
  BY <1>1 DEF Children, Ordered
<1>3. \A n : ShortNames(n)' = ShortNames(n)
  BY <1>1, <1>2 DEF ShortNames
<1>4. ASSUME NEW n, NEW lay PROVE Entries(n, lay)' = Entries(n, lay)
  BY <1>1, <1>2, <1>3 DEF Entries, ChildEntries, DotEntries, LfnEntries, SpelledOut
<1>5. \A n, lay : build_dir_entries(n, lay)' = build_dir_entries(n, lay)
  BY <1>4 DEF build_dir_entries
<1> QED
  BY <1>1, <1>2, <1>5 DEF Needs, DirClusters

\* Steps that leave the layout and the FAT.
LEMMA RunsFixed ==
    ASSUME Runs, tree' = tree, layout' = layout, fat' = fat, next_clus' = next_clus
    PROVE  Runs'
<1>1. Nodes' = Nodes /\ \A n, lay : Needs(n, lay)' = Needs(n, lay)
  BY TreeFixed
<1>2. \A c, k : Run(c, k) => Run(c, k)'
  BY DEF Run
<1>3. \A c, k : Run(c, k)' <=> Run(c, k)
  BY DEF Run
<1> QED
  BY <1>1, <1>3 DEF Runs, Run

\* The FAT stays linked when it is left alone.
LEMMA StillLinked ==
    ASSUME Linked, fat' = fat, next_clus' = next_clus
    PROVE  Linked'
BY DEF Linked

\* A step that leaves the tree, the layout and the list of nodes.
LEMMA TypeFixed ==
    ASSUME FatTypeOK, tree' = tree, tot_sec' = tot_sec, layout' = layout,
           todo' = todo, host' = host, written' = written, data' = data
    PROVE  FatTypeOK'
<1>1. Nodes' = Nodes
  BY TreeFixed
<1> QED
  BY <1>1 DEF FatTypeOK, Increasing

\* The size checked, or the image made: every node is still to be laid out.
LEMMA ScanTreeKeeps ==
    ASSUME FatInv, ScanTree
    PROVE  FatInv'
<1>1. /\ pc = "begin" /\ tree' = tree /\ tot_sec' = tot_sec /\ host' = host
      /\ layout' = layout /\ fat' = fat /\ next_clus' = next_clus /\ written' = written
  BY DEF ScanTree
<1>2. FatTypeOK /\ Linked /\ Runs /\ Progress
  BY DEF FatInv
<1>3. Linked' /\ Runs'
  BY <1>1, <1>2, RunsFixed, StillLinked
<1>4. Nodes' = Nodes /\ \A n, lay : Needs(n, lay)' = Needs(n, lay)
  BY <1>1, TreeFixed
<1>5. CASE clus_count < FAT32_MIN_CLUSTERS
  <2>1. pc' = "too small" /\ todo' = todo /\ data' = data
    BY <1>5 DEF ScanTree
  <2>2. FatTypeOK'
    BY <1>1, <1>2, <2>1, TypeFixed
  <2>3. Progress'
    BY <2>1 DEF Progress, Passes
  <2>4. GivenUpForCause'
    <3>1. (clus_count < FAT32_MIN_CLUSTERS)'
      BY <1>1, <1>5 DEF clus_count, FatSec
    <3> QED
      BY <2>1, <3>1 DEF GivenUpForCause
  <2> QED
    BY <1>3, <2>2, <2>3, <2>4 DEF FatInv
<1>6. CASE ~ (clus_count < FAT32_MIN_CLUSTERS)
  <2>1. pc' = "layout" /\ todo' = Ordered(Nodes) /\ data' = [i \in 1..DataBytes |-> NUL]
    BY <1>6 DEF ScanTree
  <2>2. Ordered(Nodes) \in Seq(Nodes) /\ Increasing(Ordered(Nodes)) /\ ToSet(Ordered(Nodes)) = Nodes
    <3>1. Len(tree) \in Nat /\ Nodes = 1..Len(tree)
      BY <1>2, TreeShape DEF FatTypeOK
    <3> QED
      BY <3>1, OrderedIs
  <2>3. data' \in Seq({NUL})
    <3>1. tot_sec \in Nat
      BY <1>2, FatAssumption DEF FatTypeOK
    <3>2. clus_count \in Int
      <4>1. FatSec \in Nat
        BY <3>1, FatFits DEF FatSec
      <4> QED
        BY <3>1, <4>1, SectorsNeededType DEF clus_count
    <3>3. FAT32_MIN_CLUSTERS \in Nat \ {0}
      BY FatAssumption
    <3>4. clus_count >= 0
      BY <1>6, <3>2, <3>3
    <3>5. DataBytes \in Nat
      BY <3>1, <3>4, Geometry
    <3> QED
      BY <2>1, <3>5
  <2>4. FatTypeOK'
    <3>1. todo' \in Seq(Nodes) /\ Increasing(todo)' /\ (todo \in Seq(Nodes))'
      BY <1>4, <2>1, <2>2 DEF Increasing
    <3> QED
      BY <1>1, <1>2, <1>4, <2>3, <3>1 DEF FatTypeOK
  <2>5. Progress'
    <3>1. \A n \in Nodes : layout.first[n] = 0
      BY <1>1, <1>2 DEF Progress
    <3>2. ToSet(todo)' = Nodes
      BY <2>1, <2>2
    <3>3. InOrder(Nodes)'
      BY <1>4, <3>2 DEF InOrder
    <3> QED
      BY <1>1, <1>4, <2>1, <3>1, <3>2, <3>3 DEF Progress, Passes
  <2>6. GivenUpForCause'
    BY <2>1 DEF GivenUpForCause
  <2> QED
    BY <1>3, <2>4, <2>5, <2>6 DEF FatInv
<1> QED
  BY <1>5, <1>6

\* build_dir_entries ends in an exception, at a name or at a size.
LEMMA LayoutFailsKeeps ==
    ASSUME FatInv, LayoutFails
    PROVE  FatInv'
<1> DEFINE n == Head(todo)
<1>1. /\ pc = "layout" /\ todo # <<>> /\ todo' = todo /\ tree' = tree
      /\ tot_sec' = tot_sec /\ host' = host /\ data' = data /\ written' = written
      /\ layout' = layout /\ fat' = fat /\ next_clus' = next_clus
  BY DEF LayoutFails
<1>2. FatTypeOK /\ Linked /\ Runs
  BY DEF FatInv
<1>3. Nodes' = Nodes /\ Dirs' = Dirs /\ \A m : Children(m)' = Children(m)
  BY <1>1, TreeFixed
<1>4. PICK i \in DOMAIN Children(n) :
          /\ ~ HasEntry(n, i)
          /\ pc' = IF ShortNames(n)[i] = None THEN "no short name" ELSE "size overflows"
  BY DEF LayoutFails
<1>5. /\ tree \in Trees /\ Children(n) \in Seq(Nodes)
      /\ DOMAIN Children(n) = 1..Len(Children(n)) /\ Children(n)[i] \in Nodes
      /\ \A m \in Nodes : tree[m].size \in Nat
      /\ FileSizeSpan \in Nat
  <2>1. tree \in Trees
    BY <1>2 DEF FatTypeOK
  <2>2. Children(n) \in Seq(Nodes) /\ DOMAIN Children(n) = 1..Len(Children(n))
    BY <2>1, ChildrenAre
  <2> QED
    BY <1>4, <2>1, <2>2, ChildrenAre, TreeShape, FatAssumption
<1>6. ASSUME ShortNames(n)[i] = None
      PROVE  GivenUpForCause'
  <2>1. None \in ToSet(ShortNames(n))
    <3>1. i \in DOMAIN ShortNames(n)
      <4>1. ShortNames(n) \in Seq(ShortForm) /\ Len(ShortNames(n)) = Len(Children(n))
        BY <1>5, ShortNamesType
      <4>2. DOMAIN ShortNames(n) = 1..Len(ShortNames(n))
        BY <4>1, LenProperties
      <4> QED
        BY <1>4, <1>5, <4>1, <4>2
    <3> QED
      BY <1>6, <3>1 DEF ToSet
  <2>2. Len(Children(n)) >= 10
    BY <1>5, <2>1, NamesRunOut
  <2>3. n \in Dirs
    <3>1. tree[Children(n)[i]].parent = n
      BY <1>4, <1>5, ChildOf
    <3>2. n \in Nodes
      BY <1>1, <1>2, HeadTailProperties DEF FatTypeOK
    <3> QED
      BY <1>5, <3>1, <3>2, ParentIsDir DEF Dirs
  <2> QED
    BY <1>1, <1>3, <1>4, <1>6, <2>2, <2>3 DEF GivenUpForCause
<1>7. ASSUME ShortNames(n)[i] # None
      PROVE  GivenUpForCause'
  <2>1. tree[Children(n)[i]].size >= FileSizeSpan
    <3>1. ~ (tree[Children(n)[i]].size < FileSizeSpan)
      BY <1>4, <1>7 DEF HasEntry
    <3>2. tree[Children(n)[i]].size \in Nat
      BY <1>5
    <3> QED
      BY <1>5, <3>1, <3>2
  <2>2. pc' = "size overflows"
    BY <1>4, <1>7
  <2> QED
    BY <1>1, <1>3, <1>5, <2>1, <2>2 DEF GivenUpForCause
<1>8. pc' \in {"no short name", "size overflows"}
  BY <1>4
<1>9. Progress'
  BY <1>8 DEF Progress, Passes
<1> QED
  BY <1>1, <1>2, <1>6, <1>7, <1>9, TypeFixed, RunsFixed, StillLinked DEF FatInv

\* layout_dir gives the next node its run behind all others.
LEMMA LayoutNodeKeeps ==
    ASSUME FatInv, LayoutNode
    PROVE  FatInv'
<1> DEFINE n == Head(todo)
           rest == Tail(todo)
           par == FirstClusterOf(tree[n].parent)
           lay == [layout EXCEPT !.parent[n] = par]
           k == Needs(n, lay)
<1>1. /\ pc = "layout" /\ todo # <<>> /\ todo' = rest /\ tree' = tree
      /\ tot_sec' = tot_sec /\ host' = host /\ data' = data /\ written' = written
  BY DEF LayoutNode
<1>2. FatTypeOK /\ Linked /\ Runs /\ Progress
  BY DEF FatInv
<1>3. /\ Nodes' = Nodes /\ Dirs' = Dirs /\ \A m : Children(m)' = Children(m)
      /\ \A m, l : Needs(m, l)' = Needs(m, l)
  BY <1>1, TreeFixed
<1>4. /\ tree \in Trees /\ Nodes = 1..Len(tree) /\ Len(tree) \in Nat
      /\ \A m \in Nodes : tree[m].parent \in 0..(m - 1) /\ tree[m].dir \in BOOLEAN
  BY <1>2, TreeShape DEF FatTypeOK
<1>5. /\ n \in Nodes /\ rest \in Seq(Nodes) /\ Increasing(rest)
      /\ n \in ToSet(todo) /\ ToSet(rest) = ToSet(todo) \ {n}
      /\ ToSet(todo) \subseteq Nodes
      /\ \A t \in ToSet(rest) : n < t
  <2>1. Nodes \in SUBSET Int
    BY <1>4
  <2> QED
    BY <1>1, <1>2, <2>1, FirstOf DEF FatTypeOK
<1>6. /\ layout = [first |-> layout.first, parent |-> layout.parent, dir_n |-> layout.dir_n]
      /\ layout.first \in [Nodes -> Nat] /\ layout.parent \in [Nodes -> Nat]
      /\ layout.dir_n \in [Nodes -> Nat]
  BY <1>2 DEF FatTypeOK
<1> HIDE DEF n, rest
<1>7. FatInv'
  <2>1. pc' = pc /\ alloc_run(n, k, [lay EXCEPT !.dir_n[n] = k])
    BY DEF LayoutNode, Needs, n
  <2>2. k \in Nat
    BY <1>4, <1>5, NeedsAre
  <2>3. par \in Nat
    <3> DEFINE p == tree[n].parent
    <3>1. p \in 0..(n - 1)
      BY <1>4, <1>5
    <3> HIDE DEF p
    <3>2. p = 0 \/ p \in Nodes
      BY <1>4, <1>5, <3>1
    <3>3. FirstClusterOf(p) \in Nat
      BY <1>6, <3>2 DEF FirstClusterOf
    <3> QED
      BY <3>3 DEF p
  <2>4. /\ lay.first = layout.first /\ lay.dir_n = layout.dir_n
        /\ lay.parent = [layout.parent EXCEPT ![n] = par]
        /\ lay = [first |-> lay.first, parent |-> lay.parent, dir_n |-> lay.dir_n]
    <3> HIDE DEF par
    <3> QED
      BY <1>6
  <2> HIDE DEF par, lay
  <2> DEFINE now == [lay EXCEPT !.dir_n[n] = k]
  <2>5. /\ now.first = layout.first /\ now.parent = lay.parent
        /\ now.dir_n = [layout.dir_n EXCEPT ![n] = k]
        /\ now = [first |-> now.first, parent |-> now.parent, dir_n |-> now.dir_n]
    <3> HIDE DEF k
    <3> QED
      BY <1>6, <2>4
  <2>6. alloc_run(n, k, now)
    BY <2>1
  <2> HIDE DEF k, now
  <2>7. layout' = IF k = 0 THEN now ELSE [now EXCEPT !.first[n] = next_clus]
    BY <2>6 DEF alloc_run
  <2>8. next_clus \in Nat /\ next_clus >= 2
    BY <1>2 DEF Linked, ROOT_CLUS
  <2>9. /\ layout'.first = IF k = 0 THEN layout.first
                           ELSE [layout.first EXCEPT ![n] = next_clus]
        /\ layout'.parent = lay.parent /\ layout'.dir_n = [layout.dir_n EXCEPT ![n] = k]
        /\ layout' = [first |-> layout'.first, parent |-> layout'.parent,
                      dir_n |-> layout'.dir_n]
    BY <1>6, <2>4, <2>5, <2>7
  <2>10. FatTypeOK'
    <3>1. (todo \in Seq(Nodes) /\ Increasing(todo))'
      BY <1>1, <1>3, <1>5 DEF Increasing
    <3>2. /\ layout'.first \in [Nodes -> Nat] /\ layout'.parent \in [Nodes -> Nat]
          /\ layout'.dir_n \in [Nodes -> Nat]
      BY <1>5, <1>6, <2>2, <2>3, <2>4, <2>8, <2>9
    <3>3. layout' \in [first : [Nodes -> Nat], parent : [Nodes -> Nat], dir_n : [Nodes -> Nat]]
      BY <2>9, <3>2
    <3> QED
      BY <1>1, <1>2, <1>3, <3>1, <3>3 DEF FatTypeOK
  <2>11. /\ Linked' /\ next_clus' = next_clus + k
         /\ \A c \in ROOT_CLUS..(next_clus - 1) : fat'[c] = fat[c]
         /\ k # 0 => /\ \A d \in next_clus..(next_clus + k - 2) : fat'[d] = d + 1
                     /\ fat'[next_clus + k - 1] = EOC
    BY <1>2, <2>2, <2>6, AllocIs
  <2>12. \A c, j : Run(c, j) => Run(c, j)'
    <3>1. next_clus' \in Nat /\ next_clus <= next_clus'
      BY <2>2, <2>8, <2>11
    <3> QED
      BY <1>2, <2>11, <3>1, RunStays
  <2>13. layout.first[n] = 0 /\ \A m \in Nodes : layout.first[m] # 0 => m \notin ToSet(todo) /\ m < n
    <3>1. \A m \in Nodes \ ToSet(todo) : m < n
      BY <1>1, <1>2, <1>5 DEF Progress, InOrder
    <3> QED
      BY <1>1, <1>2, <1>5, <3>1 DEF Progress
  <2>14. /\ layout'.dir_n[n] = k
         /\ layout'.first[n] = IF k = 0 THEN 0 ELSE next_clus
         /\ \A m \in Nodes : m # n => layout'.first[m] = layout.first[m]
                                      /\ layout'.dir_n[m] = layout.dir_n[m]
                                      /\ layout'.parent[m] = layout.parent[m]
         /\ layout'.parent[n] = lay.parent[n]
    BY <1>5, <1>6, <2>4, <2>9, <2>13
  <2>15. \A m \in Nodes : m # n => Needs(m, layout') = Needs(m, layout)
    <3> SUFFICES ASSUME NEW m \in Nodes, m # n PROVE Needs(m, layout') = Needs(m, layout)
      OBVIOUS
    <3>1. layout'.parent[m] = 0 <=> layout.parent[m] = 0
      BY <2>14
    <3>2. \A a, b : (b.parent[m] = 0 <=> a.parent[m] = 0) => Needs(m, b) = Needs(m, a)
      BY <1>4, NeedsAre
    <3> QED
      BY <3>1, <3>2
  <2>16. Needs(n, layout') = k
    <3>1. layout'.parent[n] = 0 <=> lay.parent[n] = 0
      BY <2>14
    <3>2. \A a, b : (b.parent[n] = 0 <=> a.parent[n] = 0) => Needs(n, b) = Needs(n, a)
      BY <1>4, <1>5, NeedsAre
    <3> QED
      BY <3>1, <3>2 DEF k
  <2>17. \A m \in Nodes : Needs(m, layout)' = Needs(m, layout')
    BY <1>3
  <2>18. Runs'
    <3> SUFFICES ASSUME NEW m \in Nodes
                 PROVE  /\ layout'.first[m] = 0 => layout'.dir_n[m] = 0
                        /\ layout'.first[m] # 0 =>
                              /\ layout'.dir_n[m] = Needs(m, layout')
                              /\ Run(layout.first[m], layout.dir_n[m])'
                              /\ \A i \in Nodes : i < m /\ layout'.first[i] # 0 =>
                                    layout'.first[i] + layout'.dir_n[i] <= layout'.first[m]
      BY <1>3, <2>17 DEF Runs
    <3>1. CASE m = n
      <4>1. CASE k = 0
        BY <2>14, <3>1, <4>1
      <4>2. CASE k # 0
        <5>1. layout'.first[m] = next_clus /\ layout'.dir_n[m] = k /\ k = Needs(m, layout')
              /\ layout'.first[m] # 0
          BY <2>8, <2>14, <2>16, <3>1, <4>2
        <5>2. Run(layout.first[m], layout.dir_n[m])'
          BY <2>2, <2>8, <2>11, <4>2, <5>1 DEF Run, ROOT_CLUS
        <5>3. ASSUME NEW i \in Nodes, i < m, layout'.first[i] # 0
              PROVE  layout'.first[i] + layout'.dir_n[i] <= layout'.first[m]
          <6>1. i # n /\ layout'.first[i] = layout.first[i] /\ layout'.dir_n[i] = layout.dir_n[i]
            BY <1>4, <2>14, <3>1, <5>3
          <6>2. Run(layout.first[i], layout.dir_n[i])
            BY <1>2, <5>3, <6>1 DEF Runs
          <6> QED
            BY <5>1, <6>1, <6>2 DEF Run
        <5> QED
          BY <5>1, <5>2, <5>3
      <4> QED
        BY <4>1, <4>2
    <3>2. CASE m # n
      <4>1. layout'.first[m] = layout.first[m] /\ layout'.dir_n[m] = layout.dir_n[m]
            /\ Needs(m, layout') = Needs(m, layout)
        BY <2>14, <2>15, <3>2
      <4>2. layout.first[m] = 0 => layout.dir_n[m] = 0
        BY <1>2 DEF Runs
      <4>3. ASSUME layout.first[m] # 0
            PROVE  /\ layout.dir_n[m] = Needs(m, layout)
                   /\ Run(layout.first[m], layout.dir_n[m])
                   /\ m < n
                   /\ \A i \in Nodes : i < m /\ layout.first[i] # 0 =>
                         layout.first[i] + layout.dir_n[i] <= layout.first[m]
        BY <1>2, <2>13, <4>3 DEF Runs
      <4>4. ASSUME layout.first[m] # 0
            PROVE  Run(layout.first[m], layout.dir_n[m])'
        <5>1. Run(layout.first[m], layout.dir_n[m])
          BY <4>3, <4>4
        <5> QED
          BY <2>12, <4>1, <5>1 DEF Run
      <4>5. ASSUME layout.first[m] # 0, NEW i \in Nodes, i < m, layout'.first[i] # 0
            PROVE  layout'.first[i] + layout'.dir_n[i] <= layout'.first[m]
        <5>1. i # n
          BY <1>4, <1>5, <4>3, <4>5
        <5> QED
          BY <2>14, <4>1, <4>3, <4>5, <5>1
      <4> QED
        BY <4>1, <4>2, <4>3, <4>4, <4>5
    <3> QED
      BY <3>1, <3>2
  <2>19. Progress'
    <3>1. \A m \in ToSet(rest) : layout'.first[m] = 0
      BY <1>1, <1>2, <1>5, <2>14 DEF Progress
    <3>2. \A m \in Nodes \ ToSet(rest) : layout'.dir_n[m] = Needs(m, layout')
      BY <1>1, <1>2, <1>5, <2>14, <2>15, <2>16 DEF Progress
    <3>3. \A m \in Nodes \ ToSet(rest), t \in ToSet(rest) : m < t
      BY <1>1, <1>2, <1>5 DEF Progress, InOrder
    <3> QED
      BY <1>1, <1>3, <1>5, <2>1, <2>17, <3>1, <3>2, <3>3 DEF Progress, Passes, InOrder
  <2>20. GivenUpForCause'
    BY <1>1, <2>1 DEF GivenUpForCause
  <2> QED
    BY <2>10, <2>11, <2>18, <2>19, <2>20 DEF FatInv
<1> QED
  BY <1>7

\* The first of the list, and the rest of it.
LEMMA HeadOfTodo ==
    ASSUME FatTypeOK, todo # <<>>
    PROVE  /\ Head(todo) \in Nodes /\ Head(todo) \in ToSet(todo)
           /\ Tail(todo) \in Seq(Nodes) /\ Increasing(Tail(todo))
           /\ ToSet(Tail(todo)) = ToSet(todo) \ {Head(todo)}
           /\ ToSet(todo) \subseteq Nodes
           /\ \A t \in ToSet(Tail(todo)) : Head(todo) < t
<1>1. Nodes \in SUBSET Int
  BY TreeShape DEF FatTypeOK
<1> QED
  BY <1>1, FirstOf DEF FatTypeOK

\* A file's bytes.
LEMMA FileBytes ==
    ASSUME NEW what, NEW k \in Nat
    PROVE  /\ Bytes(what, k) \in Seq({Byte(what, j) : j \in 1..k})
           /\ Len(Bytes(what, k)) = k
           /\ \A i \in 1..k : Bytes(what, k)[i] = Byte(what, i)
<1> DEFINE b == Bytes(what, k)
           b0(i) == Byte(what, i)
<1>1. b = [i \in 1..k |-> b0(i)]
  BY DEF Bytes
<1> HIDE DEF b, b0
<1>2. /\ b \in Seq({b0(j) : j \in 1..k}) /\ Len(b) = k /\ \A i \in 1..k : b[i] = b0(i)
  BY <1>1
<1> QED
  BY <1>2 DEF b, b0

\* The run of a directory, or of a file that has one.
LEMMA HasRun ==
    ASSUME FatTypeOK, Linked, Runs, NEW n \in Nodes,
           layout.first[n] # 0 \/ (n \in Dirs /\ layout.dir_n[n] = Needs(n, layout))
    PROVE  /\ layout.first[n] # 0 /\ layout.first[n] \in Nat /\ layout.first[n] >= ROOT_CLUS
           /\ layout.dir_n[n] \in Nat \ {0} /\ layout.dir_n[n] = Needs(n, layout)
           /\ layout.first[n] + layout.dir_n[n] <= next_clus
           /\ Run(layout.first[n], layout.dir_n[n])
<1>1. layout.first[n] # 0
  <2>1. n \in Dirs => Needs(n, layout) # 0
    BY NeedsAre DEF FatTypeOK
  <2> QED
    BY <2>1 DEF Runs
<1> QED
  BY <1>1 DEF Runs, Run, ROOT_CLUS

\* The second pass counts a directory's clusters as the first did.
LEMMA WriteDirEntriesKeeps ==
    ASSUME FatInv, WriteDirEntries
    PROVE  FatInv'
<1> DEFINE n == Head(todo)
<1>1. /\ pc = "dirs" /\ todo # <<>> /\ todo' = Tail(todo) /\ tree' = tree
      /\ tot_sec' = tot_sec /\ host' = host /\ written' = written
      /\ layout' = layout /\ fat' = fat /\ next_clus' = next_clus
  BY DEF WriteDirEntries
<1>2. FatTypeOK /\ Linked /\ Runs /\ Progress
  BY DEF FatInv
<1>3. Linked' /\ Runs'
  BY <1>1, <1>2, RunsFixed, StillLinked
<1>4. /\ Nodes' = Nodes /\ Dirs' = Dirs /\ \A m, l : Needs(m, l)' = Needs(m, l)
  BY <1>1, TreeFixed
<1>5. /\ n \in Nodes /\ n \in ToSet(todo) /\ n \in Dirs
      /\ Tail(todo) \in Seq(Nodes) /\ Increasing(Tail(todo))
      /\ ToSet(Tail(todo)) = ToSet(todo) \ {n}
      /\ \A t \in ToSet(Tail(todo)) : n < t
  BY <1>1, <1>2, HeadOfTodo DEF Progress
<1>6. tree \in Trees /\ layout.dir_n[n] = Needs(n, layout)
  BY <1>1, <1>2, <1>5 DEF FatTypeOK, Progress, Passes
<1>7. DirClusters(n, layout) = layout.dir_n[n]
  BY <1>5, <1>6 DEF Needs, Dirs
<1> HIDE DEF n
<1>8. /\ pc' = pc
      /\ Assign(layout.first[n], layout.dir_n[n] * BYTES_PER_CLUSTER, build_dir_entries(n, layout))
  BY <1>7 DEF WriteDirEntries, n
<1>9. \E S : data' \in Seq(S)
  <2>1. PICK S : data \in Seq(S)
    BY <1>2 DEF FatTypeOK
  <2> DEFINE T == ByteOf(n, layout)
             bytes == build_dir_entries(n, layout)
             size == layout.dir_n[n] * BYTES_PER_CLUSTER
  <2>2. bytes \in Seq(T)
    BY <1>6, DirectoryBytes
  <2> HIDE DEF T, bytes
  <2>3. data \in Seq(S \union T) /\ bytes \in Seq(S \union T)
    BY <2>1, <2>2, WiderSeq
  <2>4. /\ layout.first[n] \in Nat /\ layout.first[n] >= ROOT_CLUS /\ layout.dir_n[n] \in Nat
    BY <1>2, <1>5, <1>6, HasRun
  <2>5. size \in Nat
    BY <2>4, Sizes
  <2> HIDE DEF size
  <2>6. Assign(layout.first[n], size, bytes)
    BY <1>8 DEF bytes, size
  <2>7. data' \in Seq(S \union T)
    BY <2>3, <2>4, <2>5, <2>6, AssignIs
  <2> QED
    BY <2>7
<1>10. FatTypeOK'
  <2>1. (todo \in Seq(Nodes) /\ Increasing(todo))'
    BY <1>1, <1>4, <1>5 DEF Increasing
  <2> QED
    BY <1>1, <1>2, <1>4, <1>9, <2>1 DEF FatTypeOK
<1>11. Progress'
  <2>1. ToSet(todo)' = ToSet(todo) \ {n}
    BY <1>1, <1>5
  <2>2. InOrder(Dirs)'
    <3>1. \A m \in Dirs \ (ToSet(todo) \ {n}), t \in ToSet(todo) \ {n} : m < t
      BY <1>1, <1>2, <1>5 DEF Progress, InOrder
    <3> QED
      BY <1>4, <2>1, <3>1 DEF InOrder
  <2> QED
    BY <1>1, <1>2, <1>4, <1>8, <2>1, <2>2 DEF Progress, Passes
<1>12. GivenUpForCause'
  BY <1>1, <1>8 DEF GivenUpForCause
<1> QED
  BY <1>3, <1>10, <1>11, <1>12 DEF FatInv

\* A file that has gone is a cause to give up; one that has not is written.
LEMMA WriteFileKeeps ==
    ASSUME FatInv, WriteFile
    PROVE  FatInv'
<1> DEFINE n == Head(todo)
<1>1. /\ pc = "files" /\ todo # <<>> /\ todo' = Tail(todo) /\ tree' = tree
      /\ tot_sec' = tot_sec /\ host' = host
      /\ layout' = layout /\ fat' = fat /\ next_clus' = next_clus
  BY DEF WriteFile
<1>2. FatTypeOK /\ Linked /\ Runs /\ Progress
  BY DEF FatInv
<1>3. Linked' /\ Runs'
  BY <1>1, <1>2, RunsFixed, StillLinked
<1>4. /\ Nodes' = Nodes /\ Dirs' = Dirs /\ \A m, l : Needs(m, l)' = Needs(m, l)
  BY <1>1, TreeFixed
<1>5. /\ n \in Nodes /\ n \in ToSet(todo) /\ n \in Files
      /\ Tail(todo) \in Seq(Nodes) /\ Increasing(Tail(todo))
      /\ ToSet(Tail(todo)) = ToSet(todo) \ {n}
      /\ \A t \in ToSet(Tail(todo)) : n < t
  BY <1>1, <1>2, HeadOfTodo DEF Progress
<1>6. ToSet(todo)' = ToSet(todo) \ {n} /\ Files' = Files
  BY <1>1, <1>4, <1>5 DEF Files
<1> HIDE DEF n
<1>7. (todo \in Seq(Nodes) /\ Increasing(todo))'
  BY <1>1, <1>4, <1>5 DEF Increasing
<1>8. InOrder(Files)'
  <2>1. \A m \in Files \ (ToSet(todo) \ {n}), t \in ToSet(todo) \ {n} : m < t
    BY <1>1, <1>2, <1>5 DEF Progress, InOrder
  <2> QED
    BY <1>6, <2>1 DEF InOrder
<1>9. CASE host[n] = Gone
  <2>1. pc' = "no file" /\ data' = data /\ written' = written
    BY <1>9 DEF WriteFile, n
  <2>2. FatTypeOK'
    BY <1>1, <1>2, <1>4, <1>7, <2>1 DEF FatTypeOK
  <2>3. Progress'
    BY <1>1, <1>2, <1>4, <2>1 DEF Progress, Passes
  <2>4. GivenUpForCause'
    BY <1>1, <1>4, <1>5, <1>9, <2>1 DEF GivenUpForCause
  <2> QED
    BY <1>3, <2>2, <2>3, <2>4 DEF FatInv
<1>10. CASE host[n] # Gone
  <2>1. /\ pc' = pc /\ written' = [written EXCEPT ![n] = host[n]]
        /\ Assign(layout.first[n], tree[n].size, Bytes(<<"file", n>>, host[n]))
    BY <1>10 DEF WriteFile, n
  <2>2. host[n] \in Nat /\ tree[n].size \in Nat
    <3>1. host[n] \in Nat \union {Gone} /\ tree \in Trees
      BY <1>2, <1>5 DEF FatTypeOK
    <3> QED
      BY <1>5, <1>10, <3>1, TreeShape
  <2>3. \E S : data' \in Seq(S)
    <3>1. PICK S : data \in Seq(S)
      BY <1>2 DEF FatTypeOK
    <3> DEFINE bytes == Bytes(<<"file", n>>, host[n])
               T == {Byte(<<"file", n>>, j) : j \in 1..host[n]}
    <3>2. bytes \in Seq(T)
      BY <2>2, FileBytes
    <3> HIDE DEF T, bytes
    <3>3. data \in Seq(S \union T) /\ bytes \in Seq(S \union T)
      BY <3>1, <3>2, WiderSeq
    <3>4. /\ layout.first[n] \in Nat /\ layout.first[n] >= ROOT_CLUS
      BY <1>2, <1>5, HasRun DEF Files
    <3>5. Assign(layout.first[n], tree[n].size, bytes)
      BY <2>1 DEF bytes
    <3>6. data' \in Seq(S \union T)
      BY <2>2, <3>3, <3>4, <3>5, AssignIs
    <3> QED
      BY <3>6
  <2>4. written' \in [Nodes -> Nat]
    BY <1>2, <1>5, <2>1, <2>2 DEF FatTypeOK
  <2>5. FatTypeOK'
    BY <1>1, <1>2, <1>4, <1>7, <2>3, <2>4 DEF FatTypeOK
  <2>6. Progress'
    BY <1>1, <1>2, <1>4, <1>6, <1>8, <2>1 DEF Progress, Passes
  <2>7. GivenUpForCause'
    BY <1>1, <2>1 DEF GivenUpForCause
  <2> QED
    BY <1>3, <2>5, <2>6, <2>7 DEF FatInv
<1> QED
  BY <1>9, <1>10

\* FATs that overflow do so for clusters the data region does not have.
LEMMA WriteFatsKeeps ==
    ASSUME FatInv, WriteFats
    PROVE  FatInv'
<1>1. /\ pc = "fats" /\ todo' = todo /\ tree' = tree
      /\ tot_sec' = tot_sec /\ host' = host /\ written' = written /\ data' = data
      /\ layout' = layout /\ fat' = fat /\ next_clus' = next_clus
      /\ pc' = IF next_clus * FatEntryBytes <= FatSec * SECTOR THEN "written" ELSE "fat full"
  BY DEF WriteFats
<1>2. FatTypeOK /\ Linked /\ Runs /\ Progress
  BY DEF FatInv
<1>3. Linked' /\ Runs' /\ FatTypeOK'
  BY <1>1, <1>2, RunsFixed, StillLinked, TypeFixed
<1>4. Nodes' = Nodes /\ \A m, l : Needs(m, l)' = Needs(m, l)
  BY <1>1, TreeFixed
<1>5. Progress'
  BY <1>1, <1>2, <1>4 DEF Progress, Passes
<1>6. GivenUpForCause'
  <2>1. CASE next_clus * FatEntryBytes <= FatSec * SECTOR
    BY <1>1, <2>1 DEF GivenUpForCause
  <2>2. CASE ~ (next_clus * FatEntryBytes <= FatSec * SECTOR)
    <3>1. tot_sec \in Nat /\ next_clus \in Int
      BY <1>2, FatAssumption DEF FatTypeOK, Linked
    <3> DEFINE a == next_clus * FatEntryBytes
               b == FatSec * SECTOR
    <3>2. a \in Int /\ b \in Int
      <4>1. FatSec \in Nat
        BY <3>1, FatFits DEF FatSec
      <4> QED
        BY <3>1, <4>1, Sizes
    <3>3. ~ (a <= b)
      BY <2>2
    <3> HIDE DEF a, b
    <3>4. a > b
      BY <3>2, <3>3
    <3>5. next_clus * FatEntryBytes > fat_sz_for(tot_sec) * SECTOR
      BY <3>4 DEF a, b, FatSec
    <3>6. Used > clus_count
      BY <3>1, <3>5, FatFullMeansMore DEF Used, clus_count, FatSec
    <3>7. (Used > clus_count)'
      BY <1>1, <3>6 DEF Used, clus_count, FatSec
    <3> QED
      BY <1>1, <2>2, <3>7 DEF GivenUpForCause
  <2> QED
    BY <2>1, <2>2
<1> QED
  BY <1>3, <1>5, <1>6 DEF FatInv

\* A pass ends with every node of it visited, and the next has its list.
LEMMA NextPassKeeps ==
    ASSUME FatInv, NextPass
    PROVE  FatInv'
<1>1. /\ pc \in {"layout", "dirs", "files"} /\ todo = <<>> /\ tree' = tree
      /\ tot_sec' = tot_sec /\ host' = host /\ written' = written /\ data' = data
      /\ layout' = layout /\ fat' = fat /\ next_clus' = next_clus
      /\ \/ pc = "layout" /\ pc' = "dirs" /\ todo' = Ordered(Dirs)
         \/ /\ pc = "dirs" /\ pc' = "files" /\ todo' = Ordered(Files)
         \/ pc = "files" /\ pc' = "fats" /\ todo' = todo
  BY DEF NextPass, Files
<1>2. FatTypeOK /\ Linked /\ Runs /\ Progress
  BY DEF FatInv
<1>3. Linked' /\ Runs'
  BY <1>1, <1>2, RunsFixed, StillLinked
<1>4. /\ Nodes' = Nodes /\ Dirs' = Dirs /\ \A m, l : Needs(m, l)' = Needs(m, l)
  BY <1>1, TreeFixed
<1>5. ASSUME NEW S \in SUBSET Nodes
      PROVE  Ordered(S) \in Seq(Nodes) /\ Increasing(Ordered(S)) /\ ToSet(Ordered(S)) = S
  <2>1. Len(tree) \in Nat /\ Nodes = 1..Len(tree)
    BY <1>2, TreeShape DEF FatTypeOK
  <2> QED
    BY <2>1, OrderedIs, WiderSeq
<1>6. ToSet(<<>>) = {}
  BY DEF ToSet
<1>7. todo' \in Seq(Nodes) /\ Increasing(todo')
      /\ (pc' = "dirs" => ToSet(todo') = Dirs) /\ (pc' = "files" => ToSet(todo') = Files)
  BY <1>1, <1>2, <1>5 DEF Dirs, Files, FatTypeOK
<1>8. FatTypeOK'
  <2>1. (todo \in Seq(Nodes) /\ Increasing(todo))'
    BY <1>4, <1>7 DEF Increasing
  <2> QED
    BY <1>1, <1>2, <1>4, <2>1 DEF FatTypeOK
<1>9. \A n \in Nodes : layout.dir_n[n] = Needs(n, layout)
  BY <1>1, <1>2, <1>6 DEF Progress, Passes
<1>10. Progress'
  <2>1. Files' = Files /\ ToSet(todo)' = ToSet(todo')
    BY <1>1, <1>4 DEF Files
  <2> QED
    BY <1>1, <1>4, <1>7, <1>9, <2>1 DEF Progress, Passes, InOrder
<1>11. GivenUpForCause'
  BY <1>1 DEF GivenUpForCause
<1> QED
  BY <1>3, <1>8, <1>10, <1>11 DEF FatInv

\* What happens on the host leaves the layout alone.
LEMMA HostChangesKeeps ==
    ASSUME FatInv, HostChanges
    PROVE  FatInv'
<1>1. /\ pc \in {"layout", "dirs", "files"} /\ pc' = pc /\ todo' = todo /\ tree' = tree
      /\ tot_sec' = tot_sec /\ written' = written /\ data' = data
      /\ layout' = layout /\ fat' = fat /\ next_clus' = next_clus
  BY DEF HostChanges
<1>2. FatTypeOK /\ Linked /\ Runs /\ Progress
  BY DEF FatInv
<1>3. Linked' /\ Runs'
  BY <1>1, <1>2, RunsFixed, StillLinked
<1>4. /\ Nodes' = Nodes /\ Dirs' = Dirs /\ \A m, l : Needs(m, l)' = Needs(m, l)
  BY <1>1, TreeFixed
<1>5. host' \in [Nodes -> Nat \union {Gone}]
  <2>1. PICK n \in Nodes \ Dirs, size \in FileSizes \union {Gone} : host' = [host EXCEPT ![n] = size]
    BY DEF HostChanges
  <2>2. size \in Nat \union {Gone}
    BY FatAssumption
  <2> QED
    BY <1>2, <2>1, <2>2 DEF FatTypeOK
<1>6. FatTypeOK'
  BY <1>1, <1>2, <1>4, <1>5 DEF FatTypeOK, Increasing
<1>7. Progress'
  BY <1>1, <1>2, <1>4 DEF Progress, Passes, InOrder, Files
<1>8. GivenUpForCause'
  BY <1>1 DEF GivenUpForCause
<1> QED
  BY <1>3, <1>6, <1>7, <1>8 DEF FatInv

\* Every step keeps the invariant.
LEMMA FatInvStep == FatInv /\ [FatNext]_fatVars => FatInv'
<1> SUFFICES ASSUME FatInv, [FatNext]_fatVars PROVE FatInv'
  OBVIOUS
<1>1. CASE ScanTree
  BY <1>1, ScanTreeKeeps
<1>2. CASE LayoutNode
  BY <1>2, LayoutNodeKeeps
<1>3. CASE LayoutFails
  BY <1>3, LayoutFailsKeeps
<1>4. CASE WriteDirEntries
  BY <1>4, WriteDirEntriesKeeps
<1>5. CASE WriteFile
  BY <1>5, WriteFileKeeps
<1>6. CASE WriteFats
  BY <1>6, WriteFatsKeeps
<1>7. CASE NextPass
  BY <1>7, NextPassKeeps
<1>8. CASE HostChanges
  BY <1>8, HostChangesKeeps
<1>9. CASE UNCHANGED fatVars
  <2>1. /\ pc' = pc /\ todo' = todo /\ tree' = tree /\ host' = host
        /\ tot_sec' = tot_sec /\ written' = written /\ data' = data
        /\ layout' = layout /\ fat' = fat /\ next_clus' = next_clus
    BY <1>9 DEF fatVars
  <2>2. FatTypeOK /\ Linked /\ Runs /\ Progress /\ GivenUpForCause
    BY DEF FatInv
  <2>3. FatTypeOK' /\ Linked' /\ Runs'
    BY <2>1, <2>2, TypeFixed, StillLinked, RunsFixed
  <2>4. /\ Nodes' = Nodes /\ Dirs' = Dirs /\ \A m, l : Needs(m, l)' = Needs(m, l)
        /\ \A m : Children(m)' = Children(m)
    BY <2>1, TreeFixed
  <2>5. Progress'
    BY <2>1, <2>2, <2>4 DEF Progress, InOrder, Files
  <2>6. clus_count' = clus_count /\ Used' = Used
    BY <2>1 DEF clus_count, FatSec, Used
  <2>7. GivenUpForCause'
    BY <2>1, <2>2, <2>4, <2>6 DEF GivenUpForCause
  <2> QED
    BY <2>3, <2>5, <2>7 DEF FatInv
<1> QED
  BY <1>1, <1>2, <1>3, <1>4, <1>5, <1>6, <1>7, <1>8, <1>9 DEF FatNext

\* The invariant of create_image, for every tree, size and change of a file.
THEOREM FatInvariance == FatSpec => []FatInv
<1>1. FatInit => FatInv
  BY FatStart
<1>2. FatInv /\ [FatNext]_fatVars => FatInv'
  BY FatInvStep
<1> QED
  BY <1>1, <1>2, PTL DEF FatSpec

\* The image is given up only for a cause.
THEOREM GivenUp == FatSpec => []GivenUpForCause
<1>1. FatInv => GivenUpForCause
  BY DEF FatInv
<1> QED
  BY <1>1, FatInvariance, PTL

\* The chains are those of the nodes laid out, no cluster in two of them.
LEMMA RunsApart ==
    ASSUME FatInv
    PROVE  ChainsApart
<1>1. FatTypeOK /\ Linked /\ Runs
  BY DEF FatInv
<1>2. Len(data) \in Nat
  BY <1>1, LenProperties DEF FatTypeOK
<1>3. next_clus >= ROOT_CLUS /\ DOMAIN fat = ROOT_CLUS..(next_clus - 1)
  BY <1>1 DEF Linked
<1>4. ASSUME next_clus <= EndMark, NEW n \in Nodes, layout.first[n] # 0
      PROVE  /\ Len(Chain(layout.first[n])) = Needs(n, layout)
             /\ ToSet(Chain(layout.first[n])) =
                   layout.first[n]..(layout.first[n] + layout.dir_n[n] - 1)
             /\ layout.first[n] \in Nat /\ layout.dir_n[n] \in Nat
  <2> DEFINE first == layout.first[n]
             k == layout.dir_n[n]
  <2>1. Run(first, k) /\ k = Needs(n, layout) /\ first \in Int /\ first \in Nat /\ k \in Nat
    BY <1>1, <1>4, HasRun
  <2> HIDE DEF first, k
  <2>2. Chain(first) = Numbers(first, k)
    BY <1>1, <1>4, <2>1, ChainIs
  <2>3. Len(Numbers(first, k)) = k /\ ToSet(Numbers(first, k)) = first..(first + k - 1)
    BY <2>1, NumbersAre
  <2>4. Len(Chain(first)) = Needs(n, layout) /\ ToSet(Chain(first)) = first..(first + k - 1)
    BY <2>1, <2>2, <2>3
  <2> QED
    BY <2>1, <2>4 DEF first, k
<1>5. ASSUME NEW n \in Nodes
      PROVE  Needs(n, layout) = Quotient(IF tree[n].dir THEN Len(build_dir_entries(n, layout))
                                         ELSE tree[n].size, BYTES_PER_CLUSTER)
  BY DEF Needs, DirClusters
<1>6. ASSUME next_clus <= EndMark, NEW m \in Nodes, NEW n \in Nodes, m < n,
             layout.first[m] # 0, layout.first[n] # 0
      PROVE  ToSet(Chain(layout.first[n])) \intersect ToSet(Chain(layout.first[m])) = {}
  <2>1. layout.first[m] + layout.dir_n[m] <= layout.first[n]
    BY <1>1, <1>6 DEF Runs
  <2> DEFINE a == layout.first[m]
             b == layout.dir_n[m]
             c == layout.first[n]
             d == layout.dir_n[n]
  <2>2. /\ a \in Nat /\ b \in Nat /\ c \in Nat /\ d \in Nat
        /\ ToSet(Chain(a)) = a..(a + b - 1) /\ ToSet(Chain(c)) = c..(c + d - 1)
    BY <1>4, <1>6
  <2>3. a + b <= c
    BY <2>1
  <2> HIDE DEF a, b, c, d
  <2>4. ToSet(Chain(c)) \intersect ToSet(Chain(a)) = {}
    BY <2>2, <2>3
  <2> QED
    BY <2>4 DEF a, c
<1>7. \A m, n \in Nodes : m # n => m < n \/ n < m
  BY <1>1, TreeShape DEF FatTypeOK
<1>8. ASSUME next_clus <= EndMark, NEW n \in Nodes, NEW m \in Nodes \ {n},
             layout.first[m] # 0, layout.first[n] # 0
      PROVE  ToSet(Chain(layout.first[n])) \intersect ToSet(Chain(layout.first[m])) = {}
  <2>1. CASE m < n
    BY <1>6, <1>8, <2>1
  <2>2. CASE n < m
    <3>1. ToSet(Chain(layout.first[m])) \intersect ToSet(Chain(layout.first[n])) = {}
      BY <1>6, <1>8, <2>2
    <3> QED
      BY <3>1
  <2> QED
    BY <1>7, <1>8, <2>1, <2>2
<1> QED
  BY <1>2, <1>3, <1>4, <1>5, <1>8 DEF ChainsApart

\* The chains of the FAT are those of the nodes laid out, each as long as its
\* node needs, and no cluster is in two of them (alloc_run, layout_dir).
THEOREM NodesChained == FatSpec => []ChainsApart
BY FatInvariance, RunsApart, PTL

-----------------------------------------------------------------------------
(* What is written is in its place *)

\* What a node's content and its place are taken from.
LEMMA ContentFixed ==
    ASSUME tree' = tree, layout' = layout, tot_sec' = tot_sec, next_clus' = next_clus
    PROVE  /\ \A n : Content(n)' = Content(n) /\ Place(n)' = Place(n)
           /\ Files' = Files /\ (Room' <=> Room) /\ DataBytes' = DataBytes /\ Used' = Used
<1>1. Nodes' = Nodes /\ Dirs' = Dirs /\ \A n : Children(n)' = Children(n)
  BY TreeFixed
<1>2. \A n : ShortNames(n)' = ShortNames(n)
  BY <1>1 DEF ShortNames
<1>3. ASSUME NEW n, NEW lay PROVE Entries(n, lay)' = Entries(n, lay)
  BY <1>1, <1>2 DEF Entries, ChildEntries, DotEntries, LfnEntries, SpelledOut
<1>4. \A n, lay : build_dir_entries(n, lay)' = build_dir_entries(n, lay)
  BY <1>3 DEF build_dir_entries
<1>5. \A n : Content(n)' = Content(n)
  BY <1>4 DEF Content
<1>6. \A n : Place(n)' = Place(n)
  BY DEF Place
<1>7. FatSec' = FatSec /\ Used' = Used
  BY DEF FatSec, Used
<1>8. DataBytes' = DataBytes /\ clus_count' = clus_count
  BY <1>7 DEF DataBytes, clus_count
<1>9. Files' = Files /\ (Room' <=> Room)
  BY <1>1, <1>7, <1>8 DEF Files, Room
<1> QED
  BY <1>5, <1>6, <1>7, <1>8, <1>9

\* A node's content is within its clusters, and those of earlier nodes are
\* before them.
LEMMA Regions ==
    ASSUME FatInv, NEW n \in Nodes, layout.first[n] # 0
    PROVE  LET k == layout.dir_n[n]
               B == BYTES_PER_CLUSTER
               len == Len(Content(n))
           IN  /\ Place(n) \in Nat /\ len \in Nat /\ k * B \in Nat
               /\ len <= k * B /\ k * B < len + B
               /\ Place(n) + k * B <= Used * B /\ Used * B \in Nat
               /\ \A m \in Nodes : m < n /\ layout.first[m] # 0 =>
                     Place(m) + layout.dir_n[m] * B <= Place(n)
<1> DEFINE first == layout.first[n]
           k == layout.dir_n[n]
           B == BYTES_PER_CLUSTER
           len == Len(Content(n))
           N == next_clus
<1>1. FatTypeOK /\ Linked /\ Runs
  BY DEF FatInv
<1>2. /\ first \in Nat /\ first >= 2 /\ k \in Nat \ {0} /\ k = Needs(n, layout)
      /\ first + k <= N /\ N \in Nat
  BY <1>1, HasRun DEF ROOT_CLUS, Linked
<1>3. len \in Nat /\ k = Quotient(len, B)
  <2>1. tree \in Trees /\ tree[n].size \in Nat
    BY <1>1, TreeShape DEF FatTypeOK
  <2>2. CASE tree[n].dir
    <3>1. Content(n) = build_dir_entries(n, layout)
      BY <2>2 DEF Content
    <3>2. len \in Nat
      BY <2>1, <3>1, DirectoryBytes
    <3> QED
      BY <1>2, <2>2, <3>1, <3>2 DEF Needs, DirClusters
  <2>3. CASE ~ tree[n].dir
    <3>1. len = tree[n].size
      BY <2>1, <2>3, FileBytes DEF Content
    <3> QED
      BY <1>2, <2>1, <2>3, <3>1 DEF Needs
  <2> QED
    BY <2>2, <2>3
<1>4. B \in Nat \ {0}
  BY Sizes
<1>5. len <= B * k /\ B * k < len + B
  <2> HIDE DEF B, k, len
  <2> QED
    BY <1>3, <1>4, QuotientCeil
<1>6. Place(n) = (first - 2) * B /\ Used = N - 2
  BY DEF Place, Used, ROOT_CLUS
<1>7. ASSUME NEW m \in Nodes, m < n, layout.first[m] # 0
      PROVE  Place(m) + layout.dir_n[m] * B <= Place(n)
  <2> DEFINE a == layout.first[m]
             j == layout.dir_n[m]
  <2>1. a \in Nat /\ a >= 2 /\ j \in Nat /\ a + j <= first
    BY <1>1, <1>7, HasRun DEF ROOT_CLUS, Runs
  <2>2. Place(m) = (a - 2) * B
    BY DEF Place, ROOT_CLUS
  <2> HIDE DEF a, j, first, B
  <2>3. ((a - 2) + j) * B <= (first - 2) * B
    BY <1>2, <1>4, <2>1, TimesMonotone
  <2>4. ((a - 2) + j) * B = (a - 2) * B + j * B
    BY <1>4, <2>1
  <2>5. Place(m) + j * B <= Place(n)
    BY <1>6, <2>2, <2>3, <2>4
  <2> QED
    BY <2>5 DEF j, B
<1> HIDE DEF first, k, B, len, N
<1>8. B * k = k * B /\ k * B \in Nat /\ (first - 2) * B \in Nat /\ (N - 2) * B \in Nat
  <2>1. first - 2 \in Nat /\ N - 2 \in Nat
    BY <1>2
  <2> QED
    BY <1>2, <1>4, <2>1
<1>9. (first - 2) * B + k * B <= (N - 2) * B
  <2>1. ((first - 2) + k) * B <= (N - 2) * B
    BY <1>2, <1>4, TimesMonotone
  <2>2. ((first - 2) + k) * B = (first - 2) * B + k * B
    BY <1>2, <1>4
  <2> QED
    BY <2>1, <2>2
<1>10. /\ Place(n) \in Nat /\ len \in Nat /\ k * B \in Nat
       /\ len <= k * B /\ k * B < len + B
       /\ Place(n) + k * B <= Used * B /\ Used * B \in Nat
  BY <1>3, <1>5, <1>6, <1>8, <1>9
<1> QED
  BY <1>7, <1>10 DEF k, B, len

\* What is before a slice stays in its place.
LEMMA PlacedBefore ==
    ASSUME NEW m, Placed(m), Place(m) \in Nat, Len(Content(m)) \in Nat,
           Content(m)' = Content(m), Place(m)' = Place(m),
           Len(data) \in Nat, Len(data') \in Nat,
           NEW off \in Nat, Place(m) + Len(Content(m)) <= off,
           \A p \in 1..Len(data) : p <= off => p <= Len(data') /\ data'[p] = data[p]
    PROVE  Placed(m)'
<1> DEFINE a == Place(m)
           c == Content(m)
           len == Len(c)
<1>1. /\ a \in Nat /\ len \in Nat /\ a + len <= Len(data) /\ a + len <= off
      /\ \A i \in 1..len : data[a + i] = c[i]
  BY DEF Placed
<1> HIDE DEF a, c, len
<1>2. a + len <= Len(data')
  <2>1. a + len = 0 \/ a + len \in 1..Len(data)
    BY <1>1
  <2> QED
    BY <1>1, <2>1
<1>3. ASSUME NEW i \in 1..len PROVE data'[a + i] = c[i]
  <2>1. a + i \in 1..Len(data) /\ a + i <= off
    BY <1>1
  <2> QED
    BY <1>1, <2>1
<1> QED
  BY <1>2, <1>3 DEF Placed, a, c, len

\* What is behind a slice filled with as much as it held does too.
LEMMA PlacedBehind ==
    ASSUME NEW m, Placed(m), Place(m) \in Nat, Len(Content(m)) \in Nat,
           Content(m)' = Content(m), Place(m)' = Place(m),
           Len(data) \in Nat, Len(data') = Len(data),
           NEW end \in Nat, end <= Place(m),
           \A p \in (end + 1)..Len(data) : data'[p] = data[p]
    PROVE  Placed(m)'
<1> DEFINE a == Place(m)
           c == Content(m)
           len == Len(c)
<1>1. /\ a \in Nat /\ len \in Nat /\ a + len <= Len(data) /\ end <= a
      /\ \A i \in 1..len : data[a + i] = c[i]
  BY DEF Placed
<1> HIDE DEF a, c, len
<1>2. ASSUME NEW i \in 1..len PROVE data'[a + i] = c[i]
  <2>1. a + i \in (end + 1)..Len(data)
    BY <1>1
  <2> QED
    BY <1>1, <2>1
<1> QED
  BY <1>1, <1>2 DEF Placed, a, c, len

\* The bytes of a node's content.
LEMMA ContentIs ==
    ASSUME FatTypeOK, NEW n \in Nodes
    PROVE  /\ Len(Content(n)) \in Nat
           /\ \E S : Content(n) \in Seq(S)
           /\ ~ tree[n].dir => Len(Content(n)) = tree[n].size /\ tree[n].size \in Nat
<1>1. tree \in Trees /\ tree[n].size \in Nat
  BY TreeShape DEF FatTypeOK
<1>2. CASE tree[n].dir
  <2>1. Content(n) = build_dir_entries(n, layout)
    BY <1>2 DEF Content
  <2>2. Content(n) \in Seq(ByteOf(n, layout)) /\ Len(Content(n)) \in Nat
    BY <1>1, <2>1, DirectoryBytes
  <2> QED
    BY <1>2, <2>2
<1>3. CASE ~ tree[n].dir
  <2> DEFINE T == {Byte(<<"file", n>>, j) : j \in 1..tree[n].size}
  <2>1. Content(n) = Bytes(<<"file", n>>, tree[n].size)
    BY <1>3 DEF Content
  <2>2. Content(n) \in Seq(T) /\ Len(Content(n)) = tree[n].size
    BY <1>1, <2>1, FileBytes
  <2> HIDE DEF T
  <2> QED
    BY <1>1, <2>2
<1> QED
  BY <1>2, <1>3

\* There are finitely many directories.
LEMMA DirsAreFinite ==
    ASSUME FatTypeOK
    PROVE  IsFiniteSet(Dirs) /\ Cardinality(Dirs) \in Nat
<1>1. Len(tree) \in Nat /\ Nodes = 1..Len(tree)
  BY TreeShape DEF FatTypeOK
<1>2. IsFiniteSet(Nodes) /\ Dirs \subseteq Nodes
  BY <1>1, FS_Interval DEF Dirs
<1> QED
  BY <1>2, FS_Subset, FS_CardinalityType

\* Enough room for every directory's missing end is room for every cluster.
LEMMA RoomFor ==
    ASSUME FatTypeOK, Linked, Room, NEW s \in Int, NEW j \in Nat,
           j <= Cardinality(Dirs), s + j * BYTES_PER_CLUSTER >= DataBytes
    PROVE  Used * BYTES_PER_CLUSTER <= s
<1> DEFINE B == BYTES_PER_CLUSTER
           d == Cardinality(Dirs)
           c == clus_count
<1>1. d \in Nat
  BY DirsAreFinite
<1>2. Used \in Nat /\ B \in Nat /\ Used + d <= c
  BY Sizes DEF Linked, Used, Room, ROOT_CLUS
<1>3. tot_sec \in Nat
  BY FatAssumption DEF FatTypeOK
<1>4. c \in Int
  <2>1. FatSec \in Nat
    BY <1>3, FatFits DEF FatSec
  <2> QED
    BY <1>3, <2>1, SectorsNeededType DEF clus_count
<1>5. c >= 0
  <2> HIDE DEF c, d
  <2> QED
    BY <1>1, <1>2, <1>4
<1>6. c * B <= DataBytes /\ DataBytes \in Nat
  BY <1>3, <1>5, Geometry
<1> HIDE DEF B, d, c
<1>7. (Used + j) * B <= c * B /\ (Used + j) * B \in Int /\ c * B \in Int
  <2> DEFINE x == Used + j
  <2>1. x \in Int /\ x <= c
    <3>1. j <= d
      BY DEF d
    <3> QED
      BY <1>1, <1>2, <1>4, <3>1
  <2> HIDE DEF x
  <2>2. x * B <= c * B /\ x * B \in Int /\ c * B \in Int
    BY <1>2, <1>4, <2>1, TimesMonotone
  <2> QED
    BY <2>2 DEF x
<1>8. (Used + j) * B = Used * B + j * B /\ Used * B \in Int /\ j * B \in Int
  BY <1>2
<1>9. s + j * B >= DataBytes /\ j <= d
  BY DEF B, d
<1> HIDE DEF Used
<1>10. Used * B <= s
  BY <1>6, <1>7, <1>8, <1>9
<1> QED
  BY <1>10 DEF B

\* A directory is put in its place, those before it stay in theirs, and the
\* image loses less than a cluster.
LEMMA WriteDirEntriesPlaces ==
    ASSUME FatInv, FatInv', DataInv, WriteDirEntries
    PROVE  DataInv'
<1>0. PICK n \in Nodes : n = Head(todo)
  BY HeadOfTodo DEF FatInv, WriteDirEntries
<1> DEFINE B == BYTES_PER_CLUSTER
           off == Place(n)
           size == layout.dir_n[n] * B
           bytes == Content(n)
           len == Len(bytes)
           D == Len(data)
           j == Cardinality(Dirs \ ToSet(todo))
<1>1. /\ pc = "dirs" /\ todo # <<>> /\ todo' = Tail(todo) /\ tree' = tree
      /\ tot_sec' = tot_sec
      /\ layout' = layout /\ fat' = fat /\ next_clus' = next_clus
  BY DEF WriteDirEntries
<1>2. FatTypeOK /\ Linked /\ Runs /\ Progress /\ FatTypeOK'
  BY DEF FatInv
<1>3. /\ Nodes' = Nodes /\ Dirs' = Dirs
  BY <1>1, TreeFixed
<1>4. /\ \A m : Content(m)' = Content(m) /\ Place(m)' = Place(m)
      /\ (Room' <=> Room) /\ DataBytes' = DataBytes
  BY <1>1, ContentFixed
<1>5. /\ n \in Nodes /\ n \in ToSet(todo) /\ n \in Dirs /\ tree[n].dir
      /\ ToSet(todo') = ToSet(todo) \ {n}
  BY <1>0, <1>1, <1>2, HeadOfTodo DEF Progress, Dirs
<1>6. layout.dir_n[n] = Needs(n, layout)
  BY <1>1, <1>2, <1>5 DEF Progress, Passes
<1>7. layout.first[n] # 0 /\ layout.first[n] \in Nat /\ layout.first[n] >= ROOT_CLUS
  BY <1>2, <1>5, <1>6, HasRun
<1>8. pc' = "dirs" /\ Assign(layout.first[n], size, bytes)
  BY <1>0, <1>1, <1>5, <1>6 DEF WriteDirEntries, Needs, Content
<1>9. /\ off \in Nat /\ len \in Nat /\ size \in Nat /\ len <= size /\ size < len + B
      /\ off + size <= Used * B /\ Used * B \in Nat
      /\ \A m \in Nodes : m < n /\ layout.first[m] # 0 =>
            Place(m) + layout.dir_n[m] * B <= off
  BY <1>5, <1>7, Regions
<1>10. D \in Nat /\ Len(data') \in Nat
  BY <1>2, LenProperties DEF FatTypeOK
<1>11. /\ \A p \in 1..D : p <= off => p <= Len(data') /\ data'[p] = data[p]
       /\ off + size <= D =>
             /\ Len(data') = D - size + len
             /\ \A i \in 1..len : data'[off + i] = bytes[i]
  <2>1. PICK S : data \in Seq(S)
    BY <1>2 DEF FatTypeOK
  <2>2. PICK T : bytes \in Seq(T)
    BY <1>2, <1>5, ContentIs
  <2> HIDE DEF bytes, size
  <2>3. data \in Seq(S \union T) /\ bytes \in Seq(S \union T)
    BY <2>1, <2>2, WiderSeq
  <2> DEFINE f == layout.first[n]
  <2>4. f \in Nat /\ f >= ROOT_CLUS /\ Assign(f, size, bytes)
        /\ off = (f - ROOT_CLUS) * BYTES_PER_CLUSTER /\ size \in Nat
    BY <1>7, <1>8, <1>9 DEF Place, bytes, size
  <2> HIDE DEF f, off
  <2> QED
    BY <2>3, <2>4, AssignIs
<1>12. B \in Nat \ {0} /\ Used \in Nat
  BY <1>2, Sizes DEF Linked, Used, ROOT_CLUS
<1>13. SUFFICES ASSUME Room
                PROVE  /\ Len(data') + Cardinality(Dirs \ ToSet(todo')) * B >= DataBytes
                       /\ \A m \in Dirs \ ToSet(todo') : Placed(m)'
  BY <1>3, <1>4, <1>8 DEF DataInv
<1>14. D + j * B >= DataBytes /\ \A m \in Dirs \ ToSet(todo) : Placed(m)
  BY <1>1, <1>13 DEF DataInv
<1>15. /\ j \in Nat /\ j <= Cardinality(Dirs)
       /\ Cardinality(Dirs \ ToSet(todo')) = j + 1
  <2>1. IsFiniteSet(Dirs) /\ Cardinality(Dirs) \in Nat
    BY <1>2, DirsAreFinite
  <2> DEFINE T == Dirs \ ToSet(todo)
  <2>2. T \subseteq Dirs /\ n \notin T /\ Dirs \ ToSet(todo') = T \union {n}
    BY <1>5
  <2> HIDE DEF T
  <2>3. IsFiniteSet(T) /\ Cardinality(T) <= Cardinality(Dirs) /\ Cardinality(T) \in Nat
    BY <2>1, <2>2, FS_Subset, FS_CardinalityType
  <2>4. Cardinality(T \union {n}) = Cardinality(T) + 1
    BY <2>2, <2>3, FS_AddElement
  <2> QED
    BY <2>2, <2>3, <2>4 DEF T
<1> HIDE DEF j
<1>16. off + size <= D
  <2>1. Used * B <= D
    BY <1>2, <1>10, <1>13, <1>14, <1>15, RoomFor
  <2> HIDE DEF off, size, D, B
  <2> QED
    BY <1>9, <1>10, <2>1
<1>17. Len(data') = D - size + len /\ \A i \in 1..len : data'[off + i] = bytes[i]
  BY <1>11, <1>16
<1>18. Len(data') + (j + 1) * B >= DataBytes
  <2>1. DataBytes \in Int
    <3>1. tot_sec \in Nat
      BY <1>2, FatAssumption DEF FatTypeOK
    <3>2. FatSec \in Nat
      BY <3>1, FatFits DEF FatSec
    <3> QED
      BY <3>1, <3>2, Sizes DEF DataBytes
  <2> HIDE DEF size, len, D, B
  <2>2. (j + 1) * B = j * B + B /\ j * B \in Int
    BY <1>12, <1>15
  <2> QED
    BY <1>9, <1>10, <1>12, <1>14, <1>17, <2>1, <2>2
<1>19. Placed(n)'
  <2>1. Place(n)' = off /\ Content(n)' = bytes
    BY <1>4
  <2> HIDE DEF off, bytes, size
  <2>2. off + len <= Len(data')
    <3> HIDE DEF D, len
    <3> QED
      BY <1>9, <1>10, <1>16, <1>17
  <2> QED
    BY <1>17, <2>1, <2>2 DEF Placed
<1>20. ASSUME NEW m \in Dirs \ ToSet(todo), Placed(m)
       PROVE  Placed(m)'
  <2>1. m \in Nodes /\ m < n
    BY <1>1, <1>2, <1>5, <1>20 DEF Progress, InOrder, Dirs
  <2>2. layout.dir_n[m] = Needs(m, layout)
    BY <1>1, <1>2, <2>1 DEF Progress, Passes
  <2>3. layout.first[m] # 0
    BY <1>2, <1>20, <2>1, <2>2, HasRun
  <2>4. /\ Place(m) \in Nat /\ Len(Content(m)) \in Nat
        /\ Len(Content(m)) <= layout.dir_n[m] * B /\ layout.dir_n[m] * B \in Nat
    BY <2>1, <2>3, Regions
  <2>5. Place(m) + Len(Content(m)) <= off
    <3>1. Place(m) + layout.dir_n[m] * B <= off
      BY <1>9, <2>1, <2>3
    <3> HIDE DEF off
    <3> QED
      BY <1>9, <2>4, <3>1
  <2>6. Content(m)' = Content(m) /\ Place(m)' = Place(m)
    BY <1>4
  <2> HIDE DEF off
  <2> QED
    BY <1>9, <1>10, <1>11, <1>20, <2>4, <2>5, <2>6, PlacedBefore
<1>21. \A m \in Dirs \ ToSet(todo') : m = n \/ m \in Dirs \ ToSet(todo)
  BY <1>5
<1> QED
  <2>1. Len(data') + Cardinality(Dirs \ ToSet(todo')) * B >= DataBytes
    BY <1>15, <1>18
  <2>2. ASSUME NEW m \in Dirs \ ToSet(todo') PROVE Placed(m)'
    <3>1. CASE m = n
      BY <1>19, <3>1
    <3>2. CASE m # n
      BY <1>14, <1>20, <1>21, <3>2
    <3> QED
      BY <3>1, <3>2
  <2> QED
    BY <2>1, <2>2

\* A file of the size that was scanned is put in its place and moves nothing;
\* one of another size leaves what is before it.
LEMMA WriteFilePlaces ==
    ASSUME FatInv, FatInv', DataInv, WriteFile
    PROVE  DataInv'
<1>0. PICK n \in Nodes : n = Head(todo)
  BY HeadOfTodo DEF FatInv, WriteFile
<1> DEFINE B == BYTES_PER_CLUSTER
           off == Place(n)
           size == tree[n].size
           now == Bytes(<<"file", n>>, host[n])
           len == host[n]
           D == Len(data)
           k == layout.dir_n[n]
<1>1. /\ pc = "files" /\ todo # <<>> /\ todo' = Tail(todo) /\ tree' = tree
      /\ tot_sec' = tot_sec
      /\ layout' = layout /\ fat' = fat /\ next_clus' = next_clus
  BY DEF WriteFile
<1>2. FatTypeOK /\ Linked /\ Runs /\ Progress /\ FatTypeOK'
  BY DEF FatInv
<1>3. /\ Nodes' = Nodes /\ Dirs' = Dirs
  BY <1>1, TreeFixed
<1>4. /\ \A m : Content(m)' = Content(m) /\ Place(m)' = Place(m)
      /\ (Room' <=> Room) /\ Files' = Files /\ Used' = Used
  BY <1>1, ContentFixed
<1>5. /\ n \in ToSet(todo) /\ n \in Files /\ n \notin Dirs
      /\ ToSet(todo') = ToSet(todo) \ {n}
  BY <1>0, <1>1, <1>2, HeadOfTodo DEF Progress, Files
<1>6. SUFFICES ASSUME Room, host[n] # Gone
               PROVE  /\ Bad' = {} => Used * B <= Len(data')
                      /\ \A m \in Dirs \union (Files \ ToSet(todo')) :
                            (\A f \in Bad' : m < f) => Placed(m)'
  <2>1. host[n] = Gone => pc' = "no file"
    BY <1>0 DEF WriteFile
  <2>2. host[n] # Gone => pc' = "files"
    BY <1>0, <1>1 DEF WriteFile
  <2> QED
    BY <1>3, <1>4, <2>1, <2>2 DEF DataInv
<1>7. /\ written' = [written EXCEPT ![n] = len]
      /\ Assign(layout.first[n], size, now)
  BY <1>0, <1>6 DEF WriteFile
<1>8. layout.first[n] # 0 /\ layout.first[n] \in Nat /\ layout.first[n] >= ROOT_CLUS
  BY <1>2, <1>5, HasRun DEF Files
<1>9. /\ off \in Nat /\ size \in Nat /\ k * B \in Nat /\ size <= k * B
      /\ off + k * B <= Used * B /\ Used * B \in Nat
      /\ \A m \in Nodes : m < n /\ layout.first[m] # 0 =>
            Place(m) + layout.dir_n[m] * B <= off
      /\ Content(n) = Bytes(<<"file", n>>, size)
      /\ len \in Nat
  <2>1. ~ tree[n].dir /\ Len(Content(n)) = size /\ size \in Nat
    BY <1>2, <1>5, ContentIs DEF Dirs
  <2>2. host[n] \in Nat
    BY <1>2, <1>6 DEF FatTypeOK
  <2>3. Content(n) = Bytes(<<"file", n>>, size)
    BY <2>1 DEF Content
  <2> QED
    BY <1>5, <1>8, <2>1, <2>2, <2>3, Regions
<1>10. D \in Nat /\ Len(data') \in Nat
  BY <1>2, LenProperties DEF FatTypeOK
<1>11. Len(now) = len /\ \A i \in 1..len : now[i] = Byte(<<"file", n>>, i)
  BY <1>9, FileBytes
<1>12. /\ \A p \in 1..D : p <= off => p <= Len(data') /\ data'[p] = data[p]
       /\ off + size <= D =>
             /\ Len(data') = D - size + len
             /\ \A i \in 1..len : data'[off + i] = now[i]
             /\ \A p \in (off + size + 1)..D : data'[p - size + len] = data[p]
  <2>1. PICK S : data \in Seq(S)
    BY <1>2 DEF FatTypeOK
  <2> DEFINE T == {Byte(<<"file", n>>, i) : i \in 1..len}
             f == layout.first[n]
  <2>2. now \in Seq(T)
    BY <1>9, FileBytes
  <2> HIDE DEF T
  <2>3. data \in Seq(S \union T) /\ now \in Seq(S \union T)
    <3> HIDE DEF now
    <3> QED
      BY <2>1, <2>2, WiderSeq
  <2>4. f \in Nat /\ f >= ROOT_CLUS /\ Assign(f, size, now)
        /\ off = (f - ROOT_CLUS) * BYTES_PER_CLUSTER /\ size \in Nat
    BY <1>7, <1>8, <1>9 DEF Place
  <2>5. Len(now) = len
    BY <1>11
  <2> DEFINE l == Len(now)
  <2> HIDE DEF f, off, now, size, len
  <2>6. /\ \A p \in 1..D : p <= off => p <= Len(data') /\ data'[p] = data[p]
        /\ off + size <= D =>
              /\ Len(data') = D - size + l
              /\ \A i \in 1..l : data'[off + i] = now[i]
              /\ \A p \in (off + size + 1)..D : data'[p - size + l] = data[p]
    <3> DEFINE o == (f - ROOT_CLUS) * BYTES_PER_CLUSTER
    <3>1. /\ \A p \in 1..Len(data) : p <= o => p <= Len(data') /\ data'[p] = data[p]
          /\ o + size <= Len(data) =>
                /\ Len(data') = Len(data) - size + Len(now)
                /\ \A i \in 1..Len(now) : data'[o + i] = now[i]
                /\ \A p \in (o + size + 1)..Len(data) :
                      data'[p - size + Len(now)] = data[p]
      BY <2>3, <2>4, AssignIs, SMTT(30)
    <3>2. o = off
      BY <2>4
    <3> HIDE DEF o
    <3> QED
      BY <3>1, <3>2 DEF l
  <2>7. l = len
    BY <2>5
  <2> HIDE DEF l, D
  <2> QED
    BY <2>6, <2>7
<1>13. Bad' = IF len = size THEN Bad ELSE Bad \union {n}
  <2>1. Files \ (ToSet(todo) \ {n}) = (Files \ ToSet(todo)) \union {n}
    BY <1>5
  <2>2. written'[n] = len /\ \A f \in Nodes : f # n => written'[f] = written[f]
    BY <1>2, <1>7 DEF FatTypeOK
  <2>3. Bad' = {f \in (Files \ ToSet(todo)) \union {n} : written'[f] # tree[f].size}
    BY <1>1, <1>4, <1>5, <2>1 DEF Bad
  <2>4. \A f \in Files \ ToSet(todo) : f # n /\ f \in Nodes
    BY <1>5 DEF Files
  <2>5. Bad = {f \in Files \ ToSet(todo) : written'[f] # tree[f].size}
    BY <2>2, <2>4 DEF Bad
  <2> QED
    BY <2>2, <2>3, <2>5
<1>14. /\ Bad = {} => Used * B <= D
       /\ \A m \in Dirs \union (Files \ ToSet(todo)) :
             (\A f \in Bad : m < f) => Placed(m)
  BY <1>1, <1>6 DEF DataInv
<1>15. \A f \in Bad : f < n /\ f \in Nodes
  BY <1>1, <1>2, <1>5 DEF Bad, Progress, InOrder, Files
<1>16. ASSUME NEW m \in Dirs \union (Files \ ToSet(todo))
       PROVE  /\ m \in Nodes /\ m # n /\ layout.first[m] # 0 /\ m \in Int /\ n \in Int
              /\ Place(m) \in Nat /\ Len(Content(m)) \in Nat
              /\ m < n => Place(m) + Len(Content(m)) <= off
              /\ n < m => off + size <= Place(m)
  <2>1. m \in Nodes /\ m # n
    BY <1>5 DEF Dirs, Files
  <2>2. layout.dir_n[m] = Needs(m, layout)
    BY <1>1, <1>2, <2>1 DEF Progress, Passes
  <2>3. layout.first[m] # 0
    BY <1>2, <2>1, <2>2, HasRun DEF Files
  <2>4. /\ Place(m) \in Nat /\ Len(Content(m)) \in Nat
        /\ Len(Content(m)) <= layout.dir_n[m] * B /\ layout.dir_n[m] * B \in Nat
    BY <2>1, <2>3, Regions
  <2>5. ASSUME m < n PROVE Place(m) + Len(Content(m)) <= off
    <3>1. Place(m) + layout.dir_n[m] * B <= off
      BY <1>9, <2>1, <2>3, <2>5
    <3> HIDE DEF off
    <3> QED
      BY <1>9, <2>4, <3>1
  <2>6. ASSUME n < m PROVE off + size <= Place(m)
    <3>1. off + k * B <= Place(m)
      BY <1>8, <2>1, <2>3, <2>6, Regions
    <3> DEFINE kB == k * B
    <3> HIDE DEF off, size, kB
    <3> QED
      BY <1>9, <2>4, <3>1 DEF kB
  <2>7. m \in Int /\ n \in Int
    BY <1>2, <2>1, TreeShape DEF FatTypeOK
  <2> QED
    BY <2>1, <2>3, <2>4, <2>5, <2>6, <2>7
<1>17. ASSUME NEW m \in Dirs \union (Files \ ToSet(todo)), m < n, Placed(m)
       PROVE  Placed(m)'
  <2>1. Content(m)' = Content(m) /\ Place(m)' = Place(m)
    BY <1>4
  <2>2. /\ Place(m) \in Nat /\ Len(Content(m)) \in Nat
        /\ Place(m) + Len(Content(m)) <= off
    BY <1>16, <1>17
  <2> HIDE DEF off
  <2> QED
    BY <1>9, <1>10, <1>12, <1>17, <2>1, <2>2, PlacedBefore
<1>18. \A m \in Dirs \union (Files \ ToSet(todo')) :
          m = n \/ m \in Dirs \union (Files \ ToSet(todo))
  BY <1>5
<1>19. CASE Bad # {}
  <2>1. Bad' # {}
    BY <1>13, <1>19
  <2>2. ASSUME NEW m \in Dirs \union (Files \ ToSet(todo')), \A f \in Bad' : m < f
        PROVE  Placed(m)'
    <3>1. PICK f \in Bad : m < f
      BY <1>13, <1>19, <2>2
    <3>2. f < n /\ f \in Int /\ n \in Int /\ Nodes \subseteq Int
      BY <1>2, <1>15, TreeShape DEF FatTypeOK
    <3>3. m \in Nodes
      BY <1>5, <1>18 DEF Dirs, Files
    <3>4. m < n
      BY <3>1, <3>2, <3>3
    <3>5. m \in Dirs \union (Files \ ToSet(todo))
      BY <1>18, <3>2, <3>4
    <3>6. \A g \in Bad : m < g
      BY <1>13, <2>2
    <3> QED
      BY <1>14, <1>17, <3>4, <3>5, <3>6
  <2> QED
    BY <2>1, <2>2
<1>20. CASE Bad = {}
  <2>1. off + size <= D
    <3>1. Used * B <= D
      BY <1>14, <1>20
    <3> DEFINE kB == k * B
               UB == Used * B
    <3> HIDE DEF off, size, D, kB, UB
    <3> QED
      BY <1>9, <1>10, <3>1 DEF kB, UB
  <2>2. CASE len = size
    <3>1. Bad' = {}
      BY <1>13, <1>20, <2>2
    <3>2. /\ Len(data') = D
          /\ \A i \in 1..size : data'[off + i] = now[i]
          /\ \A p \in (off + size + 1)..D : data'[p] = data[p]
      <4>1. D - size + len = D /\ \A p \in (off + size + 1)..D : p - size + len = p
        <5> HIDE DEF len, size, D, off
        <5> QED
          BY <1>9, <1>10, <2>2
      <4> QED
        BY <1>12, <2>1, <2>2, <4>1
    <3>3. Placed(n)'
      <4>1. Content(n)' = now /\ Len(now) = size /\ Place(n)' = off
        BY <1>4, <1>9, <1>11, <2>2
      <4> HIDE DEF now, off, size, D
      <4>2. off + Len(now) <= Len(data')
        BY <2>1, <3>2, <4>1
      <4> QED
        BY <3>2, <4>1, <4>2 DEF Placed
    <3>4. ASSUME NEW m \in Dirs \union (Files \ ToSet(todo)), n < m, Placed(m)
          PROVE  Placed(m)'
      <4>1. Content(m)' = Content(m) /\ Place(m)' = Place(m)
        BY <1>4
      <4> DEFINE end == off + size
      <4>2. /\ Place(m) \in Nat /\ Len(Content(m)) \in Nat /\ end <= Place(m)
        BY <1>16, <3>4
      <4>3. end \in Nat
        BY <1>9
      <4> HIDE DEF end
      <4>4. \A p \in (end + 1)..D : data'[p] = data[p]
        BY <3>2 DEF end
      <4> QED
        BY <1>10, <3>2, <3>4, <4>1, <4>2, <4>3, <4>4, PlacedBehind
    <3>5. ASSUME NEW m \in Dirs \union (Files \ ToSet(todo')) PROVE Placed(m)'
      <4>1. CASE m = n
        BY <3>3, <4>1
      <4>2. CASE m # n
        <5>1. m \in Dirs \union (Files \ ToSet(todo)) /\ Placed(m)
          BY <1>14, <1>18, <1>20, <4>2
        <5>2. m < n \/ n < m
          BY <1>16, <4>2, <5>1
        <5> QED
          BY <1>17, <3>4, <5>1, <5>2
      <4> QED
        BY <4>1, <4>2
    <3> QED
      BY <1>14, <1>20, <3>2, <3>5
  <2>3. CASE len # size
    <3>1. Bad' = {n}
      BY <1>13, <1>20, <2>3
    <3>2. ASSUME NEW m \in Dirs \union (Files \ ToSet(todo')), m < n
          PROVE  Placed(m)'
      <4>1. n \in Int
        BY <1>2, TreeShape DEF FatTypeOK
      <4>2. m \in Dirs \union (Files \ ToSet(todo)) /\ Placed(m)
        BY <1>14, <1>18, <1>20, <3>2, <4>1
      <4> QED
        BY <1>17, <3>2, <4>2
    <3> QED
      BY <3>1, <3>2
  <2> QED
    BY <2>2, <2>3
<1> QED
  BY <1>19, <1>20

\* When all directories have been written every cluster is still in the image.
LEMMA NextPassPlaces ==
    ASSUME FatInv, FatInv', DataInv, NextPass
    PROVE  DataInv'
<1>1. /\ pc \in {"layout", "dirs", "files"} /\ todo = <<>> /\ tree' = tree
      /\ tot_sec' = tot_sec /\ written' = written /\ data' = data
      /\ layout' = layout /\ fat' = fat /\ next_clus' = next_clus
      /\ \/ pc = "layout" /\ pc' = "dirs" /\ todo' = Ordered(Dirs)
         \/ /\ pc = "dirs" /\ pc' = "files" /\ todo' = Ordered(Files)
         \/ pc = "files" /\ pc' = "fats" /\ todo' = todo
  BY DEF NextPass, Files
<1>2. FatTypeOK /\ Linked /\ Runs /\ Progress
  BY DEF FatInv
<1>3. /\ Nodes' = Nodes /\ Dirs' = Dirs /\ Dirs \subseteq Nodes /\ Files \subseteq Nodes
  BY <1>1, TreeFixed DEF Dirs, Files
<1>4. /\ \A m : Content(m)' = Content(m) /\ Place(m)' = Place(m)
      /\ (Room' <=> Room) /\ Files' = Files /\ Used' = Used /\ DataBytes' = DataBytes
  BY <1>1, ContentFixed
<1>5. \A m : Placed(m)' <=> Placed(m)
  BY <1>1, <1>4 DEF Placed
<1>6. ASSUME NEW S \in SUBSET Nodes PROVE ToSet(Ordered(S)) = S
  <2>1. Len(tree) \in Nat /\ Nodes = 1..Len(tree)
    BY <1>2, TreeShape DEF FatTypeOK
  <2> QED
    BY <2>1, OrderedIs
<1>7. ToSet(<<>>) = {}
  BY DEF ToSet
<1>8. CASE pc = "layout"
  <2>1. Dirs \ ToSet(todo') = {} /\ pc' = "dirs"
    BY <1>1, <1>3, <1>6, <1>8
  <2>2. Len(data) + Cardinality(Dirs \ ToSet(todo')) * BYTES_PER_CLUSTER >= DataBytes
    <3>1. Len(data) = DataBytes /\ Len(data) \in Nat
      BY <1>2, <1>8, LenProperties DEF DataInv, FatTypeOK
    <3>2. Cardinality(Dirs \ ToSet(todo')) = 0
      BY <2>1, FS_EmptySet
    <3> QED
      BY <3>1, <3>2, Sizes
  <2> QED
    BY <1>1, <1>3, <1>4, <2>1, <2>2 DEF DataInv
<1>9. CASE pc = "dirs"
  <2>1. pc' = "files" /\ Files \ ToSet(todo') = {}
    BY <1>1, <1>3, <1>6, <1>9
  <2>2. Bad' = {}
    BY <1>4, <2>1 DEF Bad
  <2>3. Dirs \ ToSet(todo) = Dirs
    BY <1>1, <1>7
  <2>4. ASSUME Room PROVE Used * BYTES_PER_CLUSTER <= Len(data) /\ \A n \in Dirs : Placed(n)
    <3>1. Len(data) + Cardinality(Dirs) * BYTES_PER_CLUSTER >= DataBytes
          /\ \A n \in Dirs : Placed(n)
      BY <1>9, <2>3, <2>4 DEF DataInv
    <3>2. Len(data) \in Int /\ Cardinality(Dirs) \in Nat /\ Cardinality(Dirs) <= Cardinality(Dirs)
      BY <1>2, DirsAreFinite, LenProperties DEF FatTypeOK
    <3> QED
      BY <1>2, <2>4, <3>1, <3>2, RoomFor
  <2> QED
    BY <1>1, <1>3, <1>4, <1>5, <2>1, <2>2, <2>4 DEF DataInv
<1>10. CASE pc = "files"
  <2>1. pc' = "fats" /\ todo' = todo /\ Bad' = Bad
    BY <1>1, <1>4, <1>10 DEF Bad
  <2> QED
    BY <1>1, <1>3, <1>4, <1>5, <1>10, <2>1 DEF DataInv
<1> QED
  BY <1>1, <1>8, <1>9, <1>10

\* Every step keeps what has been written in its place.
LEMMA DataInvStep ==
    ASSUME FatInv, FatInv', DataInv, [FatNext]_fatVars
    PROVE  DataInv'
<1>1. FatTypeOK /\ FatTypeOK' /\ Linked
  BY DEF FatInv
<1>2. CASE ScanTree
  <2>1. CASE clus_count < FAT32_MIN_CLUSTERS
    BY <1>2, <2>1 DEF ScanTree, DataInv
  <2>2. CASE ~ (clus_count < FAT32_MIN_CLUSTERS)
    <3>1. pc' = "layout" /\ data' = [i \in 1..DataBytes |-> NUL] /\ DataBytes' = DataBytes
      BY <1>2, <2>2 DEF ScanTree, DataBytes, FatSec
    <3>2. tot_sec \in Nat
      BY <1>1, FatAssumption DEF FatTypeOK
    <3>3. clus_count \in Int
      <4>1. FatSec \in Nat
        BY <3>2, FatFits DEF FatSec
      <4> QED
        BY <3>2, <4>1, SectorsNeededType DEF clus_count
    <3>4. FAT32_MIN_CLUSTERS \in Nat \ {0}
      BY FatAssumption
    <3>5. clus_count >= 0
      BY <2>2, <3>3, <3>4
    <3>6. DataBytes \in Nat
      BY <3>2, <3>5, Geometry
    <3>7. Len(data') = DataBytes
      BY <3>1, <3>6
    <3> QED
      BY <3>1, <3>7 DEF DataInv
  <2> QED
    BY <2>1, <2>2
<1>3. CASE LayoutNode
  <2>1. pc = "layout" /\ pc' = "layout" /\ data' = data /\ DataBytes' = DataBytes
    BY <1>3 DEF LayoutNode, DataBytes, FatSec
  <2> QED
    BY <2>1 DEF DataInv
<1>8. CASE LayoutFails
  <2>1. pc' \in {"no short name", "size overflows"}
    BY <1>8 DEF LayoutFails
  <2> QED
    BY <2>1 DEF DataInv
<1>4. CASE WriteDirEntries
  BY <1>4, WriteDirEntriesPlaces
<1>5. CASE WriteFile
  BY <1>5, WriteFilePlaces
<1>6. CASE NextPass
  BY <1>6, NextPassPlaces
<1>7. CASE WriteFats \/ HostChanges \/ UNCHANGED fatVars
  <2>1. /\ todo' = todo /\ tree' = tree /\ tot_sec' = tot_sec /\ written' = written
        /\ data' = data /\ layout' = layout /\ fat' = fat /\ next_clus' = next_clus
        /\ pc' = pc \/ (pc = "fats" /\ pc' \in {"written", "fat full"})
    BY <1>7 DEF WriteFats, HostChanges, fatVars
  <2>2. Nodes' = Nodes /\ Dirs' = Dirs
    BY <2>1, TreeFixed
  <2>3. /\ \A m : Content(m)' = Content(m) /\ Place(m)' = Place(m)
        /\ (Room' <=> Room) /\ Files' = Files /\ Used' = Used /\ DataBytes' = DataBytes
    BY <2>1, ContentFixed
  <2>4. (\A m : Placed(m)' <=> Placed(m)) /\ Bad' = Bad
    BY <2>1, <2>3 DEF Placed, Bad
  <2> QED
    BY <2>1, <2>2, <2>3, <2>4 DEF DataInv
<1> QED
  BY <1>2, <1>3, <1>4, <1>5, <1>6, <1>7, <1>8 DEF FatNext

\* What has been written stays in its place, up to the first file that was not
\* of the size scanned.
THEOREM DataInvariance == FatSpec => []DataInv
<1>1. FatInit => DataInv
  BY DEF FatInit, DataInv
<1>2. FatInv /\ FatInv' /\ DataInv /\ [FatNext]_fatVars => DataInv'
  BY DataInvStep
<1> QED
  BY <1>1, <1>2, FatInvariance, PTL DEF FatSpec

-----------------------------------------------------------------------------
(* Reading back *)

\* One cluster, or what there is of it.
LEMMA ReadClusterIs ==
    ASSUME NEW S, data \in Seq(S), NEW c \in Int, NEW x \in Nat,
           x = (c - ROOT_CLUS) * BYTES_PER_CLUSTER
    PROVE  LET D == Len(data)
               y == x + BYTES_PER_CLUSTER
               a == IF x <= D THEN x ELSE D
               b == IF y <= D THEN y ELSE D
           IN  /\ ReadCluster(c) \in Seq(S)
               /\ Len(ReadCluster(c)) = b - a
               /\ \A i \in 1..(b - a) : ReadCluster(c)[i] = data[a + i]
<1> DEFINE D == Len(data)
           y == x + BYTES_PER_CLUSTER
           a == IF x <= D THEN x ELSE D
           b == IF y <= D THEN y ELSE D
<1>1. D \in Nat /\ BYTES_PER_CLUSTER \in Nat \ {0} /\ x \in Int /\ y \in Int
  BY Sizes, LenProperties
<1>2. ReadCluster(c) = SubSeq(data, Min({x, D}) + 1, Min({y, D}))
  BY DEF ReadCluster
<1>3. Min({x, D}) = a /\ Min({y, D}) = b
  <2> HIDE DEF D, y
  <2> QED
    BY <1>1, MinOfTwo
<1>4. a \in Nat /\ b \in Nat /\ a <= b /\ b <= D
  <2> HIDE DEF D
  <2> QED
    BY <1>1
<1> HIDE DEF a, b, y
<1>5. ReadCluster(c) = SubSeq(data, a + 1, b)
  BY <1>2, <1>3
<1>6. /\ ReadCluster(c) \in Seq(S) /\ Len(ReadCluster(c)) = b - a
      /\ \A i \in 1..(b - a) : ReadCluster(c)[i] = data[a + i]
  BY <1>4, <1>5, SubSeqIs
<1> QED
  BY <1>6 DEF a, b, y

\* A node's clusters are read from its place on, as far as the image goes.
LEMMA ReadChainIs ==
    ASSUME FatInv, next_clus <= EndMark, NEW n \in Nodes, layout.first[n] # 0,
           Place(n) <= Len(data)
    PROVE  LET bytes == ReadChain(layout.first[n])
               size == layout.dir_n[n] * BYTES_PER_CLUSTER
           IN  /\ \E S : bytes \in Seq(S)
               /\ Len(bytes) = IF Place(n) + size <= Len(data) THEN size
                               ELSE Len(data) - Place(n)
               /\ \A j \in 1..Len(bytes) : bytes[j] = data[Place(n) + j]
<1> DEFINE first == layout.first[n]
           k == layout.dir_n[n]
           B == BYTES_PER_CLUSTER
           off == Place(n)
           D == Len(data)
           bytes == ReadChain(first)
           chain == Chain(first)
           seqs == [i \in 1..k |-> ReadCluster(chain[i])]
           cut(x) == IF x <= D THEN x ELSE D
<1>1. FatTypeOK /\ Linked /\ Runs
  BY DEF FatInv
<1>2. PICK S : data \in Seq(S)
  BY <1>1 DEF FatTypeOK
<1>3. /\ first \in Nat /\ first >= 2 /\ k \in Nat \ {0} /\ Run(first, k) /\ D \in Nat
      /\ B \in Nat \ {0} /\ off = (first - 2) * B /\ off \in Nat /\ off <= D
  <2>1. /\ first \in Nat /\ first >= 2 /\ k \in Nat \ {0} /\ Run(first, k)
    BY <1>1, HasRun DEF ROOT_CLUS
  <2>2. D \in Nat /\ B \in Nat \ {0} /\ off = (first - 2) * B /\ off <= D
    BY <1>2, Sizes, LenProperties DEF Place, ROOT_CLUS
  <2>3. off \in Nat
    BY Regions
  <2> QED
    BY <2>1, <2>2, <2>3
<1> HIDE DEF first, k
<1>4. chain = Numbers(first, k) /\ DOMAIN chain = 1..k /\ \A i \in 1..k : chain[i] = first + i - 1
  <2>1. chain = Numbers(first, k)
    BY <1>1, <1>3, ChainIs
  <2> QED
    BY <2>1 DEF Numbers
<1>5. bytes = FlattenSeq(seqs)
  BY <1>4 DEF ReadChain
<1> HIDE DEF chain, off, D, B
<1>6. ASSUME NEW i \in Nat, i + 1 <= k
      PROVE  LET a == cut(off + i * B)
                 b == cut(off + (i + 1) * B)
             IN  /\ seqs[i + 1] \in Seq(S)
                 /\ Len(seqs[i + 1]) = b - a
                 /\ \A j \in 1..(b - a) : seqs[i + 1][j] = data[a + j]
                 /\ a \in Nat /\ b \in Nat /\ off <= a /\ a <= b
  <2> DEFINE c == first + (i + 1) - 1
             x == off + i * B
  <2>1. seqs[i + 1] = ReadCluster(c)
    BY <1>3, <1>4, <1>6
  <2>2. c \in Int /\ c - 2 = (first - 2) + i
    BY <1>3
  <2>3. ((first - 2) + i) * B = (first - 2) * B + i * B /\ i * B \in Nat
        /\ (i + 1) * B = i * B + B
    BY <1>3
  <2>4. x = (c - 2) * B /\ x \in Nat /\ off + (i + 1) * B = x + B /\ off <= x
    BY <1>3, <2>2, <2>3
  <2> HIDE DEF c, x
  <2> DEFINE y == x + B
             a == IF x <= D THEN x ELSE D
             b == IF y <= D THEN y ELSE D
  <2>5. /\ ReadCluster(c) \in Seq(S) /\ Len(ReadCluster(c)) = b - a
        /\ \A j \in 1..(b - a) : ReadCluster(c)[j] = data[a + j]
    BY <1>2, <2>2, <2>4, ReadClusterIs DEF B, D, ROOT_CLUS
  <2>6. a = cut(off + i * B) /\ b = cut(off + (i + 1) * B)
    BY <2>4 DEF x
  <2>7. a \in Nat /\ b \in Nat /\ off <= a /\ a <= b
    BY <1>3, <2>4
  <2> HIDE DEF a, b, seqs, cut
  <2> QED
    BY <2>1, <2>5, <2>6, <2>7
<1>7. seqs \in Seq(Seq(S)) /\ Len(seqs) = k
  <2>1. \A i \in 1..k : seqs[i] \in Seq(S)
    <3> SUFFICES ASSUME NEW i \in 1..k PROVE seqs[i] \in Seq(S)
      OBVIOUS
    <3>1. i - 1 \in Nat /\ (i - 1) + 1 = i /\ i <= k
      BY <1>3
    <3> HIDE DEF seqs
    <3>2. seqs[(i - 1) + 1] \in Seq(S)
      BY <1>6, <3>1
    <3> QED
      BY <3>1, <3>2
  <2> DEFINE r(i) == ReadCluster(chain[i])
             T == Seq(S)
  <2>2. \A i \in 1..k : r(i) \in T
    BY <2>1
  <2>3. seqs = [i \in 1..k |-> r(i)]
    OBVIOUS
  <2> HIDE DEF r, T, seqs
  <2>4. seqs \in Seq(T) /\ Len(seqs) = k
    BY <1>3, <2>2, <2>3
  <2> QED
    BY <2>4 DEF T
<1> HIDE DEF seqs, bytes
<1>8. PICK f \in [0..k -> Seq(S)] :
         /\ f[0] = <<>> /\ \A i \in 1..k : f[i] = f[i - 1] \o seqs[i]
         /\ bytes = f[k]
  <2>1. \E f \in [0..Len(seqs) -> Seq(S)] :
           /\ f[0] = <<>>
           /\ \A i \in 1..Len(seqs) : f[i] = f[i - 1] \o seqs[i]
           /\ FlattenSeq(seqs) = f[Len(seqs)]
    BY <1>7, FlattenParts
  <2> QED
    BY <1>5, <1>7, <2>1
<1> DEFINE P(i) == LET a == cut(off + i * B)
                   IN  /\ Len(f[i]) = a - off
                       /\ \A j \in 1..(a - off) : f[i][j] = data[off + j]
           I == {i \in Nat : i <= k => P(i)}
<1>9. 0 \in I
  <2>1. off + 0 * B = off /\ cut(off) = off /\ off - off = 0 /\ Len(<<>>) = 0
    BY <1>3
  <2> HIDE DEF cut
  <2> QED
    BY <1>8, <2>1
<1>10. ASSUME NEW i \in Nat, i \in I PROVE i + 1 \in I
  <2> SUFFICES ASSUME i + 1 <= k PROVE P(i + 1)
    OBVIOUS
  <2> DEFINE a == cut(off + i * B)
             b == cut(off + (i + 1) * B)
             s == seqs[i + 1]
  <2>1. /\ s \in Seq(S) /\ Len(s) = b - a
        /\ \A j \in 1..(b - a) : s[j] = data[a + j]
        /\ a \in Nat /\ b \in Nat /\ off <= a /\ a <= b
    BY <1>6
  <2>2. Len(f[i]) = a - off /\ \A j \in 1..(a - off) : f[i][j] = data[off + j]
    <3>1. i <= k
      BY <1>3
    <3> QED
      BY <1>10, <3>1
  <2>3. f[i] \in Seq(S) /\ f[i + 1] = f[i] \o s
    <3>1. i + 1 \in 1..k /\ (i + 1) - 1 = i /\ i \in 0..k
      BY <1>3
    <3> QED
      BY <1>8, <3>1
  <2> HIDE DEF a, b, s, cut
  <2>4. Len(f[i + 1]) = (a - off) + (b - a)
        /\ \A j \in 1..((a - off) + (b - a)) :
              f[i + 1][j] = IF j <= a - off THEN f[i][j] ELSE s[j - (a - off)]
    <3> DEFINE u == f[i]
    <3>1. u \in Seq(S) /\ Len(u) = a - off /\ s \in Seq(S) /\ Len(s) = b - a
      BY <2>1, <2>2, <2>3
    <3> DEFINE x == a - off
               y == b - a
    <3> HIDE DEF u, x, y
    <3>2. Len(u \o s) = x + y
          /\ \A j \in 1..(x + y) : (u \o s)[j] = IF j <= x THEN u[j] ELSE s[j - x]
      <4>1. u \in Seq(S) /\ s \in Seq(S) /\ Len(u) = x /\ Len(s) = y
        BY <3>1 DEF x, y
      <4> QED
        BY <4>1, ConcatProperties
    <3>3. Len(u \o s) = (a - off) + (b - a)
          /\ \A j \in 1..((a - off) + (b - a)) :
                (u \o s)[j] = IF j <= a - off THEN u[j] ELSE s[j - (a - off)]
      BY <3>2 DEF x, y
    <3> QED
      BY <2>3, <3>3 DEF u
  <2>5. (a - off) + (b - a) = b - off
    BY <1>3, <2>1
  <2>6. ASSUME NEW j \in 1..(b - off) PROVE f[i + 1][j] = data[off + j]
    <3>1. CASE j <= a - off
      <4>1. j \in 1..(a - off)
        BY <1>3, <2>1, <3>1
      <4> QED
        BY <2>2, <2>4, <2>5, <3>1, <4>1
    <3>2. CASE ~ j <= a - off
      <4>1. j - (a - off) \in 1..(b - a) /\ a + (j - (a - off)) = off + j
        <5>1. off \in Int /\ a \in Int /\ b \in Int /\ j \in 1..(b - off)
          BY <1>3, <2>1
        <5> QED
          BY <3>2, <5>1
      <4> QED
        BY <2>1, <2>4, <2>5, <3>2, <4>1
    <3> QED
      BY <3>1, <3>2
  <2> QED
    BY <2>4, <2>5, <2>6 DEF b
<1> HIDE DEF I, P
<1>11. P(k)
  <2>1. k \in I
    BY <1>3, <1>9, <1>10, Induction
  <2> QED
    BY <1>3, <2>1 DEF I
<1> USE DEF P
<1>12. off + k * B \in Nat
  BY <1>3
<1>13. /\ Len(bytes) = IF off + k * B <= D THEN k * B ELSE D - off
       /\ \A j \in 1..Len(bytes) : bytes[j] = data[off + j]
  <2> DEFINE kB == k * B
  <2>1. Len(bytes) = cut(off + kB) - off
        /\ \A j \in 1..(cut(off + kB) - off) : bytes[j] = data[off + j]
    BY <1>8, <1>11
  <2>2. kB \in Nat
    BY <1>3
  <2> HIDE DEF kB
  <2>3. cut(off + kB) - off = IF off + kB <= D THEN kB ELSE D - off
    BY <1>3, <2>2
  <2> HIDE DEF cut
  <2> QED
    BY <2>1, <2>3 DEF kB
<1>14. bytes \in Seq(S)
  BY <1>3, <1>8
<1> QED
  BY <1>13, <1>14 DEF bytes, off, D, B, first, k

\* Min is the least element.
LEMMA MinIs ==
    ASSUME NEW S \in SUBSET Int, NEW x \in S, \A y \in S : x <= y
    PROVE  Min(S) = x
<1>1. \A z \in S : (\A y \in S : z <= y) => z = x
  OBVIOUS
<1> QED
  BY <1>1 DEF Min

\* A node in its place is read from its chain, whatever follows it there.
LEMMA ReadsContent ==
    ASSUME FatInv, next_clus <= EndMark, NEW n \in Nodes, layout.first[n] # 0, Placed(n)
    PROVE  LET bytes == ReadChain(layout.first[n])
           IN  /\ \E S : bytes \in Seq(S)
               /\ Len(Content(n)) \in Nat /\ Len(bytes) \in Nat
               /\ Len(Content(n)) <= Len(bytes)
               /\ \A j \in 1..Len(Content(n)) : bytes[j] = Content(n)[j]
<1> DEFINE bytes == ReadChain(layout.first[n])
           size == layout.dir_n[n] * BYTES_PER_CLUSTER
           off == Place(n)
           D == Len(data)
           c == Content(n)
           len == Len(c)
<1>1. /\ off \in Nat /\ len \in Nat /\ size \in Nat /\ len <= size
  BY Regions
<1>2. D \in Nat
  BY LenProperties DEF FatInv, FatTypeOK
<1>3. off + len <= D /\ \A j \in 1..len : data[off + j] = c[j]
  BY DEF Placed
<1>4. off <= D
  <2> HIDE DEF off, len, D
  <2> QED
    BY <1>1, <1>2, <1>3
<1>5. /\ \E S : bytes \in Seq(S)
      /\ Len(bytes) = IF off + size <= D THEN size ELSE D - off
      /\ \A j \in 1..Len(bytes) : bytes[j] = data[off + j]
  BY <1>4, ReadChainIs
<1> HIDE DEF bytes, size, off, D, c
<1>6. len <= Len(bytes) /\ Len(bytes) \in Nat
  <2> HIDE DEF len
  <2> QED
    BY <1>1, <1>2, <1>3, <1>4, <1>5
<1>7. \A j \in 1..len : j \in 1..Len(bytes)
  BY <1>1, <1>6
<1>8. \A j \in 1..len : bytes[j] = c[j]
  BY <1>3, <1>5, <1>7
<1> QED
  BY <1>1, <1>5, <1>6, <1>8 DEF bytes, c

\* A directory in its place reads back as its entries, up to the NUL.
LEMMA DirectoryReads ==
    ASSUME FatInv, next_clus <= EndMark, NEW n \in Nodes, layout.first[n] # 0, Placed(n),
           tree[n].dir
    PROVE  ReadEntries(layout.first[n]) = Entries(n, layout)
<1> DEFINE first == layout.first[n]
           bytes == ReadChain(first)
           entries == Entries(n, layout)
           content == build_dir_entries(n, layout)
           E == DirEntryBytes
           m == Len(entries)
           size == m * E
           L == Len(bytes)
<1>1. tree \in Trees
  BY DEF FatInv, FatTypeOK
<1>2. /\ m \in Nat /\ size \in Nat /\ Len(content) = size + 1 /\ content[size + 1] = NUL
      /\ \A i \in 1..m, j \in 1..E : content[(i - 1) * E + j] = Byte(entries[i], j)
  BY <1>1, DirectoryBytes
<1>3. Content(n) = content
  BY DEF Content
<1>4. PICK S : bytes \in Seq(S)
  BY ReadsContent
<1>5. /\ L \in Nat /\ size + 1 <= L
      /\ \A j \in 1..(size + 1) : bytes[j] = content[j]
  BY <1>2, <1>3, ReadsContent
<1>6. entries \in Seq(EntryOf(n, layout))
  BY <1>1, EntriesAre
<1>7. E \in Nat \ {0}
  BY Sizes
<1> DEFINE slot(i) == SubSeq(bytes, (i - 1) * E + 1, i * E)
           whole(i) == slot(i) = Bytes(slot(i)[1].what, E)
           slots == 1..(L \div E)
           ends == {i \in slots : slot(i)[1] = NUL}
           k == IF ends = {} THEN L \div E ELSE Min(ends) - 1
<1>8. ReadEntries(first) = [i \in 1..k |-> IF whole(i) THEN slot(i)[1].what ELSE Junk]
  BY DEF ReadEntries
<1> HIDE DEF first, bytes, entries, content, E
<1> DEFINE q == L \div E
<1>9. q \in Int /\ E * q <= L /\ L < E * q + E
  <2> HIDE DEF L
  <2> QED
    BY <1>5, <1>7, DivFloor
<1>10. ASSUME NEW i \in 1..q
       PROVE  /\ (i - 1) * E \in Nat /\ i * E \in Nat /\ i * E = (i - 1) * E + E
              /\ i * E <= L
              /\ slot(i) \in Seq(S) /\ Len(slot(i)) = E
              /\ \A j \in 1..E : slot(i)[j] = bytes[(i - 1) * E + j]
  <2> HIDE DEF q, L
  <2>1. i \in Nat /\ i - 1 \in Nat /\ i <= q
    BY <1>9
  <2>2. (i - 1) * E \in Nat /\ i * E \in Nat /\ i * E = (i - 1) * E + E
    BY <1>7, <2>1
  <2>3. i * E <= q * E /\ q * E \in Int /\ q * E = E * q
    BY <1>7, <1>9, <2>1, TimesMonotone
  <2>4. i * E <= L
    BY <1>5, <1>9, <2>2, <2>3
  <2> DEFINE a == (i - 1) * E
             b == i * E
             s == SubSeq(bytes, a + 1, b)
  <2>5. a \in Nat /\ b \in Nat /\ a <= b /\ b <= Len(bytes) /\ b - a = E
    BY <1>7, <2>2, <2>4 DEF L
  <2> HIDE DEF a, b
  <2>6. s \in Seq(S) /\ Len(s) = E /\ \A j \in 1..E : s[j] = bytes[a + j]
    BY <1>4, <2>5, SubSeqIs
  <2> QED
    BY <2>2, <2>4, <2>6 DEF a, b
<1>11. ASSUME NEW i \in 1..m
       PROVE  /\ i \in 1..q
              /\ \A j \in 1..E : slot(i)[j] = Byte(entries[i], j)
              /\ slot(i) = Bytes(entries[i], E)
  <2>1. i \in Nat /\ i - 1 \in Nat /\ i <= m
    BY <1>2
  <2>2. (i - 1) * E \in Nat /\ (i - 1) * E + E <= size
    <3>1. i * E <= m * E /\ i * E = (i - 1) * E + E /\ (i - 1) * E \in Nat
      <4> HIDE DEF m
      <4> QED
        BY <1>2, <1>7, <2>1, TimesMonotone
    <3> QED
      BY <3>1
  <2>3. m <= q
    <3> HIDE DEF m, q
    <3> SUFFICES ASSUME q + 1 <= m PROVE FALSE
      BY <1>2, <1>9
    <3>1. (q + 1) * E <= m * E /\ (q + 1) * E = E * q + E
      BY <1>2, <1>7, <1>9, TimesMonotone
    <3> HIDE DEF L
    <3> QED
      BY <1>2, <1>5, <1>7, <1>9, <3>1
  <2>4. i \in 1..q
    <3> HIDE DEF m, q
    <3> QED
      BY <1>2, <1>9, <2>1, <2>3
  <2>5. ASSUME NEW j \in 1..E PROVE slot(i)[j] = Byte(entries[i], j)
    <3> DEFINE p == (i - 1) * E + j
    <3>1. p \in 1..(size + 1)
      <4> HIDE DEF size
      <4> QED
        BY <1>2, <1>7, <2>2
    <3>2. slot(i)[j] = bytes[p]
      BY <1>10, <2>4
    <3>3. bytes[p] = content[p]
      <4> HIDE DEF p
      <4> QED
        BY <1>5, <3>1
    <3>4. content[p] = Byte(entries[i], j)
      BY <1>2
    <3> QED
      BY <3>2, <3>3, <3>4
  <2>6. slot(i) = Bytes(entries[i], E)
    <3> DEFINE s == slot(i)
               b == Bytes(entries[i], E)
               T == {Byte(entries[i], j) : j \in 1..E}
    <3>1. s \in Seq(S) /\ Len(s) = E
      BY <1>10, <2>4
    <3>2. b \in Seq(T) /\ Len(b) = E /\ \A j \in 1..E : b[j] = Byte(entries[i], j)
      BY <1>7, FileBytes
    <3>3. \A j \in 1..E : s[j] = b[j]
      BY <2>5, <3>2
    <3> HIDE DEF s, b, T
    <3>4. s \in Seq(S \union T) /\ b \in Seq(S \union T)
      BY <3>1, <3>2, WiderSeq
    <3>5. s = b
      BY <3>1, <3>2, <3>3, <3>4, SeqEqual
    <3> QED
      BY <3>5 DEF s, b
  <2> QED
    BY <2>4, <2>5, <2>6
<1>12. ASSUME NEW i \in 1..m
       PROVE  slot(i)[1].what = entries[i] /\ whole(i) /\ slot(i)[1] # NUL
  <2>1. 1 \in 1..E
    BY <1>7
  <2>2. slot(i)[1] = Byte(entries[i], 1) /\ slot(i) = Bytes(entries[i], E)
    BY <1>11, <2>1
  <2> HIDE DEF slot
  <2>3. slot(i)[1].what = entries[i] /\ slot(i)[1] # NUL
    BY <2>2 DEF Byte, NUL
  <2> QED
    BY <2>2, <2>3
<1>13. m + 1 \in slots => slot(m + 1)[1] = NUL
  <2> SUFFICES ASSUME m + 1 \in 1..q PROVE slot(m + 1)[1] = NUL
    OBVIOUS
  <2>1. 1 \in 1..E /\ (m + 1) - 1 = m
    BY <1>2, <1>7
  <2>2. slot(m + 1)[1] = bytes[((m + 1) - 1) * E + 1]
    BY <1>10, <2>1
  <2>3. bytes[size + 1] = NUL
    <3>1. size + 1 \in 1..(size + 1)
      BY <1>2
    <3> HIDE DEF size
    <3> QED
      BY <1>2, <1>5, <3>1
  <2> QED
    BY <2>1, <2>2, <2>3
<1>14. m <= q
  <2> HIDE DEF m, q
  <2> SUFFICES ASSUME q + 1 <= m PROVE FALSE
    BY <1>2, <1>9
  <2>1. (q + 1) * E <= m * E /\ (q + 1) * E = E * q + E
    BY <1>2, <1>7, <1>9, TimesMonotone
  <2> HIDE DEF L
  <2> QED
    BY <1>2, <1>5, <1>7, <1>9, <2>1
<1> HIDE DEF slot
<1>15. k = m
  <2>1. \A i \in ends : i \in slots /\ i \in Int /\ ~ i \in 1..m
    BY <1>12
  <2>2. slots = 1..q
    OBVIOUS
  <2>3. CASE m + 1 \in slots
    <3>1. m + 1 \in ends
      BY <1>13, <2>3
    <3> HIDE DEF ends, m, q
    <3>2. \A i \in ends : m + 1 <= i
      BY <1>2, <1>9, <2>1, <2>2
    <3>3. Min(ends) = m + 1 /\ ends # {}
      <4>1. ends \in SUBSET Int
        BY <2>1
      <4> QED
        BY <3>1, <3>2, <4>1, MinIs
    <3>4. k = (m + 1) - 1
      BY <3>3
    <3> QED
      BY <1>2, <3>4
  <2>4. CASE m + 1 \notin slots
    <3> HIDE DEF ends, m
    <3>1. q = m
      <4> HIDE DEF q, slots
      <4> QED
        BY <1>2, <1>9, <1>14, <2>2, <2>4
    <3>2. ends = {}
      <4> SUFFICES ASSUME NEW i \in ends PROVE FALSE
        OBVIOUS
      <4> QED
        BY <2>1, <2>2, <3>1
    <3> QED
      BY <3>1, <3>2
  <2> QED
    BY <2>3, <2>4
<1> HIDE DEF k
<1>16. ReadEntries(first) = [i \in 1..m |-> entries[i]]
  BY <1>8, <1>12, <1>15
<1>17. [i \in 1..m |-> entries[i]] = entries
  <2> DEFINE T == EntryOf(n, layout)
  <2> HIDE DEF T
  <2>1. entries \in Seq(T)
    BY <1>6 DEF T
  <2> QED
    BY <2>1
<1> QED
  BY <1>16, <1>17 DEF first, entries

\* A file in its place reads back as its bytes, an empty one as none.
LEMMA FileReads ==
    ASSUME FatInv, next_clus <= EndMark, NEW n \in Nodes, ~ tree[n].dir,
           layout.dir_n[n] = Needs(n, layout),
           layout.first[n] # 0 => Placed(n)
    PROVE  SubSeq(ReadChain(layout.first[n]), 1, tree[n].size) =
               Bytes(<<"file", n>>, tree[n].size)
<1> DEFINE size == tree[n].size
           b == Bytes(<<"file", n>>, size)
           T == {Byte(<<"file", n>>, i) : i \in 1..size}
<1>1. FatTypeOK /\ Runs
  BY DEF FatInv
<1>2. size \in Nat /\ tree \in Trees /\ n \notin Dirs
  BY <1>1, TreeShape DEF FatTypeOK, Dirs
<1>3. b \in Seq(T) /\ Len(b) = size
  BY <1>2, FileBytes
<1>4. CASE layout.first[n] = 0
  <2>1. layout.dir_n[n] = 0
    BY <1>1, <1>4 DEF Runs
  <2>2. size = 0
    BY <1>2, <2>1, NeedsAre
  <2>3. b = <<>>
    <3> HIDE DEF b, T, size
    <3> QED
      BY <1>3, <2>2, EmptySeq
  <2>4. \A s : SubSeq(s, 1, size) = <<>>
    BY <2>2, SubSeqEmpty
  <2> QED
    BY <2>3, <2>4
<1>5. CASE layout.first[n] # 0
  <2> DEFINE bytes == ReadChain(layout.first[n])
             s == SubSeq(bytes, 0 + 1, size)
  <2>1. Content(n) = b
    BY DEF Content
  <2>2. PICK S : bytes \in Seq(S)
    BY <1>5, ReadsContent
  <2>3. size <= Len(bytes) /\ \A j \in 1..size : bytes[j] = b[j]
    BY <1>3, <1>5, <2>1, ReadsContent
  <2> HIDE DEF bytes, b, T, size
  <2>4. s \in Seq(S) /\ Len(s) = size - 0 /\ \A j \in 1..(size - 0) : s[j] = bytes[0 + j]
    BY <1>2, <2>2, <2>3, SubSeqIs
  <2>5. Len(s) = size /\ \A j \in 1..size : s[j] = b[j]
    BY <1>2, <2>3, <2>4
  <2>6. s \in Seq(S \union T) /\ b \in Seq(S \union T)
    <3> HIDE DEF s
    <3> QED
      BY <1>3, <2>4, WiderSeq
  <2> HIDE DEF s
  <2>7. s = b
    BY <1>3, <2>5, <2>6, SeqEqual
  <2> QED
    BY <2>7 DEF s, b, bytes, size
<1> QED
  BY <1>4, <1>5

\* In an image that was written every node up to the first file spoiled reads.
LEMMA WrittenReads ==
    ASSUME FatInv, DataInv
    PROVE  ReadBack
<1> SUFFICES ASSUME pc = "written", next_clus <= EndMark, Room,
                    NEW n \in Nodes, n < FirstSpoiled
             PROVE  Reads(n)
  BY DEF ReadBack, Room
<1>1. FatTypeOK /\ Linked /\ Runs /\ Progress
  BY DEF FatInv
<1>2. todo = <<>> /\ layout.dir_n[n] = Needs(n, layout)
  BY <1>1 DEF Progress, Passes
<1>3. Files \ ToSet(todo) = Files /\ Bad = Spoiled
  <2>1. ToSet(todo) = {}
    BY <1>2 DEF ToSet
  <2> QED
    BY <2>1 DEF Bad, Spoiled, Files
<1>4. \A f \in Bad : n < f
  <2> SUFFICES ASSUME NEW f \in Spoiled PROVE n < f
    BY <1>3
  <2>1. Spoiled \in SUBSET Nat /\ Nodes \in SUBSET Nat
    <3>1. Len(tree) \in Nat /\ Nodes = 1..Len(tree)
      BY <1>1, TreeShape DEF FatTypeOK
    <3>2. Spoiled \subseteq Nodes
      BY DEF Spoiled
    <3> QED
      BY <3>1, <3>2
  <2>2. PICK x \in Spoiled : \A y \in Spoiled : x <= y
    BY <2>1, Smallest
  <2>3. Min(Spoiled) = x
    BY <2>1, <2>2, MinIs
  <2>4. FirstSpoiled = x
    BY <2>2, <2>3 DEF FirstSpoiled
  <2>5. n < x /\ x <= f /\ n \in Nat /\ x \in Nat /\ f \in Nat
    BY <2>1, <2>2, <2>4
  <2> QED
    BY <2>5
<1>5. n \in Dirs \union Files => Placed(n)
  BY <1>3, <1>4 DEF DataInv
<1>6. CASE tree[n].dir
  <2>1. n \in Dirs
    BY <1>6 DEF Dirs
  <2>2. layout.first[n] # 0
    BY <1>1, <1>2, <2>1, HasRun
  <2> QED
    BY <1>5, <1>6, <2>1, <2>2, DirectoryReads DEF Reads
<1>7. CASE ~ tree[n].dir
  <2>1. layout.first[n] # 0 => n \in Files
    BY <1>7 DEF Dirs, Files
  <2> QED
    BY <1>2, <1>5, <1>7, <2>1, FileReads DEF Reads
<1> QED
  BY <1>6, <1>7

\* An image that was written reads back as the tree that was scanned, up to
\* the first file that changed, if it has a cluster to spare for every directory
\* (create_image, read by inspect_image).
THEOREM ImageReadsBack == FatSpec => []ReadBack
BY FatInvariance, DataInvariance, WrittenReads, PTL
=============================================================================
