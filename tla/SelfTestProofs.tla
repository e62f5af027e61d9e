--------------------------- MODULE SelfTestProofs ---------------------------
(***************************************************************************)
(* Proofs about the self-test, for any handles, any file objects, any      *)
(* drivers and any place of the program, however many tests follow one     *)
(* another.  TestIInv of SelfTest is the inductive invariant.              *)
(***************************************************************************)
EXTENDS SelfTest, TLAPS, WellFoundedInduction, FiniteSetTheorems,
        SequenceTheorems

-----------------------------------------------------------------------------
(* Induction, and functions defined by recursion on an interval *)

\* A set that has 0 and with each number the next has all numbers.
LEMMA Induction ==
    ASSUME NEW S, 0 \in S, \A n \in Nat : n \in S => n + 1 \in S
    PROVE  \A n \in Nat : n \in S
<1> SUFFICES ASSUME NEW m \in Nat, m \notin S PROVE FALSE
  OBVIOUS
<1> DEFINE T == {n \in Nat : n \notin S}
<1>1. PICK x \in T : \A y \in T : ~ (<<y, x>> \in OpToRel(<, Nat))
  <2>1. T \subseteq Nat /\ T # {}
    OBVIOUS
  <2> QED
    BY <2>1, NatLessThanWellFounded, WFMin
<1>2. x \in Nat \ {0}
  BY <1>1
<1>3. x - 1 \in Nat /\ x - 1 < x /\ (x - 1) + 1 = x
  BY <1>2
<1>4. x - 1 \notin T
  BY <1>1, <1>2, <1>3 DEF OpToRel
<1> QED
  BY <1>1, <1>3, <1>4

\* The sums of a sequence of numbers up to each of its places.
LEMMA Sums ==
    ASSUME NEW b \in Int, NEW n \in Nat, NEW a \in [1..n -> Int]
    PROVE  \E u \in [0..n -> Int] :
              u[0] = b /\ \A i \in 1..n : u[i] = u[i - 1] + a[i]
<1> DEFINE Fits(u, k) == /\ u \in [0..k -> Int]
                         /\ u[0] = b /\ \A i \in 1..k : u[i] = u[i - 1] + a[i]
           I == {k \in Nat : k <= n => \E u : Fits(u, k)}
<1>1. 0 \in I
  <2>1. Fits([i \in 0..0 |-> b], 0)
    OBVIOUS
  <2> QED
    BY <2>1
<1>2. ASSUME NEW k \in Nat, k \in I, k + 1 <= n
      PROVE  \E u : Fits(u, k + 1)
  <2>1. PICK u : Fits(u, k)
    BY <1>2
  <2> DEFINE h == [i \in 0..(k + 1) |-> IF i <= k THEN u[i] ELSE u[k] + a[k + 1]]
  <2>2. k + 1 \in 1..n /\ k \in 0..k
    BY <1>2
  <2>3. u[k] + a[k + 1] \in Int
    BY <2>1, <2>2
  <2>4. h \in [0..(k + 1) -> Int] /\ h[0] = b
    BY <2>1, <2>3
  <2>5. ASSUME NEW i \in 1..(k + 1) PROVE h[i] = h[i - 1] + a[i]
    <3>1. CASE i <= k
      <4>1. i \in 1..k /\ i - 1 \in 0..k /\ i - 1 <= k
        BY <3>1
      <4> QED
        BY <2>1, <3>1, <4>1
    <3>2. CASE i = k + 1
      BY <2>1, <3>2
    <3> QED
      BY <3>1, <3>2
  <2> HIDE DEF h
  <2> QED
    BY <2>4, <2>5
<1>3. ASSUME NEW k \in Nat, k \in I PROVE k + 1 \in I
  <2>1. CASE k + 1 <= n
    <3>1. \E u : Fits(u, k + 1)
      BY <1>2, <1>3, <2>1
    <3> HIDE DEF Fits
    <3> QED
      BY <3>1
  <2>2. CASE ~ (k + 1 <= n)
    BY <2>2
  <2> QED
    BY <2>1, <2>2
<1> HIDE DEF I
<1>4. n \in I
  BY <1>1, <1>3, Induction
<1> USE DEF I
<1> QED
  BY <1>4

\* They grow where no number is negative.
LEMMA SumsGrow ==
    ASSUME NEW n \in Nat, NEW u \in [0..n -> Int],
           \A i \in 1..n : u[i - 1] <= u[i], NEW k \in 0..n
    PROVE  u[k] <= u[n]
<1> DEFINE I == {m \in Nat : k + m <= n => u[k] <= u[k + m]}
<1>1. 0 \in I
  OBVIOUS
<1>2. ASSUME NEW m \in Nat, m \in I PROVE m + 1 \in I
  <2> SUFFICES ASSUME k + (m + 1) <= n PROVE u[k] <= u[k + (m + 1)]
    OBVIOUS
  <2>1. k + (m + 1) \in 1..n /\ (k + (m + 1)) - 1 = k + m /\ k + m \in 0..n
    OBVIOUS
  <2>2. u[k + m] <= u[k + (m + 1)]
    BY <2>1
  <2>3. u[k] <= u[k + m]
    BY <1>2, <2>1
  <2>4. u[k] \in Int /\ u[k + m] \in Int /\ u[k + (m + 1)] \in Int
    BY <2>1
  <2> QED
    BY <2>2, <2>3, <2>4
<1> HIDE DEF I
<1>3. n - k \in Nat /\ k + (n - k) = n
  OBVIOUS
<1>4. n - k \in I
  BY <1>1, <1>2, <1>3, Induction
<1> USE DEF I
<1> QED
  BY <1>3, <1>4

-----------------------------------------------------------------------------
(* The length of a path text *)

\* What the first name adds its length and one to.
Base(t) == IF t.rooted THEN 0 ELSE -1

\* The lengths of a text up to each of its names.
Lengths(t, u) ==
    /\ u \in [0..Len(t.names) -> Int]
    /\ u[0] = Base(t)
    /\ \A i \in 1..Len(t.names) : u[i] = u[i - 1] + 1 + Length[t.names[i]]

\* Every name of a text has a length.
LEMMA NameLength ==
    ASSUME NEW t \in Texts, NEW i \in 1..Len(t.names)
    PROVE  Length[t.names[i]] \in Nat \ {0}
BY PathAssumption DEF Texts

\* They are what TextLength adds up.
LEMMA TextLengthIs ==
    ASSUME NEW t \in Texts, t.names # <<>>
    PROVE  \E u : Lengths(t, u) /\ TextLength(t) = u[Len(t.names)]
<1> DEFINE n == Len(t.names)
           F(u) == [i \in 0..n |-> IF i = 0 THEN IF t.rooted THEN 0 ELSE -1
                                   ELSE u[i - 1] + 1 + Length[t.names[i]]]
           upto == CHOOSE u : u = F(u)
<1>1. n \in Nat
  BY DEF Texts
<1>2. TextLength(t) = upto[n]
  BY DEF TextLength
<1> DEFINE a == [i \in 1..n |-> 1 + Length[t.names[i]]]
<1>3. a \in [1..n -> Int]
  BY NameLength
<1>4. Base(t) \in Int
  BY DEF Base
<1>5. PICK u \in [0..n -> Int] :
          u[0] = Base(t) /\ \A i \in 1..n : u[i] = u[i - 1] + a[i]
  <2> HIDE DEF n, a
  <2> QED
    BY <1>1, <1>3, <1>4, Sums
<1>6. ASSUME NEW i \in 1..n
      PROVE  i - 1 \in 0..n /\ u[i] = u[i - 1] + 1 + Length[t.names[i]]
  <2>1. i - 1 \in 0..n
    BY <1>1
  <2>2. u[i - 1] \in Int /\ Length[t.names[i]] \in Int
    BY <1>5, <2>1, NameLength
  <2>3. u[i] = u[i - 1] + (1 + Length[t.names[i]])
    BY <1>5
  <2> DEFINE v == u[i - 1]
             l == Length[t.names[i]]
  <2>4. v \in Int /\ l \in Int
    BY <2>2
  <2> HIDE DEF v, l
  <2>5. v + (1 + l) = v + 1 + l
    BY <2>4
  <2> QED
    BY <2>1, <2>3, <2>5 DEF v, l
<1>7. u = F(u)
  <2>1. u = [i \in 0..n |-> u[i]]
    BY <1>5
  <2>2. ASSUME NEW i \in 0..n PROVE u[i] = F(u)[i]
    <3>1. i = 0 \/ i \in 1..n
      BY <1>1
    <3> QED
      BY <1>5, <1>6, <3>1 DEF Base
  <2> QED
    BY <2>1, <2>2
<1> HIDE DEF F
<1>8. upto = F(upto)
  BY <1>7
<1> HIDE DEF upto, a
<1> USE DEF F
<1>9. upto = u
  <2> DEFINE I == {i \in Nat : i <= n => upto[i] = u[i]}
  <2>1. 0 \in I
    BY <1>1, <1>5, <1>8 DEF Base
  <2>2. ASSUME NEW i \in Nat, i \in I PROVE i + 1 \in I
    <3> SUFFICES ASSUME i + 1 <= n PROVE upto[i + 1] = u[i + 1]
      OBVIOUS
    <3>1. i + 1 \in 1..n /\ i + 1 \in 0..n /\ i + 1 # 0 /\ (i + 1) - 1 = i
      BY <1>1
    <3>2. upto[i + 1] = upto[i] + 1 + Length[t.names[i + 1]]
      BY <1>8, <3>1
    <3> QED
      BY <2>2, <3>1, <3>2, <1>5, <1>6
  <2> HIDE DEF I
  <2>3. \A i \in Nat : i \in I
    BY <2>1, <2>2, Induction
  <2> USE DEF I
  <2>4. \A i \in 0..n : upto[i] = u[i]
    BY <2>3, <1>1
  <2>5. upto = [i \in 0..n |-> upto[i]] /\ u = [i \in 0..n |-> u[i]]
    BY <1>5, <1>8
  <2> QED
    BY <2>4, <2>5
<1> QED
  BY <1>2, <1>5, <1>6, <1>9 DEF Lengths

\* The length of a text is a number.
LEMMA TextLengthType == ASSUME NEW t \in Texts PROVE TextLength(t) \in Int
<1>1. CASE t.names = <<>>
  BY <1>1 DEF TextLength
<1>2. CASE t.names # <<>>
  <2>1. PICK u : Lengths(t, u) /\ TextLength(t) = u[Len(t.names)]
    BY <1>2, TextLengthIs
  <2> QED
    BY <2>1 DEF Lengths, Texts
<1> QED
  BY <1>1, <1>2

\* A text that begins another, and is rooted only if that is, is no longer.
LEMMA Shorter ==
    ASSUME NEW t \in Texts, NEW s \in Texts, s.rooted => t.rooted,
           Len(s.names) <= Len(t.names),
           \A i \in 1..Len(s.names) : s.names[i] = t.names[i]
    PROVE  TextLength(s) <= TextLength(t)
<1> DEFINE n == Len(s.names)
           m == Len(t.names)
<1>1. n \in Nat /\ m \in Nat /\ n <= m
  BY DEF Texts
<1>2. ASSUME t.names # <<>>, NEW u, Lengths(t, u), NEW k \in 0..m
      PROVE  u[k] <= u[m]
  <2>1. u \in [0..m -> Int]
    BY <1>2 DEF Lengths
  <2>2. ASSUME NEW i \in 1..m PROVE u[i - 1] <= u[i]
    <3> DEFINE v == u[i - 1]
               w == u[i]
               l == Length[t.names[i]]
    <3>1. v \in Int /\ l \in Nat
      BY <2>1, <1>1, NameLength
    <3>2. w = v + 1 + l
      BY <1>2 DEF Lengths
    <3> HIDE DEF v, w, l
    <3>3. v <= w
      BY <3>1, <3>2
    <3> QED
      BY <3>3 DEF v, w
  <2> HIDE DEF m
  <2> QED
    BY <1>1, <2>1, <2>2, SumsGrow
<1>3. CASE s.names = <<>>
  <2>1. TextLength(s) = 0
    BY <1>3 DEF TextLength
  <2>2. CASE t.names = <<>>
    BY <2>1, <2>2 DEF TextLength
  <2>3. CASE t.names # <<>>
    <3>1. PICK u : Lengths(t, u) /\ TextLength(t) = u[m]
      BY <2>3, TextLengthIs
    <3>2. 1 \in 1..m /\ 1 \in 0..m /\ 1 - 1 = 0
      BY <2>3, <1>1 DEF Texts
    <3>3. u[1] = u[0] + 1 + Length[t.names[1]] /\ u[0] = Base(t)
      BY <3>1, <3>2 DEF Lengths
    <3> DEFINE l == Length[t.names[1]]
               b == Base(t)
    <3>4. l \in Nat \ {0} /\ b \in {0, -1}
      BY <3>2, NameLength DEF Base
    <3> HIDE DEF l, b
    <3>5. b + 1 + l >= 0
      BY <3>4
    <3>6. u[1] <= u[m] /\ u[1] \in Int /\ u[m] \in Int
      <4>1. u[1] <= u[m]
        BY <1>2, <2>3, <3>1, <3>2
      <4>2. u \in [0..m -> Int] /\ m \in 0..m
        BY <3>1, <1>1 DEF Lengths
      <4> QED
        BY <4>1, <4>2, <3>2
    <3>7. u[1] = b + 1 + l
      BY <3>3 DEF b, l
    <3> QED
      BY <2>1, <3>1, <3>4, <3>5, <3>6, <3>7
  <2> QED
    BY <2>2, <2>3
<1>4. CASE s.names # <<>>
  <2>1. n >= 1 /\ t.names # <<>>
    BY <1>1, <1>4 DEF Texts
  <2>2. PICK u : Lengths(t, u) /\ TextLength(t) = u[m]
    BY <2>1, TextLengthIs
  <2>3. PICK w : Lengths(s, w) /\ TextLength(s) = w[n]
    BY <1>4, TextLengthIs
  <2> DEFINE I == {i \in Nat : i <= n => w[i] <= u[i]}
  <2>4. 0 \in I
    BY <2>2, <2>3 DEF Lengths, Base
  <2>5. ASSUME NEW i \in Nat, i \in I PROVE i + 1 \in I
    <3> SUFFICES ASSUME i + 1 <= n PROVE w[i + 1] <= u[i + 1]
      OBVIOUS
    <3>1. i + 1 \in 1..n /\ i + 1 \in 1..m /\ (i + 1) - 1 = i /\ i \in 0..n /\ i \in 0..m
      BY <1>1
    <3> DEFINE l == Length[t.names[i + 1]]
    <3>2. l \in Nat /\ l = Length[s.names[i + 1]]
      BY <3>1, NameLength
    <3>3. u[i + 1] = u[i] + 1 + l
      BY <2>2, <3>1 DEF Lengths
    <3>4. w[i + 1] = w[i] + 1 + l
      BY <2>3, <3>1, <3>2 DEF Lengths
    <3>5. u[i] \in Int /\ w[i] \in Int /\ w[i] <= u[i]
      BY <2>2, <2>3, <2>5, <3>1 DEF Lengths
    <3> HIDE DEF l
    <3> QED
      BY <3>2, <3>3, <3>4, <3>5
  <2> HIDE DEF I
  <2>6. n \in I
    BY <1>1, <2>4, <2>5, Induction
  <2> USE DEF I
  <2>7. w[n] <= u[n] /\ w[n] \in Int /\ u[n] \in Int /\ u[m] \in Int
    BY <1>1, <2>2, <2>3, <2>6 DEF Lengths
  <2>8. u[n] <= u[m]
    BY <1>1, <1>2, <2>1, <2>2
  <2> QED
    BY <2>2, <2>3, <2>7, <2>8
<1> QED
  BY <1>3, <1>4

-----------------------------------------------------------------------------
(* Where a driver is looked for *)

\* The parts of a sequence up to each place, put together.
LEMMA Flattened ==
    ASSUME NEW S, NEW seqs \in Seq(Seq(S)), NEW k \in 1..Len(seqs),
           \A i \in 1..Len(seqs) : i # k => seqs[i] = <<>>
    PROVE  FlattenSeq(seqs) = seqs[k]
<1> DEFINE n == Len(seqs)
           F(f) == [i \in 1..n |-> IF i = 1 THEN seqs[i] ELSE f[i - 1] \o seqs[i]]
           flatten == CHOOSE f : f = F(f)
           g == [i \in 1..n |-> IF i < k THEN <<>> ELSE seqs[k]]
<1>1. n \in Nat \ {0} /\ seqs[k] \in Seq(S)
  OBVIOUS
<1>2. FlattenSeq(seqs) = flatten[n]
  BY <1>1 DEF FlattenSeq
<1>3. \A i \in 1..n : g[i] = IF i = 1 THEN seqs[i] ELSE g[i - 1] \o seqs[i]
  <2> SUFFICES ASSUME NEW i \in 1..n
               PROVE  g[i] = IF i = 1 THEN seqs[i] ELSE g[i - 1] \o seqs[i]
    OBVIOUS
  <2>1. CASE i = 1
    BY <2>1
  <2>2. CASE i # 1
    <3>1. i - 1 \in 1..n
      BY <2>2
    <3>2. CASE i < k
      <4>1. i - 1 < k /\ i # k
        BY <3>2
      <4>2. <<>> \o <<>> = <<>>
        BY ConcatEmptySeq, EmptySeq
      <4> QED
        BY <2>2, <3>1, <3>2, <4>1, <4>2
    <3>3. CASE i = k
      <4>1. <<>> \o seqs[k] = seqs[k]
        BY <1>1, ConcatEmptySeq
      <4>2. ~ i < k /\ i - 1 < k
        BY <3>3
      <4>3. g[i] = seqs[k] /\ g[i - 1] = <<>>
        BY <3>1, <4>2
      <4> QED
        BY <2>2, <3>3, <4>1, <4>3
    <3>4. CASE i > k
      <4>1. seqs[k] \o <<>> = seqs[k]
        BY <1>1, ConcatEmptySeq
      <4>2. ~ i - 1 < k /\ i # k
        BY <3>4
      <4>3. g[i] = seqs[k] /\ g[i - 1] = seqs[k] /\ seqs[i] = <<>>
        BY <3>1, <3>4, <4>2
      <4> QED
        BY <2>2, <4>1, <4>3
    <3> QED
      BY <3>2, <3>3, <3>4
  <2> QED
    BY <2>1, <2>2
<1>4. g = F(g)
  <2>1. g = [i \in 1..n |-> g[i]]
    OBVIOUS
  <2> HIDE DEF g
  <2> QED
    BY <1>3, <2>1
<1> HIDE DEF F
<1>5. flatten = F(flatten)
  BY <1>4
<1> HIDE DEF flatten, g
<1> USE DEF F
<1>6. \A i \in 1..n : flatten[i] = IF i = 1 THEN seqs[i] ELSE flatten[i - 1] \o seqs[i]
  BY <1>5
<1>7. flatten[n] = g[n]
  <2> HIDE DEF n, F
  <2> DEFINE I == {i \in Nat : i \in 1..n => flatten[i] = g[i]}
  <2>1. 0 \in I
    OBVIOUS
  <2>2. ASSUME NEW i \in Nat, i \in I PROVE i + 1 \in I
    <3> SUFFICES ASSUME i + 1 \in 1..n PROVE flatten[i + 1] = g[i + 1]
      OBVIOUS
    <3>1. CASE i = 0
      BY <1>3, <1>6, <3>1
    <3>2. CASE i # 0
      <4>1. i \in 1..n /\ i + 1 # 1 /\ (i + 1) - 1 = i
        BY <1>1, <3>2
      <4>2. flatten[i + 1] = flatten[i] \o seqs[i + 1]
        BY <1>6, <4>1
      <4>3. g[i + 1] = g[i] \o seqs[i + 1]
        BY <1>3, <4>1
      <4> QED
        BY <2>2, <4>1, <4>2, <4>3
    <3> QED
      BY <3>1, <3>2
  <2> HIDE DEF I
  <2>3. n \in I
    BY <1>1, <2>1, <2>2, Induction
  <2> QED
    BY <1>1, <2>3 DEF I
<1>8. g[n] = seqs[k]
  BY <1>1 DEF g
<1> QED
  BY <1>2, <1>7, <1>8

\* A path is cut only if it is too long.
LEMMA NotCut ==
    ASSUME NEW t \in Texts, TextLength(t) < MaxPath
    PROVE  Cut(t).names = t.names
<1> DEFINE n == Len(t.names)
           Upto(k) == Text(t.rooted, SubSeq(t.names, 1, k))
           P(k) == /\ TextLength(Upto(k)) < MaxPath
                   /\ k = n \/ TextLength(Upto(k + 1)) >= MaxPath
           whole == CHOOSE k \in 0..n : P(k)
<1>1. n \in Nat /\ t = Text(t.rooted, t.names)
  BY DEF Texts, Text
<1>2. Upto(n) = t
  <2>1. SubSeq(t.names, 1, n) = t.names
    BY SubSeqFull DEF Texts
  <2> QED
    BY <1>1, <2>1
<1>3. P(n)
  BY <1>2
<1>4. ASSUME NEW k \in 0..n, P(k) PROVE k = n
  <2> SUFFICES ASSUME k # n PROVE FALSE
    OBVIOUS
  <2>1. k + 1 \in 1..n
    BY <1>1
  <2>2. Upto(k + 1) \in Texts /\ Upto(k + 1).rooted = t.rooted
        /\ Len(Upto(k + 1).names) = k + 1
        /\ \A i \in 1..(k + 1) : Upto(k + 1).names[i] = t.names[i]
    <3>1. \A i \in 1..(k + 1) : t.names[i] \in DOMAIN Length
      BY <2>1 DEF Texts
    <3> DEFINE s == SubSeq(t.names, 1, k + 1)
    <3>2. s \in Seq(DOMAIN Length) /\ Len(s) = k + 1
          /\ \A i \in 1..(k + 1) : s[i] = t.names[i]
      <4>1. k + 1 \in Int /\ (k + 1) - 1 + 1 = k + 1 /\ 1 <= k + 1
            /\ \A i \in 1..(k + 1) : 1 + i - 1 = i
        BY <2>1
      <4> QED
        BY <3>1, <4>1, SubSeqProperties
    <3> HIDE DEF s
    <3>3. Text(t.rooted, s) \in Texts
      BY <3>2 DEF Texts, Text
    <3> QED
      BY <3>2, <3>3 DEF s, Text
  <2> HIDE DEF Upto
  <2>3. TextLength(Upto(k + 1)) <= TextLength(t)
    <3> DEFINE s == Upto(k + 1)
    <3>1. /\ s \in Texts /\ s.rooted = t.rooted
          /\ Len(s.names) = k + 1
          /\ \A i \in 1..(k + 1) : s.names[i] = t.names[i]
      BY <2>2
    <3> HIDE DEF s
    <3>2. Len(s.names) <= Len(t.names)
      BY <2>1, <3>1
    <3>3. TextLength(s) <= TextLength(t)
      BY <3>1, <3>2, Shorter
    <3> QED
      BY <3>3 DEF s
  <2>4. TextLength(Upto(k + 1)) \in Int /\ TextLength(t) \in Int /\ MaxPath \in Int
    BY <2>2, TextLengthType, PathAssumption
  <2>5. TextLength(Upto(k + 1)) >= MaxPath
    BY <1>4
  <2> QED
    BY <2>3, <2>4, <2>5
<1> HIDE DEF P
<1>5. whole = n
  BY <1>1, <1>3, <1>4
<1>6. Cut(t) = Upto(whole)
  <2>1. whole = Len(t.names)
    BY <1>5
  <2> QED
    BY <2>1 DEF Cut, P
<1> QED
  BY <1>1, <1>2, <1>5, <1>6

\* A path of one node is that node's text.
LEMMA OneNode ==
    ASSUME NEW path \in DevicePaths, Cardinality(FileNodes(path)) = 1,
           NEW relative
    PROVE  \E k \in DOMAIN path :
              /\ FileNodes(path) = {k} /\ Max(FileNodes(path)) = k
              /\ path[k].text \in Texts
              /\ Beside(path, relative) = Front(path[k].text.names) \o relative
<1>1. /\ path \in Seq([filepath : BOOLEAN, text : Texts])
      /\ DOMAIN path = 1..Len(path)
      /\ \A i \in DOMAIN path :
            /\ path[i].filepath \/ path[i].text = Empty
            /\ path[i] \in [filepath : BOOLEAN, text : Texts]
  <2> DEFINE node == {x \in [filepath : BOOLEAN, text : Texts] :
                        x.filepath \/ x.text = Empty}
  <2>1. path \in Seq(node)
    BY DEF DevicePaths
  <2> HIDE DEF node
  <2>2. DOMAIN path = 1..Len(path) /\ \A i \in DOMAIN path : path[i] \in node
    BY <2>1
  <2>3. node \subseteq [filepath : BOOLEAN, text : Texts]
    BY DEF node
  <2>4. path \in Seq([filepath : BOOLEAN, text : Texts])
    BY <2>1, <2>3, SeqMonotonic
  <2> QED
    BY <2>2, <2>4 DEF node
<1>2. IsFiniteSet(FileNodes(path))
  <2>1. IsFiniteSet(DOMAIN path)
    BY <1>1, FS_Interval
  <2> QED
    BY <2>1, FS_Subset DEF FileNodes
<1>3. PICK k : FileNodes(path) = {k}
  BY <1>2, FS_Singleton
<1>4. k \in DOMAIN path /\ \A i \in DOMAIN path : i # k => path[i].text = Empty
  BY <1>1, <1>3 DEF FileNodes
<1>5. Max(FileNodes(path)) = k
  BY <1>1, <1>3, <1>4 DEF Max
<1> DEFINE seqs == [i \in DOMAIN path |-> path[i].text.names]
<1>6. seqs \in Seq(Seq(DOMAIN Length)) /\ Len(seqs) = Len(path)
  <2>1. Len(path) \in Nat /\ seqs = [i \in 1..Len(path) |-> path[i].text.names]
    BY <1>1
  <2>2. \A i \in DOMAIN path : path[i].text.names \in Seq(DOMAIN Length)
    BY <1>1 DEF Texts
  <2>3. \A i \in 1..Len(path) : path[i].text.names \in Seq(DOMAIN Length)
    BY <1>1, <2>2, Zenon
  <2> QED
    BY <2>1, <2>3
<1>7. \A i \in 1..Len(seqs) : i # k => seqs[i] = <<>>
  BY <1>1, <1>4, <1>6 DEF Empty, Text
<1>8. FlattenSeq(seqs) = seqs[k]
  <2>1. k \in 1..Len(seqs)
    BY <1>1, <1>4, <1>6
  <2> HIDE DEF seqs
  <2> QED
    BY <1>6, <1>7, <2>1, Flattened
<1>9. path[k].text \in Texts
  <2>1. path[k] \in [filepath : BOOLEAN, text : Texts]
    BY <1>1, <1>4
  <2> QED
    BY <2>1
<1> QED
  BY <1>3, <1>4, <1>5, <1>8, <1>9 DEF Beside

\* Where the path of the program carries it, a file is looked for beside it,
\* if anywhere.
LEMMA LookedUpBeside ==
    ASSUME NEW path \in DevicePaths, NEW relative \in Seq(DOMAIN Length),
           Resolvable(path, relative), LookedUp(path, relative) # {}
    PROVE  LookedUp(path, relative) = {Beside(path, relative)}
<1>1. PICK k \in DOMAIN path :
         /\ FileNodes(path) = {k} /\ Max(FileNodes(path)) = k
         /\ path[k].text \in Texts
         /\ Beside(path, relative) = Front(path[k].text.names) \o relative
  BY OneNode DEF Resolvable
<1> DEFINE image == path[k].text
           n == Len(image.names)
           front == Front(image.names)
           dir == IF n = 1 THEN Empty ELSE Text(image.rooted, front)
           full == Text(TRUE, front \o relative)
<1>2. n \in Nat /\ image.names \in Seq(DOMAIN Length) /\ image.rooted \in BOOLEAN
  BY <1>1 DEF Texts
<1>3. /\ front \in Seq(DOMAIN Length)
      /\ n <= 1 => front = <<>>
  <2>1. \A i \in 1..(n - 1) : image.names[i] \in DOMAIN Length
    BY <1>2
  <2>2. front \in Seq(DOMAIN Length)
    BY <1>2, <2>1, SubSeqProperties DEF Front
  <2>3. n <= 1 => front = <<>>
    BY <1>2, SubSeqEmpty DEF Front
  <2> QED
    BY <2>2, <2>3
<1>4. full \in Texts /\ TextLength(full) < MaxPath
  BY <1>1, <1>3 DEF Resolvable, Texts, Text
<1>5. MountGetSelfDir(path) \in {{}, {IF TextLength(dir) < MaxPath THEN dir ELSE Empty}}
  BY <1>1 DEF MountGetSelfDir
<1>6. dir \in Texts /\ (n <= 1 => dir.names = <<>>) /\ (n # 1 => dir.names = front)
  BY <1>2, <1>3 DEF Texts, Text, Empty
<1>7. dir.names \in {<<>>, front} /\ (dir.names = <<>> => front = <<>>)
  <2>1. n = 1 => n <= 1
    OBVIOUS
  <2> HIDE DEF n, dir, front
  <2> QED
    BY <1>3, <1>6, <2>1
<1>8. full.names = front \o relative /\ full.rooted
  BY DEF Text
<1>9. full.names \in Seq(DOMAIN Length)
  <2> HIDE DEF front, full
  <2> QED
    BY <1>3, <1>8, ConcatProperties
<1>10. TextLength(dir) < MaxPath
  <2>1. Len(dir.names) <= Len(full.names)
        /\ \A i \in 1..Len(dir.names) : dir.names[i] = full.names[i]
    <3> HIDE DEF front, dir, full
    <3> QED
      BY <1>7, <1>8, <1>3, ConcatProperties
  <2>2. full.rooted
    BY <1>8
  <2> HIDE DEF dir, full
  <2>3. TextLength(dir) <= TextLength(full)
    BY <1>4, <1>6, <2>1, <2>2, Shorter
  <2> QED
    BY <1>4, <1>6, <2>3, TextLengthType, PathAssumption
<1>11. MountJoinSelfPath(dir, relative).names = front \o relative
  <2>1. CASE dir.names = <<>>
    <3>1. front = <<>>
      BY <1>7, <2>1
    <3>2. <<>> \o relative = relative
      BY ConcatEmptySeq
    <3> QED
      BY <2>1, <3>1, <3>2 DEF MountJoinSelfPath, Text
  <2>2. CASE dir.names # <<>>
    <3> DEFINE t == Text(dir.rooted, dir.names \o relative)
    <3>1. dir.names = front
      BY <1>7, <2>2
    <3>2. dir.rooted \in BOOLEAN
      BY <1>6 DEF Texts
    <3>3. t.names = full.names /\ t.rooted = dir.rooted
      BY <1>8, <3>1 DEF Text
    <3>4. t \in Texts
      <4>1. t = [rooted |-> dir.rooted, names |-> full.names]
        BY <1>8, <3>1 DEF Text
      <4> HIDE DEF t, dir, full
      <4> QED
        BY <4>1, <3>2, <1>9 DEF Texts
    <3> HIDE DEF t, full
    <3>5. TextLength(t) <= TextLength(full)
      <4>1. Len(t.names) <= Len(full.names)
        BY <1>9, <3>3, LenProperties
      <4> QED
        BY <1>4, <1>8, <3>3, <3>4, <4>1, Shorter
    <3>6. TextLength(t) < MaxPath
      BY <1>4, <3>4, <3>5, TextLengthType, PathAssumption
    <3>7. Cut(t).names = t.names
      BY <3>4, <3>6, NotCut
    <3> QED
      BY <2>2, <1>8, <3>3, <3>7 DEF MountJoinSelfPath, t
  <2> QED
    BY <2>1, <2>2
<1>12. MountGetSelfDir(path) = {dir}
  <2>1. MountGetSelfDir(path) # {}
    BY DEF LookedUp
  <2> HIDE DEF dir
  <2> QED
    BY <1>5, <1>10, <2>1
<1> HIDE DEF dir
<1> QED
  BY <1>1, <1>11, <1>12 DEF LookedUp

-----------------------------------------------------------------------------
(* Counting *)

\* The number of drivers is one.
LEMMA DriverCount == Len(DriverFile) \in Nat
BY SelfTestAssumption

\* A driver that is looked at is followed by another, or by the end.
LEMMA DriverAfter ==
    ASSUME SelfTestTypeOK, test.driver <= Len(DriverFile)
    PROVE  test.driver + 1 \in 1..(Len(DriverFile) + 1)
<1>1. test.driver \in 1..(Len(DriverFile) + 1)
  BY DEF SelfTestTypeOK, Test
<1> QED
  BY <1>1, DriverCount

\* A test has room for one more failed item, and during the second item for
\* the two that are left.
LEMMA FailureCount ==
    ASSUME TestIInv
    PROVE  /\ test.failures \in 0..2
           /\ ~ At("idle") => test.failures \in 0..1 /\ test.failures + 1 \in 0..2
           /\ test.pc \in {"drivers", "lookup", "present"} => test.failures = 0
<1>1. test.failures \in 0..2
  BY DEF TestIInv, SelfTestTypeOK, Test
<1>2. /\ ~ At("idle") => test.failures <= 1
      /\ test.pc \in {"drivers", "lookup", "present"} => test.failures = 0
  BY DEF TestIInv, TestConsistent
<1> QED
  BY <1>1, <1>2

\* How LoopDiskSelfTest returns.
LEMMA Finished ==
    ASSUME TestIInv, ~ At("idle"), NEW status, Finish(status)
    PROVE  \E n \in 0..2, r \in {"ALL PASS", "FAILED"} :
              /\ test' = [test EXCEPT !.pc = "idle", !.buffers = FALSE,
                                      !.file = None, !.failures = n, !.result = r]
              /\ r = "ALL PASS" => test.failures = 0 /\ ~ EfiError(status)
<1> DEFINE n == test.failures + (IF EfiError(status) THEN 1 ELSE 0)
           r == IF n = 0 THEN "ALL PASS" ELSE "FAILED"
<1>1. n \in 0..2 /\ (n = 0 => test.failures = 0 /\ ~ EfiError(status))
  BY FailureCount
<1>2. test' = [test EXCEPT !.pc = "idle", !.buffers = FALSE,
                           !.file = None, !.failures = n, !.result = r]
  BY DEF Finish
<1>3. r \in {"ALL PASS", "FAILED"} /\ (r = "ALL PASS" => n = 0)
  OBVIOUS
<1> HIDE DEF n, r
<1> QED
  BY <1>1, <1>2, <1>3

-----------------------------------------------------------------------------
(* Files and devices *)

\* Files are held as before if no file, device or File is touched.
LEMMA SameFiles ==
    ASSUME FilesHeld, UNCHANGED <<open, mounted>>, test'.file = test.file
    PROVE  FilesHeld'
BY DEF FilesHeld

\* A file is opened.
LEMMA FileOpened ==
    ASSUME FilesHeld, test.file = None, NEW f, f # None, f \notin open,
           open' = open \union {f}, mounted' = mounted, test'.file = f
    PROVE  FilesHeld'
BY DEF FilesHeld

\* It is closed.
LEMMA FileClosed ==
    ASSUME FilesHeld, open' = open \ {test.file}, mounted' = mounted,
           test'.file = None
    PROVE  FilesHeld'
BY DEF FilesHeld

\* It goes to a device.
LEMMA FileMounted ==
    ASSUME SelfTestTypeOK, FilesHeld, NEW h \in Handle, mounted[h] = None,
           test.file # None, mounted' = [mounted EXCEPT ![h] = test.file],
           open' = open, test'.file = None
    PROVE  FilesHeld'
<1>1. /\ mounted'[h] = test.file
      /\ \A k \in Handle \ {h} : mounted'[k] = mounted[k]
  BY DEF SelfTestTypeOK, Test
<1>2. {mounted'[k] : k \in Handle} \ {None} =
          ({mounted[k] : k \in Handle} \union {test.file}) \ {None}
  BY <1>1
<1> QED
  BY <1>1, <1>2 DEF FilesHeld

\* It comes back from one.
LEMMA FileUnmounted ==
    ASSUME SelfTestTypeOK, FilesHeld, test.file = None,
           NEW h \in Handle, mounted[h] # None,
           mounted' = [mounted EXCEPT ![h] = None],
           open' = open, test'.file = mounted[h]
    PROVE  FilesHeld'
<1>1. /\ mounted'[h] = None
      /\ \A k \in Handle \ {h} : mounted'[k] = mounted[k]
  BY DEF SelfTestTypeOK, Test
<1>2. ({mounted'[k] : k \in Handle} \union {mounted[h]}) \ {None} =
          {mounted[k] : k \in Handle} \ {None}
  BY <1>1
<1> QED
  BY <1>1, <1>2 DEF FilesHeld

-----------------------------------------------------------------------------
(* The inductive invariant *)

\* It holds at the start.
LEMMA SelfTestInit_IInv == SelfTestInit => TestIInv
<1> SUFFICES ASSUME SelfTestInit PROVE TestIInv
  OBVIOUS
<1> USE DEF SelfTestInit, NewTest
<1>1. SelfTestTypeOK
  <2>1. /\ open \subseteq File /\ mounted \in [Handle -> File \union {None}]
        /\ temp \in BOOLEAN
    OBVIOUS
  <2>2. 1 \in 1..(Len(DriverFile) + 1) /\ 0 \in 0..2
    BY DriverCount
  <2> QED
    BY <2>1, <2>2 DEF SelfTestTypeOK, Test
<1>2. FilesHeld
  BY DEF FilesHeld
<1>3. TestConsistent /\ DeviceConsistent
  BY DEF TestConsistent, DeviceConsistent, At
<1> QED
  BY <1>1, <1>2, <1>3 DEF TestIInv

\* The driver files: volume, file, close, and the count at the end.
LEMMA DriverFilesInv ==
    ASSUME TestIInv,
           \/ MountSelfTest \/ OpenVolume \/ OpenVolumeFails
           \/ OpenDriver \/ OpenDriverFails \/ CloseDriver \/ DriversDone
    PROVE  TestIInv'
<1> USE DriverCount, SelfTestAssumption DEF TestIInv, At
<1>1. CASE MountSelfTest
  <2>1. /\ test'.pc = "drivers" /\ test'.failures = 0 /\ test'.driver = 1
        /\ test'.all /\ ~ test'.root /\ ~ test'.dfile /\ ~ test'.buffers
        /\ test'.file = None /\ ~ test'.ok /\ test'.result = "none"
    BY <1>1 DEF MountSelfTest, NewTest
  <2>2. 1 \in 1..(Len(DriverFile) + 1) /\ 0 \in 0..2 /\ 0 <= 1
    BY <1>1
  <2>3. SelfTestTypeOK'
    BY <1>1, <2>1, <2>2 DEF MountSelfTest, NewTest, SelfTestTypeOK, Test
  <2>4. FilesHeld'
    BY <1>1, <2>1, <2>2, SameFiles DEF MountSelfTest, NewTest, TestConsistent
  <2>5. TestConsistent'
    BY <1>1, <2>1, <2>2 DEF MountSelfTest, NewTest, TestConsistent
  <2>6. DeviceConsistent'
    BY <1>1, <2>1, <2>2 DEF MountSelfTest, NewTest, DeviceConsistent
  <2> QED
    BY <2>3, <2>4, <2>5, <2>6
<1>2. CASE OpenVolume
  <2>1. SelfTestTypeOK'
    BY <1>2 DEF OpenVolume, MoreDrivers, SelfTestTypeOK, Test
  <2>2. FilesHeld'
    BY <1>2, SameFiles DEF OpenVolume, MoreDrivers
  <2>3. TestConsistent'
    BY <1>2 DEF OpenVolume, MoreDrivers, TestConsistent
  <2>4. DeviceConsistent'
    BY <1>2 DEF OpenVolume, MoreDrivers, DeviceConsistent
  <2> QED
    BY <2>1, <2>2, <2>3, <2>4
<1>3. CASE OpenVolumeFails
  <2>1. test.driver + 1 \in 1..(Len(DriverFile) + 1)
    BY <1>3, DriverAfter DEF OpenVolumeFails, MoreDrivers
  <2>2. SelfTestTypeOK'
    BY <1>3, <2>1 DEF OpenVolumeFails, MoreDrivers, NextDriver, SelfTestTypeOK, Test
  <2>3. FilesHeld'
    BY <1>3, <2>1, SameFiles DEF OpenVolumeFails, MoreDrivers, NextDriver
  <2>4. TestConsistent'
    BY <1>3, <2>1 DEF OpenVolumeFails, MoreDrivers, NextDriver, TestConsistent
  <2>5. DeviceConsistent'
    BY <1>3, <2>1 DEF OpenVolumeFails, MoreDrivers, NextDriver, DeviceConsistent
  <2> QED
    BY <2>2, <2>3, <2>4, <2>5
<1>4. CASE OpenDriver
  <2>1. SelfTestTypeOK'
    BY <1>4 DEF OpenDriver, SelfTestTypeOK, Test
  <2>2. FilesHeld'
    BY <1>4, SameFiles DEF OpenDriver
  <2>3. TestConsistent'
    BY <1>4 DEF OpenDriver, TestConsistent
  <2>4. DeviceConsistent'
    BY <1>4 DEF OpenDriver, DeviceConsistent
  <2> QED
    BY <2>1, <2>2, <2>3, <2>4
<1>5. CASE OpenDriverFails
  <2>1. test.driver + 1 \in 1..(Len(DriverFile) + 1)
    BY <1>5, DriverAfter DEF OpenDriverFails, TestConsistent
  <2>2. SelfTestTypeOK'
    BY <1>5, <2>1 DEF OpenDriverFails, NextDriver, SelfTestTypeOK, Test
  <2>3. FilesHeld'
    BY <1>5, <2>1, SameFiles DEF OpenDriverFails, NextDriver
  <2>4. TestConsistent'
    BY <1>5, <2>1 DEF OpenDriverFails, NextDriver, TestConsistent
  <2>5. DeviceConsistent'
    BY <1>5, <2>1 DEF OpenDriverFails, NextDriver, DeviceConsistent
  <2> QED
    BY <2>2, <2>3, <2>4, <2>5
<1>6. CASE CloseDriver
  <2>1. test.driver + 1 \in 1..(Len(DriverFile) + 1)
    BY <1>6, DriverAfter DEF CloseDriver, TestConsistent
  <2>2. SelfTestTypeOK'
    BY <1>6, <2>1 DEF CloseDriver, NextDriver, SelfTestTypeOK, Test
  <2>3. FilesHeld'
    BY <1>6, <2>1, SameFiles DEF CloseDriver, NextDriver
  <2>4. TestConsistent'
    BY <1>6, <2>1 DEF CloseDriver, NextDriver, TestConsistent
  <2>5. DeviceConsistent'
    BY <1>6, <2>1 DEF CloseDriver, NextDriver, DeviceConsistent
  <2> QED
    BY <2>2, <2>3, <2>4, <2>5
<1>7. CASE DriversDone
  <2>1. test.failures + (IF test.all THEN 0 ELSE 1) \in 0..1
    BY <1>7, FailureCount DEF DriversDone
  <2>2. PICK n \in 0..1 : test' = [test EXCEPT !.pc = "allocate", !.failures = n]
    BY <1>7, <2>1 DEF DriversDone
  <2>3. n \in 0..2 /\ n <= 1
    BY <1>7, <2>2
  <2>4. SelfTestTypeOK'
    BY <1>7, <2>1, <2>2, <2>3 DEF DriversDone, SelfTestTypeOK, Test
  <2>5. FilesHeld'
    BY <1>7, <2>1, <2>2, <2>3, SameFiles DEF DriversDone
  <2>6. TestConsistent'
    BY <1>7, <2>1, <2>2, <2>3 DEF DriversDone, TestConsistent
  <2>7. DeviceConsistent'
    BY <1>7, <2>1, <2>2, <2>3 DEF DriversDone, DeviceConsistent
  <2> QED
    BY <2>4, <2>5, <2>6, <2>7
<1> QED
  BY <1>1, <1>2, <1>3, <1>4, <1>5, <1>6, <1>7

\* The steps of the loop test that touch neither files nor devices.
LEMMA BareStepInv ==
    ASSUME TestIInv,
           \/ AllocateBuffers \/ AllocateFails \/ OpenTempFails
           \/ ReadBack \/ DestroyFails
    PROVE  TestIInv'
<1> USE DriverCount, SelfTestAssumption DEF TestIInv, At
<1>1. CASE AllocateBuffers
  <2>1. SelfTestTypeOK'
    BY <1>1 DEF AllocateBuffers, SelfTestTypeOK, Test
  <2>2. FilesHeld'
    BY <1>1, SameFiles DEF AllocateBuffers
  <2>3. TestConsistent'
    BY <1>1 DEF AllocateBuffers, TestConsistent
  <2>4. DeviceConsistent'
    BY <1>1 DEF AllocateBuffers, DeviceConsistent
  <2> QED
    BY <2>1, <2>2, <2>3, <2>4
<1>2. CASE AllocateFails
  <2>1. PICK n \in 0..2, r \in {"ALL PASS", "FAILED"} :
            test' = [test EXCEPT !.pc = "idle", !.buffers = FALSE,
                                 !.file = None, !.failures = n, !.result = r]
    BY <1>2, Finished DEF AllocateFails
  <2>2. SelfTestTypeOK'
    BY <1>2, <2>1 DEF AllocateFails, SelfTestTypeOK, Test
  <2>3. FilesHeld'
    BY <1>2, <2>1, SameFiles DEF AllocateFails, SelfTestTypeOK, Test, TestConsistent
  <2>4. TestConsistent'
    BY <1>2, <2>1 DEF AllocateFails, SelfTestTypeOK, Test, TestConsistent
  <2>5. DeviceConsistent'
    BY <1>2, <2>1 DEF AllocateFails, SelfTestTypeOK, Test, DeviceConsistent
  <2> QED
    BY <2>2, <2>3, <2>4, <2>5
<1>3. CASE OpenTempFails
  <2>1. PICK n \in 0..2, r \in {"ALL PASS", "FAILED"} :
            test' = [test EXCEPT !.pc = "idle", !.buffers = FALSE,
                                 !.file = None, !.failures = n, !.result = r]
    BY <1>3, Finished DEF OpenTempFails
  <2>2. SelfTestTypeOK'
    BY <1>3, <2>1 DEF OpenTempFails, SelfTestTypeOK, Test
  <2>3. FilesHeld'
    BY <1>3, <2>1, SameFiles DEF OpenTempFails, SelfTestTypeOK, Test, TestConsistent
  <2>4. TestConsistent'
    BY <1>3, <2>1 DEF OpenTempFails, SelfTestTypeOK, Test, TestConsistent
  <2>5. DeviceConsistent'
    BY <1>3, <2>1 DEF OpenTempFails, SelfTestTypeOK, Test, DeviceConsistent
  <2> QED
    BY <2>2, <2>3, <2>4, <2>5
<1>4. CASE ReadBack
  <2>1. PICK good \in BOOLEAN :
            test' = [test EXCEPT !.pc = "destroy", !.ok = good, !.trip = good]
    BY <1>4 DEF ReadBack
  <2>2. SelfTestTypeOK'
    BY <1>4, <2>1 DEF ReadBack, SelfTestTypeOK, Test
  <2>3. FilesHeld'
    BY <1>4, <2>1, SameFiles DEF ReadBack, SelfTestTypeOK, Test
  <2>4. TestConsistent'
    BY <1>4, <2>1 DEF ReadBack, SelfTestTypeOK, Test, TestConsistent
  <2>5. DeviceConsistent'
    BY <1>4, <2>1 DEF ReadBack, SelfTestTypeOK, Test, DeviceConsistent
  <2> QED
    BY <2>2, <2>3, <2>4, <2>5
<1>5. CASE DestroyFails
  <2>1. SelfTestTypeOK'
    BY <1>5 DEF DestroyFails, SelfTestTypeOK, Test
  <2>2. FilesHeld'
    BY <1>5, SameFiles DEF DestroyFails
  <2>3. TestConsistent'
    BY <1>5 DEF DestroyFails, TestConsistent
  <2>4. DeviceConsistent'
    BY <1>5 DEF DestroyFails, DeviceConsistent
  <2> QED
    BY <2>1, <2>2, <2>3, <2>4
<1> QED
  BY <1>1, <1>2, <1>3, <1>4, <1>5

\* The temporary file, while the test writes it.
LEMMA TempFileInv ==
    ASSUME TestIInv,
           (\E f \in File : OpenTemp(f)) \/ WriteTemp \/ WriteTempFails
    PROVE  TestIInv'
<1> USE DriverCount, SelfTestAssumption DEF TestIInv, At
<1>1. ASSUME NEW f \in File, OpenTemp(f) PROVE TestIInv'
  <2>1. SelfTestTypeOK'
    BY <1>1 DEF OpenTemp, SelfTestTypeOK, Test
  <2>2. FilesHeld'
    BY <1>1, FileOpened DEF OpenTemp, SelfTestTypeOK, Test, TestConsistent
  <2>3. TestConsistent'
    BY <1>1 DEF OpenTemp, SelfTestTypeOK, Test, TestConsistent
  <2>4. DeviceConsistent'
    BY <1>1 DEF OpenTemp, SelfTestTypeOK, Test, DeviceConsistent
  <2> QED
    BY <2>1, <2>2, <2>3, <2>4
<1>2. CASE WriteTemp
  <2>1. SelfTestTypeOK'
    BY <1>2 DEF WriteTemp, SelfTestTypeOK, Test
  <2>2. FilesHeld'
    BY <1>2, FileClosed DEF WriteTemp
  <2>3. TestConsistent'
    BY <1>2 DEF WriteTemp, TestConsistent
  <2>4. DeviceConsistent'
    BY <1>2 DEF WriteTemp, DeviceConsistent
  <2> QED
    BY <2>1, <2>2, <2>3, <2>4
<1>3. CASE WriteTempFails
  <2>1. PICK n \in 0..2, r \in {"ALL PASS", "FAILED"} :
            test' = [test EXCEPT !.pc = "idle", !.buffers = FALSE,
                                 !.file = None, !.failures = n, !.result = r]
    BY <1>3, Finished DEF WriteTempFails
  <2>2. SelfTestTypeOK'
    BY <1>3, <2>1 DEF WriteTempFails, SelfTestTypeOK, Test
  <2>3. FilesHeld'
    BY <1>3, <2>1, FileClosed DEF WriteTempFails, SelfTestTypeOK, Test
  <2>4. TestConsistent'
    BY <1>3, <2>1 DEF WriteTempFails, SelfTestTypeOK, Test, TestConsistent
  <2>5. DeviceConsistent'
    BY <1>3, <2>1 DEF WriteTempFails, SelfTestTypeOK, Test, DeviceConsistent
  <2> QED
    BY <2>2, <2>3, <2>4, <2>5
<1> QED
  BY <1>1, <1>2, <1>3

\* The device over it.
LEMMA DeviceInv ==
    ASSUME TestIInv,
           \/ \E f \in File : OpenAsImage(f)
           \/ \E h \in Handle : LoopCreateOk(h)
           \/ \E s \in CreateStatus : LoopCreateFails(s)
           \/ DestroyOk \/ CloseTemp \/ DeleteTemp
    PROVE  TestIInv'
<1> USE DriverCount, SelfTestAssumption DEF TestIInv, At
<1>1. ASSUME NEW f \in File, OpenAsImage(f) PROVE TestIInv'
  <2>1. SelfTestTypeOK'
    BY <1>1 DEF OpenAsImage, SelfTestTypeOK, Test
  <2>2. FilesHeld'
    BY <1>1, FileOpened DEF OpenAsImage, SelfTestTypeOK, Test, TestConsistent
  <2>3. TestConsistent'
    BY <1>1 DEF OpenAsImage, SelfTestTypeOK, Test, TestConsistent
  <2>4. DeviceConsistent'
    BY <1>1 DEF OpenAsImage, SelfTestTypeOK, Test, DeviceConsistent
  <2> QED
    BY <2>1, <2>2, <2>3, <2>4
<1>2. ASSUME NEW h \in Handle, LoopCreateOk(h) PROVE TestIInv'
  <2>1. SelfTestTypeOK'
    BY <1>2 DEF LoopCreateOk, SelfTestTypeOK, Test
  <2>2. FilesHeld'
    BY <1>2, FileMounted DEF LoopCreateOk, SelfTestTypeOK, Test, TestConsistent
  <2>3. TestConsistent'
    BY <1>2 DEF LoopCreateOk, SelfTestTypeOK, Test, TestConsistent
  <2>4. DeviceConsistent'
    BY <1>2 DEF LoopCreateOk, SelfTestTypeOK, Test, TestConsistent, DeviceConsistent
  <2> QED
    BY <2>1, <2>2, <2>3, <2>4
<1>3. ASSUME NEW s \in CreateStatus, LoopCreateFails(s) PROVE TestIInv'
  <2>1. SelfTestTypeOK'
    BY <1>3 DEF LoopCreateFails, SelfTestTypeOK, Test
  <2>2. FilesHeld'
    BY <1>3, FileClosed DEF LoopCreateFails
  <2>3. TestConsistent'
    BY <1>3 DEF LoopCreateFails, TestConsistent
  <2>4. DeviceConsistent'
    BY <1>3 DEF LoopCreateFails, DeviceConsistent
  <2> QED
    BY <2>1, <2>2, <2>3, <2>4
<1>4. CASE DestroyOk
  <2>1. /\ test.handle \in Handle /\ mounted[test.handle] \in File
        /\ test.file = None
    BY <1>4 DEF DestroyOk, SelfTestTypeOK, Test, TestConsistent, DeviceConsistent
  <2>2. SelfTestTypeOK'
    BY <1>4, <2>1 DEF DestroyOk, SelfTestTypeOK, Test
  <2>3. FilesHeld'
    BY <1>4, <2>1, FileUnmounted DEF DestroyOk, SelfTestTypeOK, Test
  <2>4. TestConsistent'
    BY <1>4, <2>1 DEF DestroyOk, TestConsistent
  <2>5. DeviceConsistent'
    BY <1>4, <2>1 DEF DestroyOk, SelfTestTypeOK, Test, DeviceConsistent
  <2> QED
    BY <2>2, <2>3, <2>4, <2>5
<1>5. CASE CloseTemp
  <2>1. SelfTestTypeOK'
    BY <1>5 DEF CloseTemp, SelfTestTypeOK, Test
  <2>2. FilesHeld'
    BY <1>5, FileClosed DEF CloseTemp
  <2>3. TestConsistent'
    BY <1>5 DEF CloseTemp, TestConsistent
  <2>4. DeviceConsistent'
    BY <1>5 DEF CloseTemp, DeviceConsistent
  <2> QED
    BY <2>1, <2>2, <2>3, <2>4
<1>6. CASE DeleteTemp
  <2>1. PICK n \in 0..2, r \in {"ALL PASS", "FAILED"} :
            test' = [test EXCEPT !.pc = "idle", !.buffers = FALSE,
                                 !.file = None, !.failures = n, !.result = r]
    BY <1>6, Finished DEF DeleteTemp
  <2>2. SelfTestTypeOK'
    BY <1>6, <2>1 DEF DeleteTemp, SelfTestTypeOK, Test
  <2>3. FilesHeld'
    BY <1>6, <2>1, SameFiles DEF DeleteTemp, SelfTestTypeOK, Test, TestConsistent
  <2>4. TestConsistent'
    BY <1>6, <2>1 DEF DeleteTemp, SelfTestTypeOK, Test, TestConsistent
  <2>5. DeviceConsistent'
    BY <1>6, <2>1 DEF DeleteTemp, SelfTestTypeOK, Test, DeviceConsistent
  <2> QED
    BY <2>2, <2>3, <2>4, <2>5
<1> QED
  BY <1>1, <1>2, <1>3, <1>4, <1>5, <1>6

\* Every step preserves it.
LEMMA SelfTestStepIInv == TestIInv /\ [SelfTestNext]_selfVars => TestIInv'
<1> SUFFICES ASSUME TestIInv, [SelfTestNext]_selfVars PROVE TestIInv'
  OBVIOUS
<1>1. CASE UNCHANGED selfVars
  <2>1. /\ open' = open /\ mounted' = mounted /\ temp' = temp
        /\ place' = place /\ test' = test
    BY <1>1 DEF selfVars
  <2>2. SelfTestTypeOK'
    BY <2>1 DEF TestIInv, SelfTestTypeOK
  <2>3. FilesHeld'
    BY <2>1, SameFiles DEF TestIInv
  <2>4. TestConsistent' /\ DeviceConsistent'
    BY <2>1 DEF TestIInv, TestConsistent, DeviceConsistent, At
  <2> QED
    BY <2>2, <2>3, <2>4 DEF TestIInv
<1>2. CASE SelfTestNext
  BY <1>2, DriverFilesInv, BareStepInv, TempFileInv, DeviceInv
  DEF SelfTestNext, TestStep
<1> QED
  BY <1>1, <1>2

\* Between tests no file is open but those of devices.
LEMMA CleanWhenIdle == TestIInv => NothingElseLeft
<1> SUFFICES ASSUME TestIInv, At("idle") PROVE NothingElseLeft
  BY DEF NothingElseLeft
<1>1. test.file = None /\ ~ test.buffers /\ ~ test.root /\ ~ test.dfile
  BY DEF TestIInv, TestConsistent, At
<1>2. open = {mounted[h] : h \in Handle} \ {None}
  BY <1>1 DEF TestIInv, FilesHeld
<1>3. \A h \in Handle : mounted[h] \in File \union {None}
  BY DEF TestIInv, SelfTestTypeOK, Test
<1>4. open = {f \in File : \E h \in Handle : mounted[h] = f}
  BY <1>2, <1>3, SelfTestAssumption
<1> QED
  BY <1>1, <1>4 DEF NothingElseLeft

-----------------------------------------------------------------------------
(* The drivers a test has been through *)

\* No step moves the program or its volume.
LEMMA SamePlace ==
    ASSUME [SelfTestNext]_selfVars
    PROVE  /\ place' = place
           /\ \A i \in DOMAIN DriverFile : Found(i)' <=> Found(i)
<1>1. place' = place
  BY DEF SelfTestNext, selfVars, MountSelfTest, TestStep, OpenVolume,
         OpenVolumeFails, OpenDriver, OpenDriverFails, CloseDriver, DriversDone,
         AllocateBuffers, AllocateFails, OpenTemp, OpenTempFails, WriteTemp,
         WriteTempFails, OpenAsImage, LoopCreateOk, LoopCreateFails, ReadBack,
         DestroyOk, DestroyFails, CloseTemp, DeleteTemp
<1> QED
  BY <1>1 DEF Found

\* At the start no driver has been looked at.
LEMMA SelfTestInit_Seen == SelfTestInit => DriversSeen
BY DriverCount DEF SelfTestInit, NewTest, DriversSeen, At

\* The second item, one step at a time.
LEMMA DriverStepSeen ==
    ASSUME TestIInv, DriversSeen, [SelfTestNext]_selfVars,
           \/ MountSelfTest \/ OpenVolume \/ OpenVolumeFails
           \/ OpenDriver \/ OpenDriverFails \/ CloseDriver \/ DriversDone
    PROVE  DriversSeen'
<1> USE DriverCount, SamePlace DEF At
<1>1. /\ test \in Test
      /\ ~ At("idle") => test.result = "none"
      /\ test.pc \in {"lookup", "present"} => test.driver <= Len(DriverFile)
      /\ test.pc \in {"drivers", "lookup", "present"} => test.failures = 0
  BY DEF TestIInv, SelfTestTypeOK, TestConsistent
<1>2. test.driver \in 1..(Len(DriverFile) + 1)
  BY <1>1 DEF Test
<1>3. DOMAIN DriverFile = 1..Len(DriverFile)
  BY SelfTestAssumption
<1>4. test.driver <= Len(DriverFile) => test.driver \in DOMAIN DriverFile
  BY <1>2, <1>3
<1>5. CASE MountSelfTest
  <2>1. /\ test'.pc = "drivers" /\ test'.driver = 1 /\ test'.result = "none"
    BY <1>5 DEF MountSelfTest, NewTest
  <2>2. 1..(test'.driver - 1) = {}
    BY <2>1
  <2> QED
    BY <2>1, <2>2 DEF DriversSeen
<1>6. CASE OpenVolume
  <2>1. /\ test'.pc = "lookup" /\ test'.driver = test.driver
        /\ test'.all = test.all /\ test'.result = "none" /\ At("drivers")
        /\ test.driver <= Len(DriverFile) /\ Target # {}
    BY <1>1, <1>6 DEF OpenVolume, MoreDrivers, Test
  <2>2. Target' = Target
    BY <2>1 DEF Target
  <2>3. 1..(test.driver - 1) \subseteq DOMAIN DriverFile
    BY <1>2, <1>3
  <2>4. test'.all => \A i \in 1..(test'.driver - 1) : Found(i)'
    BY <2>1, <2>3 DEF DriversSeen
  <2> QED
    BY <2>1, <2>2, <2>4 DEF DriversSeen
<1>7. CASE OpenVolumeFails \/ OpenDriverFails
  <2>1. test'.pc = "drivers" /\ ~ test'.all /\ test'.result = "none"
    BY <1>1, <1>7 DEF OpenVolumeFails, OpenDriverFails, MoreDrivers, NextDriver, Test
  <2> QED
    BY <2>1 DEF DriversSeen
<1>8. CASE OpenDriver
  <2>1. /\ test'.pc = "present" /\ test'.driver = test.driver
        /\ test'.all = test.all /\ test'.result = "none" /\ At("lookup")
        /\ test.driver \in DOMAIN DriverFile /\ Target \subseteq place.tree
    BY <1>1, <1>4, <1>8 DEF OpenDriver, Test
  <2>2. Found(test.driver)
    BY <2>1 DEF DriversSeen, Found, Target
  <2>3. Found(test.driver)'
    BY <2>1, <2>2 DEF Found
  <2>4. 1..(test.driver - 1) \subseteq DOMAIN DriverFile
    BY <1>2, <1>3
  <2>5. test'.all => \A i \in 1..(test'.driver - 1) : Found(i)'
    BY <2>1, <2>4 DEF DriversSeen
  <2> QED
    BY <2>1, <2>3, <2>5 DEF DriversSeen
<1>9. CASE CloseDriver
  <2>1. /\ test'.pc = "drivers" /\ test'.driver = test.driver + 1
        /\ test'.all = test.all /\ test'.result = "none" /\ At("present")
        /\ test.driver \in DOMAIN DriverFile
    BY <1>1, <1>4, <1>9 DEF CloseDriver, NextDriver, Test
  <2>2. \A i \in 1..(test'.driver - 1) :
            i \in DOMAIN DriverFile /\ (i = test.driver \/ i \in 1..(test.driver - 1))
    BY <1>2, <1>3, <2>1
  <2>3. Found(test.driver) /\ (test.all => \A i \in 1..(test.driver - 1) : Found(i))
    BY <2>1 DEF DriversSeen
  <2>4. test'.all => \A i \in 1..(test'.driver - 1) : Found(i)'
    BY <2>1, <2>2, <2>3
  <2> QED
    BY <2>1, <2>4 DEF DriversSeen
<1>10. CASE DriversDone
  <2>1. /\ test'.pc = "allocate" /\ At("drivers") /\ test'.result = "none"
        /\ test'.failures = test.failures + (IF test.all THEN 0 ELSE 1)
        /\ test.driver > Len(DriverFile)
    BY <1>1, <1>10 DEF DriversDone, Test
  <2>2. DOMAIN DriverFile \subseteq 1..(test.driver - 1)
    BY <1>2, <1>3, <2>1
  <2>3. test'.failures = 0 => test.all
    BY <1>1, <2>1
  <2>4. test'.failures = 0 => \A i \in DOMAIN DriverFile : Found(i)'
    BY <2>1, <2>2, <2>3 DEF DriversSeen
  <2> QED
    BY <2>1, <2>4 DEF DriversSeen
<1> QED
  BY <1>5, <1>6, <1>7, <1>8, <1>9, <1>10

\* The loop test does not forget a driver that was missing.
LEMMA LoopStepSeen ==
    ASSUME TestIInv, DriversSeen, TestStep,
           ~ (OpenVolume \/ OpenVolumeFails \/ OpenDriver \/ OpenDriverFails
              \/ CloseDriver \/ DriversDone)
    PROVE  DriversSeen'
<1>1. test.pc \notin {"idle", "drivers", "lookup", "present"}
  BY DEF TestStep, AllocateBuffers, AllocateFails, OpenTemp, OpenTempFails,
         WriteTemp, WriteTempFails, OpenAsImage, LoopCreateOk, LoopCreateFails,
         ReadBack, DestroyOk, DestroyFails, CloseTemp, DeleteTemp, At
<1>2. /\ test'.pc \notin {"drivers", "lookup", "present"}
      /\ \/ test'.result = "ALL PASS"
         \/ test'.pc # "idle" /\ test'.failures = 0
         => test.failures = 0
  <2>1. CASE \E status : Finish(status)
    BY <1>1, <2>1, Finished DEF At, TestIInv, SelfTestTypeOK, Test
  <2>2. CASE ~ \E status : Finish(status)
    <3>1. /\ test'.failures = test.failures /\ test'.result = test.result
          /\ test'.pc \notin {"drivers", "lookup", "present"}
      BY <2>2
      DEF TestStep, AllocateBuffers, AllocateFails, OpenTemp, OpenTempFails,
          WriteTemp, WriteTempFails, OpenAsImage, LoopCreateOk, LoopCreateFails,
          ReadBack, DestroyOk, DestroyFails, CloseTemp, DeleteTemp,
          TestIInv, SelfTestTypeOK, Test
    <3>2. test.result = "none"
      BY <1>1 DEF TestIInv, TestConsistent, At
    <3> QED
      BY <3>1, <3>2
  <2> QED
    BY <2>1, <2>2
<1>3. test.failures = 0 => \A i \in DOMAIN DriverFile : Found(i)'
  BY <1>1, SamePlace DEF DriversSeen, SelfTestNext
<1> QED
  BY <1>2, <1>3 DEF DriversSeen, At

\* What a test knows of the drivers it keeps.
LEMMA SelfTestStepSeen ==
    TestIInv /\ DriversSeen /\ [SelfTestNext]_selfVars => DriversSeen'
<1> SUFFICES ASSUME TestIInv, DriversSeen, [SelfTestNext]_selfVars
             PROVE  DriversSeen'
  OBVIOUS
<1>1. CASE UNCHANGED selfVars
  BY <1>1 DEF selfVars, DriversSeen, Found, Target, At
<1>2. CASE \/ MountSelfTest \/ OpenVolume \/ OpenVolumeFails
           \/ OpenDriver \/ OpenDriverFails \/ CloseDriver \/ DriversDone
  BY <1>2, DriverStepSeen
<1> QED
  BY <1>1, <1>2, LoopStepSeen DEF SelfTestNext

\* However many tests have been made, nothing is left of them but the devices
\* they could not destroy, each with its file open; and a test that counts no
\* failed item has found every driver.
THEOREM SelfTestInvariance == SelfTestSpec => []SelfTestInv
<1>1. TestIInv /\ DriversSeen => SelfTestInv
  BY CleanWhenIdle DEF SelfTestInv
<1> QED
  BY <1>1, SelfTestInit_IInv, SelfTestStepIInv, SelfTestInit_Seen,
     SelfTestStepSeen, PTL
  DEF SelfTestSpec

\* ALL PASS says that the drivers are in the directory of mount.efi, wherever
\* its path is one node and short enough: where MountGetSelfDir and
\* MountJoinSelfPath look is the place that is meant.
THEOREM DriversBeside == SelfTestSpec => []PassMeansDriversBeside
<1>1. SelfTestInv => PassMeansDriversBeside
  <2> SUFFICES ASSUME SelfTestInv, test.result = "ALL PASS",
                      NEW i \in DOMAIN DriverFile,
                      Resolvable(place.path, DriverFile[i])
               PROVE  Beside(place.path, DriverFile[i]) \in place.tree
    BY DEF PassMeansDriversBeside
  <2>1. Found(i)
    BY DEF SelfTestInv, DriversSeen
  <2>2. place.path \in DevicePaths
    BY SelfTestAssumption DEF SelfTestInv, TestIInv, SelfTestTypeOK
  <2>3. DriverFile[i] \in Seq(DOMAIN Length)
    <3> DEFINE Relative == Seq(DOMAIN Length)
    <3>1. DriverFile \in Seq(Relative)
      BY SelfTestAssumption
    <3> HIDE DEF Relative
    <3>2. DriverFile[i] \in Relative
      BY <3>1, LenProperties, ElementOfSeq
    <3> QED
      BY <3>2 DEF Relative
  <2>4. LookedUp(place.path, DriverFile[i]) = {Beside(place.path, DriverFile[i])}
    BY <2>1, <2>2, <2>3, LookedUpBeside DEF Found
  <2> QED
    BY <2>1, <2>4 DEF Found
<1> QED
  BY <1>1, SelfTestInvariance, PTL

-----------------------------------------------------------------------------
(* The verdict *)

\* A step that changes the verdict ends a test.
LEMMA VerdictSteps ==
    ASSUME TestIInv, TestStep, ~ At("delete"), test'.result = "ALL PASS"
    PROVE  FALSE
<1>1. ~ At("idle") /\ test.result = "none" /\ "none" # "ALL PASS"
  BY DEF TestStep, OpenVolume, OpenVolumeFails, MoreDrivers, OpenDriver,
         OpenDriverFails, CloseDriver, DriversDone, AllocateBuffers,
         AllocateFails, OpenTemp, OpenTempFails, WriteTemp, WriteTempFails,
         OpenAsImage, LoopCreateOk, LoopCreateFails, ReadBack, DestroyOk,
         DestroyFails, CloseTemp, DeleteTemp, At, TestIInv, TestConsistent
<1>2. CASE AllocateFails \/ OpenTempFails \/ WriteTempFails
  <2>1. PICK status \in {"OUT_OF_RESOURCES", "NOT_FOUND", "DEVICE_ERROR"} :
            Finish(status)
    BY <1>2 DEF AllocateFails, OpenTempFails, WriteTempFails
  <2>2. EfiError(status)
    BY <2>1 DEF EfiError
  <2>3. PICK n \in 0..2, r \in {"ALL PASS", "FAILED"} :
          /\ test' = [test EXCEPT !.pc = "idle", !.buffers = FALSE,
                                  !.file = None, !.failures = n, !.result = r]
          /\ r = "ALL PASS" => test.failures = 0 /\ ~ EfiError(status)
    BY <1>1, <2>1, Finished
  <2> QED
    BY <2>2, <2>3 DEF TestIInv, SelfTestTypeOK, Test
<1>3. CASE ~ (AllocateFails \/ OpenTempFails \/ WriteTempFails)
  <2>1. test'.result = test.result
    BY <1>3 DEF TestStep, OpenVolume, OpenVolumeFails, OpenDriver, NextDriver,
         OpenDriverFails, CloseDriver, DriversDone, AllocateBuffers,
         OpenTemp, WriteTemp, OpenAsImage, LoopCreateOk, LoopCreateFails,
         ReadBack, DestroyOk, DestroyFails, CloseTemp, DeleteTemp, At,
         TestIInv, SelfTestTypeOK, Test
  <2> QED
    BY <1>1, <2>1
<1> QED
  BY <1>2, <1>3

\* ALL PASS comes of the last step only, with Ok.
LEMMA PassWithOk ==
    ASSUME TestIInv, DeleteTemp, test'.result = "ALL PASS"
    PROVE  /\ test.ok /\ test.failures = 0 /\ mounted' = mounted
           /\ test'.trip = test.trip /\ test'.handle = test.handle
<1> DEFINE status == IF test.ok THEN "SUCCESS" ELSE "DEVICE_ERROR"
<1>1. ~ At("idle") /\ Finish(status) /\ mounted' = mounted
  BY DEF DeleteTemp, At
<1> HIDE DEF status
<1>2. PICK n \in 0..2, r \in {"ALL PASS", "FAILED"} :
        /\ test' = [test EXCEPT !.pc = "idle", !.buffers = FALSE,
                                !.file = None, !.failures = n, !.result = r]
        /\ r = "ALL PASS" => test.failures = 0 /\ ~ EfiError(status)
  BY <1>1, Finished
<1>3. /\ test'.result = r /\ test'.trip = test.trip
      /\ test'.handle = test.handle
  BY <1>2 DEF TestIInv, SelfTestTypeOK, Test
<1>4. status # "DEVICE_ERROR"
  BY <1>2, <1>3 DEF EfiError
<1> QED
  BY <1>1, <1>2, <1>3, <1>4 DEF status

\* ALL PASS is a round trip: device made, pattern read back, write refused,
\* device taken away.
THEOREM PassIsRoundTrip == SelfTestSpec => []PassMeansRoundTrip
<1>1. SelfTestInit => PassMeansRoundTrip
  BY DEF SelfTestInit, NewTest, PassMeansRoundTrip
<1>2. TestIInv /\ PassMeansRoundTrip /\ [SelfTestNext]_selfVars
        => PassMeansRoundTrip'
  <2> SUFFICES ASSUME TestIInv, PassMeansRoundTrip, [SelfTestNext]_selfVars,
                      test'.result = "ALL PASS"
               PROVE  /\ test'.trip /\ test'.handle # None
                      /\ mounted'[test'.handle] = None
    BY DEF PassMeansRoundTrip
  <2>1. CASE UNCHANGED selfVars
    BY <2>1 DEF selfVars, PassMeansRoundTrip
  <2>2. CASE MountSelfTest
    BY <2>2 DEF MountSelfTest, NewTest
  <2>3. CASE TestStep
    <3>1. At("delete")
      BY <2>3, VerdictSteps
    <3>2. DeleteTemp
      BY <2>3, <3>1
      DEF TestStep, OpenVolume, OpenVolumeFails, MoreDrivers, OpenDriver,
          OpenDriverFails, CloseDriver, DriversDone, AllocateBuffers,
          AllocateFails, OpenTemp, OpenTempFails, WriteTemp, WriteTempFails,
          OpenAsImage, LoopCreateOk, LoopCreateFails, ReadBack, DestroyOk,
          DestroyFails, CloseTemp, At
    <3> QED
      BY <3>1, <3>2, PassWithOk DEF TestIInv, DeviceConsistent, At
  <2> QED
    BY <2>1, <2>2, <2>3 DEF SelfTestNext
<1>3. SelfTestInv => TestIInv
  BY DEF SelfTestInv
<1> QED
  BY <1>1, <1>2, <1>3, SelfTestInvariance, PTL DEF SelfTestSpec

-----------------------------------------------------------------------------
(* The contract of the factory *)

\* A test opens, closes, mounts and unmounts as LoopRegistry allows.
THEOREM SelfTestRefinement == SelfTestSpec => RegistryUse
<1>1. SelfTestInit => Registry!RegInit
  BY DEF SelfTestInit, Registry!RegInit
<1>2. TestIInv /\ [SelfTestNext]_selfVars
        => [Registry!RegNext]_(Registry!regVars)
  <2> SUFFICES ASSUME TestIInv, [SelfTestNext]_selfVars
               PROVE  [Registry!RegNext]_(Registry!regVars)
    OBVIOUS
  <2> USE DEF TestIInv, At
  <2>1. ASSUME open' = open \ {test.file}, mounted' = mounted
        PROVE  [Registry!RegNext]_(Registry!regVars)
    <3>1. CASE test.file = None
      <4>1. open' = open
        BY <2>1, <3>1 DEF FilesHeld
      <4> QED
        BY <2>1, <4>1 DEF Registry!regVars
    <3>2. CASE test.file # None
      <4>1. test.file \in File /\ Registry!Unmounted(test.file)
        BY <3>2 DEF SelfTestTypeOK, Test, FilesHeld, Registry!Unmounted
      <4>2. Registry!Close(test.file)
        BY <2>1, <4>1 DEF Registry!Close
      <4> QED
        BY <4>1, <4>2 DEF Registry!RegNext
    <3> QED
      BY <3>1, <3>2
  <2>2. ASSUME NEW f \in File, OpenTemp(f) \/ OpenAsImage(f)
        PROVE  Registry!Open(f)
    BY <2>2 DEF OpenTemp, OpenAsImage, Registry!Open
  <2>3. ASSUME NEW h \in Handle, LoopCreateOk(h)
        PROVE  test.file \in File /\ Registry!Mount(h, test.file)
    <3>1. test.file # None
      BY <2>3 DEF LoopCreateOk, TestConsistent
    <3>2. test.file \in File /\ test.file \in open /\ Registry!Unmounted(test.file)
      BY <3>1 DEF SelfTestTypeOK, Test, FilesHeld, Registry!Unmounted
    <3> QED
      BY <2>3, <3>2 DEF LoopCreateOk, Registry!Mount
  <2>4. CASE DestroyOk
    <3>1. test.handle \in Handle
      BY <2>4 DEF DestroyOk, DeviceConsistent, SelfTestTypeOK, Test
    <3>2. Registry!Unmount(test.handle)
      BY <2>4 DEF DestroyOk, Registry!Unmount
    <3> QED
      BY <3>1, <3>2 DEF Registry!RegNext
  <2>5. CASE WriteTemp \/ WriteTempFails \/ CloseTemp
               \/ \E s \in CreateStatus : LoopCreateFails(s)
    BY <2>1, <2>5 DEF WriteTemp, WriteTempFails, CloseTemp, LoopCreateFails
  <2>6. CASE \/ UNCHANGED selfVars \/ MountSelfTest
             \/ OpenVolume \/ OpenVolumeFails \/ OpenDriver \/ OpenDriverFails
             \/ CloseDriver \/ DriversDone
             \/ AllocateBuffers \/ AllocateFails \/ OpenTempFails
             \/ ReadBack \/ DestroyFails \/ DeleteTemp
    BY <2>6
    DEF selfVars, MountSelfTest, OpenVolume, OpenVolumeFails, OpenDriver,
        OpenDriverFails, CloseDriver, DriversDone, AllocateBuffers,
        AllocateFails, OpenTempFails, ReadBack, DestroyFails, DeleteTemp,
        Registry!regVars
  <2> QED
    BY <2>2, <2>3, <2>4, <2>5, <2>6
    DEF SelfTestNext, TestStep, Registry!RegNext
<1>3. SelfTestInv => TestIInv
  BY DEF SelfTestInv
<1> QED
  BY <1>1, <1>2, <1>3, SelfTestInvariance, PTL
  DEF SelfTestSpec, RegistryUse, Registry!RegSpec
=============================================================================
