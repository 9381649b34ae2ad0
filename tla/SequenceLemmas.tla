--------------------------- MODULE SequenceLemmas ---------------------------
(***************************************************************************)
(* Facts about the community modules' SelectInSeq and RemoveAt, by which   *)
(* Sad, Spd and NodeList look a node up and take it out of a list, and     *)
(* about FlattenSeq, which makes the records of a commit in ChangeFeed.    *)
(***************************************************************************)
EXTENDS Integers, Sequences, SequencesExt, SequenceTheorems,
        WellFoundedInduction, TLAPS

\* The successor of a natural below the top is at most the top.
LEMMA StrictlyBelowTop ==
  ASSUME NEW top \in Nat, NEW m \in 0..top, m # top
  PROVE  m + 1 \in 1..top
OBVIOUS

\* A non-empty set of naturals has a least element, and Min is it.
LEMMA MinIsLeast ==
  ASSUME NEW S, S \subseteq Nat, S # {}
  PROVE  Min(S) \in S /\ \A y \in S : Min(S) <= y
<1> DEFINE R == {ss \in Nat \X Nat : ss[1] < ss[2]}
<1>0. IsWellFoundedOn(R, Nat)
  <2>1. R = OpToRel(<, Nat)
    BY DEF OpToRel
  <2>2. QED
    BY <2>1, NatLessThanWellFounded, Zenon
<1>1. PICK x \in S : \A y \in S : ~(<<y, x>> \in R)
  <2> HIDE DEF R
  <2> QED BY <1>0, WFMin
<1>2. ASSUME NEW y \in S PROVE x <= y
  <2>1. x \in Nat /\ y \in Nat
    OBVIOUS
  <2>2. y < x => <<y, x>> \in R
    BY <2>1
  <2>3. QED
    BY <1>1, <2>1, <2>2
<1>3. QED
  BY <1>2 DEF Min

\* The first index of a sequence in a set of indices, as SelectInSeq has it.
LEMMA FirstIndex ==
  ASSUME NEW T, NEW list \in Seq(T), NEW I, I \subseteq 1..Len(list),
         NEW g, g = IF I # {} THEN Min(I) ELSE 0
  PROVE  /\ g \in 0..Len(list)
         /\ g = 0 <=> I = {}
         /\ g # 0 => g \in I /\ \A i \in I : g <= i
<1>1. Len(list) \in Nat
  BY LenProperties
<1>2. CASE I = {}
  BY <1>1, <1>2
<1>3. CASE I # {}
  <2>1. I \subseteq Nat
    BY <1>1
  <2>2. g \in I /\ \A i \in I : g <= i
    BY <1>3, <2>1, MinIsLeast
  <2>3. QED
    BY <1>1, <1>3, <2>2
<1>4. QED
  BY <1>2, <1>3

\* What is left of a sequence without its i-th element.
LEMMA RemoveAtShifts ==
  ASSUME NEW T, NEW list \in Seq(T), NEW i \in 1..Len(list)
  PROVE  /\ RemoveAt(list, i) \in Seq(T)
         /\ Len(RemoveAt(list, i)) = Len(list) - 1
         /\ \A j \in 1..Len(list) - 1 :
              RemoveAt(list, i)[j] = IF j < i THEN list[j] ELSE list[j + 1]
<1> DEFINE a == SubSeq(list, 1, i - 1)
           b == SubSeq(list, i + 1, Len(list))
<1>1. Len(list) \in Nat /\ \A j \in 1..Len(list) : list[j] \in T
  BY LenProperties, ElementOfSeq
<1>2. /\ a \in Seq(T)
      /\ Len(a) = i - 1
      /\ \A j \in 1..i - 1 : a[j] = list[j]
  <2>1. /\ a \in Seq(T)
        /\ Len(a) = IF 1 <= i - 1 THEN i - 1 - 1 + 1 ELSE 0
        /\ \A j \in 1..i - 1 - 1 + 1 : a[j] = list[1 + j - 1]
    <3>1. 1 \in Int /\ i - 1 \in Int /\ \A j \in 1..i - 1 : list[j] \in T
      BY <1>1
    <3>2. QED
      BY <3>1, SubSeqProperties
  <2>2. QED
    BY <1>1, <2>1
<1>3. /\ b \in Seq(T)
      /\ Len(b) = Len(list) - i
      /\ \A j \in 1..Len(list) - i : b[j] = list[i + j]
  <2>1. /\ b \in Seq(T)
        /\ Len(b) = IF i + 1 <= Len(list) THEN Len(list) - (i + 1) + 1 ELSE 0
        /\ \A j \in 1..Len(list) - (i + 1) + 1 : b[j] = list[(i + 1) + j - 1]
    <3>1. i + 1 \in Int /\ Len(list) \in Int /\ \A j \in i + 1..Len(list) : list[j] \in T
      BY <1>1
    <3>2. QED
      BY <3>1, SubSeqProperties
  <2>2. QED
    BY <1>1, <2>1
<1>4. RemoveAt(list, i) = a \o b
  BY DEF RemoveAt
<1> HIDE DEF a, b
<1>5. /\ a \o b \in Seq(T)
      /\ Len(a \o b) = Len(a) + Len(b)
      /\ \A j \in 1..Len(a) + Len(b) :
           (a \o b)[j] = IF j <= Len(a) THEN a[j] ELSE b[j - Len(a)]
  BY <1>2, <1>3, ConcatProperties
<1> DEFINE r == a \o b
<1>6. /\ r \in Seq(T)
      /\ Len(r) = Len(list) - 1
      /\ \A j \in 1..Len(list) - 1 :
           r[j] = IF j <= i - 1 THEN a[j] ELSE b[j - (i - 1)]
  BY <1>1, <1>2, <1>3, <1>5
<1> HIDE DEF r
<1>7. ASSUME NEW j \in 1..Len(list) - 1
      PROVE  r[j] = IF j < i THEN list[j] ELSE list[j + 1]
  <2>1. CASE j < i
    BY <1>1, <1>2, <1>6, <2>1
  <2>2. CASE ~(j < i)
    <3>1. /\ j - (i - 1) \in 1..Len(list) - i
          /\ i + (j - (i - 1)) = j + 1
          /\ ~(j <= i - 1)
      BY <1>1, <2>2
    <3>2. r[j] = b[j - (i - 1)]
      BY <1>6, <3>1
    <3>3. b[j - (i - 1)] = list[i + (j - (i - 1))]
      BY <1>3, <3>1
    <3>4. QED
      BY <2>2, <3>1, <3>2, <3>3
  <2>3. QED
    BY <2>1, <2>2
<1>8. RemoveAt(list, i) = r
  BY <1>4 DEF r
<1>9. QED
  BY <1>6, <1>7, <1>8

\* Where nothing is found nothing is taken out.
LEMMA RemoveAtNowhere ==
  ASSUME NEW T, NEW list \in Seq(T)
  PROVE  RemoveAt(list, 0) = list
<1>1. Len(list) \in Nat
  BY LenProperties
<1>2. SubSeq(list, 1, 0 - 1) = << >>
  BY SubSeqEmpty
<1>3. SubSeq(list, 0 + 1, Len(list)) = list
  BY SubSeqFull
<1>4. << >> \o list = list
  BY ConcatEmptySeq
<1>5. QED
  BY <1>2, <1>3, <1>4 DEF RemoveAt

\* A property of 1 that goes from each number to the next holds up to the top.
LEMMA UpToTop ==
  ASSUME NEW n \in Nat, NEW S, 1 \in S,
         \A m \in 1..n - 1 : m \in S => m + 1 \in S
  PROVE  \A m \in 1..n : m \in S
<1> SUFFICES ASSUME NEW m \in 1..n, m \notin S
             PROVE  FALSE
  OBVIOUS
<1> DEFINE D == {d \in 1..n : d \notin S}
<1>1. D \subseteq Nat /\ m \in D
  OBVIOUS
<1>2. Min(D) \in D /\ \A y \in D : Min(D) <= y
  <2> HIDE DEF D
  <2> QED BY <1>1, MinIsLeast
<1>3. PICK x \in D : \A y \in D : x <= y
  BY <1>2
<1>4. x \in 2..n /\ x \notin S
  OBVIOUS
<1>5. x - 1 \in 1..n - 1 /\ x - 1 \in 1..n /\ x - 1 + 1 = x /\ ~(x <= x - 1)
  BY <1>4
<1>6. x - 1 \in S
  BY <1>3, <1>5
<1>7. QED
  BY <1>4, <1>5, <1>6

\* The recursive function of FlattenSeq exists.
LEMMA FlatteningExists ==
  ASSUME NEW n \in Nat \ {0}, NEW seqs
  PROVE  \E g : g = [i \in 1..n |-> IF i = 1 THEN seqs[i] ELSE g[i - 1] \o seqs[i]]
<1> DEFINE Fits(g, m) ==
             g = [i \in 1..m |-> IF i = 1 THEN seqs[i] ELSE g[i - 1] \o seqs[i]]
           S == {m \in 1..n : \E g : Fits(g, m)}
<1>1. 1 \in S
  <2> DEFINE g == [i \in 1..1 |-> seqs[1]]
  <2>1. Fits(g, 1)
    <3>1. \A i \in 1..1 : i = 1
      OBVIOUS
    <3>2. QED
      BY <3>1
  <2> HIDE DEF g, Fits
  <2>2. QED
    BY <2>1
<1>2. ASSUME NEW m \in 1..n - 1, m \in S
      PROVE  m + 1 \in S
  <2>1. PICK g : Fits(g, m)
    BY <1>2
  <2> DEFINE h == [i \in 1..m + 1 |-> IF i = m + 1 THEN g[m] \o seqs[i] ELSE g[i]]
  <2>2. ASSUME NEW i \in 1..m + 1
        PROVE  h[i] = IF i = 1 THEN seqs[i] ELSE h[i - 1] \o seqs[i]
    <3>1. CASE i = m + 1
      <4>1. h[i] = g[m] \o seqs[i]
        BY <3>1
      <4>2. i # 1 /\ i - 1 = m /\ m \in 1..m + 1 /\ m # m + 1
        BY <3>1
      <4>3. h[m] = g[m]
        BY <4>2
      <4>4. QED
        BY <4>1, <4>2, <4>3
    <3>2. CASE i # m + 1
      <4>1. i \in 1..m /\ h[i] = g[i]
        BY <3>2
      <4>2. g[i] = IF i = 1 THEN seqs[i] ELSE g[i - 1] \o seqs[i]
        BY <2>1, <4>1
      <4>3. i # 1 => i - 1 \in 1..m + 1 /\ i - 1 # m + 1
        BY <4>1
      <4>4. i # 1 => h[i - 1] = g[i - 1]
        BY <4>3
      <4> HIDE DEF h
      <4>5. QED
        BY <4>1, <4>2, <4>4
    <3>3. QED
      BY <3>1, <3>2
  <2>3. Fits(h, m + 1)
    <3>1. h = [i \in 1..m + 1 |-> h[i]]
      OBVIOUS
    <3> HIDE DEF h
    <3>2. QED
      BY <2>2, <3>1
  <2>4. m + 1 \in 1..n
    OBVIOUS
  <2> HIDE DEF h, Fits
  <2>5. QED
    BY <2>3, <2>4
<1>3. \A m \in 1..n : m \in S
  <2> HIDE DEF S
  <2> QED BY <1>1, <1>2, UpToTop
<1>4. \E g : Fits(g, n)
  <2> HIDE DEF Fits
  <2> QED BY <1>3
<1>5. QED
  BY <1>4, Zenon

\* Sequence i of a sequence of sequences is in flat after place from[i], and
\* nothing else is in it.
Places(seqs, flat, from) ==
  /\ from \in [1..Len(seqs) -> Nat]
  /\ \A i \in 1..Len(seqs) : \A k \in 1..Len(seqs[i]) :
       /\ from[i] + k \in 1..Len(flat)
       /\ flat[from[i] + k] = seqs[i][k]
  /\ \A p \in 1..Len(flat) : \E i \in 1..Len(seqs) :
       \E k \in 1..Len(seqs[i]) : p = from[i] + k
  /\ \A i, j \in 1..Len(seqs) : i < j => from[i] + Len(seqs[i]) <= from[j]

\* FlattenSeq puts each sequence somewhere, in their order.
LEMMA Flattened ==
  ASSUME NEW T, NEW seqs \in Seq(Seq(T)),
         NEW flat, flat = FlattenSeq(seqs)
  PROVE  flat \in Seq(T) /\ \E from : Places(seqs, flat, from)
<1> DEFINE n == Len(seqs)
<1>1. n \in Nat /\ \A i \in 1..n : seqs[i] \in Seq(T) /\ Len(seqs[i]) \in Nat
  BY LenProperties, ElementOfSeq
<1>2. CASE n = 0
  <2>1. flat = << >> /\ 1..n = {} /\ Len(flat) = 0
    BY <1>2 DEF FlattenSeq
  <2>2. [i \in 1..n |-> 0] \in [1..n -> Nat]
    OBVIOUS
  <2>3. \A p \in 1..Len(flat) : FALSE
    BY <2>1
  <2>4. flat \in Seq(T)
    BY <2>1, EmptySeq
  <2>5. Places(seqs, flat, [i \in 1..n |-> 0])
    BY <2>1, <2>2, <2>3 DEF Places
  <2>6. QED
    BY <2>4, <2>5
<1>3. CASE n # 0
  <2> DEFINE Fits(g) == g = [i \in 1..n |-> IF i = 1 THEN seqs[i] ELSE g[i - 1] \o seqs[i]]
             f == CHOOSE g : Fits(g)
  <2>1. \E g : Fits(g)
    <3>1. n \in Nat \ {0}
      BY <1>1, <1>3
    <3>2. QED
      BY <3>1, FlatteningExists, Zenon
  <2>2. Fits(f)
    BY <2>1
  <2>3. flat = f[n]
    BY <1>3 DEF FlattenSeq
  <2>4. \A i \in 1..n : f[i] = IF i = 1 THEN seqs[i] ELSE f[i - 1] \o seqs[i]
    BY <2>2
  <2> HIDE DEF f
  <2> DEFINE IsSeqs == {m \in 1..n : f[m] \in Seq(T) /\ Len(f[m]) \in Nat}
  <2>5. \A m \in 1..n : m \in IsSeqs
    <3>1. 1 \in 1..n /\ f[1] = seqs[1]
      BY <1>1, <1>3, <2>4
    <3>2. 1 \in IsSeqs
      BY <1>1, <3>1
    <3>3. ASSUME NEW m \in 1..n - 1, m \in IsSeqs
          PROVE  m + 1 \in IsSeqs
      <4>1. m + 1 \in 1..n /\ m + 1 # 1 /\ m + 1 - 1 = m
        BY <1>1
      <4>2. f[m + 1] = f[m] \o seqs[m + 1]
        <5> DEFINE j == m + 1
        <5>1. j \in 1..n /\ j # 1 /\ j - 1 = m
          BY <4>1
        <5> HIDE DEF j
        <5>2. f[j] = f[m] \o seqs[j]
          BY <2>4, <5>1
        <5>3. QED
          BY <5>2 DEF j
      <4>3. f[m] \in Seq(T) /\ seqs[m + 1] \in Seq(T)
        BY <1>1, <3>3, <4>1
      <4>4. f[m + 1] \in Seq(T)
        BY <4>1, <4>2, <4>3, ConcatProperties
      <4>5. QED
        BY <4>1, <4>4, LenProperties
    <3> HIDE DEF IsSeqs
    <3>4. QED
      BY <1>1, <3>2, <3>3, UpToTop
  <2>6. \A m \in 1..n : f[m] \in Seq(T) /\ Len(f[m]) \in Nat
    BY <2>5
  <2> DEFINE from == [i \in 1..n |-> IF i = 1 THEN 0 ELSE Len(f[i - 1])]
  <2>7. from \in [1..n -> Nat]
    <3>1. \A i \in 1..n : i # 1 => i - 1 \in 1..n
      BY <1>1
    <3>2. QED
      BY <2>6, <3>1
  <2>8. \A i \in 1..n : from[i] = IF i = 1 THEN 0 ELSE Len(f[i - 1])
    OBVIOUS
  <2> HIDE DEF from, IsSeqs
  <2>9. ASSUME NEW m \in 1..n
        PROVE  /\ Len(f[m]) = from[m] + Len(seqs[m])
               /\ from[m] \in Nat
               /\ \A k \in 1..Len(seqs[m]) :
                    /\ from[m] + k \in 1..Len(f[m])
                    /\ f[m][from[m] + k] = seqs[m][k]
               /\ m # 1 => \A p \in 1..Len(f[m - 1]) : f[m][p] = f[m - 1][p]
    <3>1. CASE m = 1
      <4>1. f[m] = seqs[m] /\ from[m] = 0
        BY <2>4, <2>8, <3>1
      <4>2. QED
        BY <1>1, <3>1, <4>1
    <3>2. CASE m # 1
      <4>1. m - 1 \in 1..n /\ f[m] = f[m - 1] \o seqs[m] /\ from[m] = Len(f[m - 1])
        <5>1. m - 1 \in 1..n
          BY <1>1, <3>2
        <5>2. f[m] = f[m - 1] \o seqs[m] /\ from[m] = Len(f[m - 1])
          BY <2>4, <2>8, <3>2, Zenon
        <5>3. QED
          BY <5>1, <5>2
      <4>2. f[m - 1] \in Seq(T) /\ Len(f[m - 1]) \in Nat
        BY <2>6, <4>1
      <4> DEFINE a == f[m - 1]
                 b == seqs[m]
      <4>3. a \in Seq(T) /\ b \in Seq(T) /\ Len(a) \in Nat /\ Len(b) \in Nat
        BY <1>1, <4>2
      <4> HIDE DEF a, b
      <4>4. /\ Len(a \o b) = Len(a) + Len(b)
            /\ \A i \in 1..Len(a) + Len(b) :
                 (a \o b)[i] = IF i <= Len(a) THEN a[i] ELSE b[i - Len(a)]
        BY <4>3, ConcatProperties
      <4>5. ASSUME NEW k \in 1..Len(b)
            PROVE  Len(a) + k \in 1..Len(a \o b) /\ (a \o b)[Len(a) + k] = b[k]
        <5>1. /\ Len(a) + k \in 1..Len(a) + Len(b)
              /\ ~(Len(a) + k <= Len(a))
              /\ Len(a) + k - Len(a) = k
          BY <4>3
        <5>2. QED
          BY <4>4, <5>1
      <4>6. ASSUME NEW p \in 1..Len(a)
            PROVE  (a \o b)[p] = a[p]
        <5>1. p \in 1..Len(a) + Len(b) /\ p <= Len(a)
          BY <4>3
        <5>2. QED
          BY <4>4, <5>1
      <4>7. f[m] = a \o b /\ from[m] = Len(a) /\ a = f[m - 1] /\ b = seqs[m]
        BY <4>1 DEF a, b
      <4>8. QED
        BY <4>3, <4>4, <4>5, <4>6, <4>7
    <3>3. QED
      BY <3>1, <3>2
  \* What f holds at i is the beginning of what it holds further on.
  <2>10. ASSUME NEW i \in 1..n
         PROVE  \A m \in i..n :
                  Len(f[i]) <= Len(f[m]) /\ \A p \in 1..Len(f[i]) : f[m][p] = f[i][p]
    <3> DEFINE Begins == {m \in 1..n : m >= i =>
                 Len(f[i]) <= Len(f[m]) /\ \A p \in 1..Len(f[i]) : f[m][p] = f[i][p]}
    <3>1. 1 \in Begins
      <4>1. 1 \in 1..n /\ (1 >= i => i = 1)
        BY <1>1, <1>3
      <4>2. Len(f[i]) \in Nat
        BY <2>6
      <4>3. QED
        BY <4>1, <4>2
    <3>2. ASSUME NEW m \in 1..n - 1, m \in Begins
          PROVE  m + 1 \in Begins
      <4>1. m + 1 \in 1..n /\ m + 1 # 1 /\ m + 1 - 1 = m /\ m \in 1..n
        BY <1>1
      <4>2. Len(f[i]) \in Nat /\ Len(f[m]) \in Nat /\ Len(seqs[m + 1]) \in Nat
        BY <1>1, <2>6, <4>1
      <4>3. CASE m + 1 = i
        BY <4>1, <4>2, <4>3
      <4>4. CASE m + 1 # i /\ m + 1 >= i
        <5>1. m >= i
          BY <4>1, <4>4
        <5>2. Len(f[m + 1]) = Len(f[m]) + Len(seqs[m + 1])
          <6>1. from[m + 1] = Len(f[m + 1 - 1])
            BY <2>8, <4>1
          <6>2. Len(f[m + 1]) = from[m + 1] + Len(seqs[m + 1])
            BY <2>9, <4>1
          <6>3. QED
            BY <4>1, <6>1, <6>2
        <5>3. Len(f[i]) <= Len(f[m]) /\ \A p \in 1..Len(f[i]) : f[m][p] = f[i][p]
          BY <3>2, <5>1
        <5>4. \A p \in 1..Len(f[i]) : p \in 1..Len(f[m])
          BY <4>2, <5>3
        <5>5. \A p \in 1..Len(f[m]) : f[m + 1][p] = f[m][p]
          BY <2>9, <4>1
        <5>6. \A p \in 1..Len(f[i]) : f[m + 1][p] = f[i][p]
          BY <5>3, <5>4, <5>5
        <5>7. Len(f[i]) <= Len(f[m + 1])
          <6> DEFINE a == Len(f[m])
                     b == Len(seqs[m + 1])
                     c == Len(f[m + 1])
                     d == Len(f[i])
          <6>1. a \in Nat /\ b \in Nat /\ d \in Nat /\ c = a + b /\ d <= a
            BY <4>2, <5>2, <5>3
          <6> HIDE DEF a, b, c, d
          <6>2. d <= c
            BY <6>1
          <6>3. QED
            BY <6>2 DEF c, d
        <5>8. QED
          BY <4>1, <5>6, <5>7
      <4>5. CASE ~(m + 1 >= i)
        BY <4>1, <4>5
      <4>6. QED
        BY <4>3, <4>4, <4>5
    <3>3. \A m \in 1..n : m \in Begins
      <4> HIDE DEF Begins
      <4> QED BY <1>1, <3>1, <3>2, UpToTop
    <3>4. \A m \in i..n : m \in 1..n /\ m >= i
      OBVIOUS
    <3>5. QED
      BY <3>3, <3>4
  <2> DEFINE Covered == {m \in 1..n : \A p \in 1..Len(f[m]) :
               \E i \in 1..m : \E k \in 1..Len(seqs[i]) : p = from[i] + k}
  <2>11. n \in Covered
    <3>1. 1 \in Covered
      <4>1. 1 \in 1..n /\ 1 \in 1..1 /\ f[1] = seqs[1] /\ from[1] = 0
        BY <1>1, <1>3, <2>4, <2>8
      <4>2. \A p \in 1..Len(f[1]) : p = from[1] + p
        BY <4>1
      <4>3. QED
        BY <4>1, <4>2
    <3>2. ASSUME NEW m \in 1..n - 1, m \in Covered
          PROVE  m + 1 \in Covered
      <4>1. m + 1 \in 1..n /\ m + 1 # 1 /\ m + 1 - 1 = m /\ m \in 1..n
        BY <1>1
      <4>2. /\ Len(f[m + 1]) = from[m + 1] + Len(seqs[m + 1])
            /\ from[m + 1] = Len(f[m])
            /\ Len(f[m]) \in Nat /\ Len(seqs[m + 1]) \in Nat
        BY <1>1, <2>6, <2>8, <2>9, <4>1
      <4>3. ASSUME NEW p \in 1..Len(f[m + 1])
            PROVE  \E i \in 1..m + 1 : \E k \in 1..Len(seqs[i]) : p = from[i] + k
        <5>1. CASE p <= Len(f[m])
          <6>1. p \in 1..Len(f[m])
            BY <4>2, <5>1
          <6>2. PICK i \in 1..m : \E k \in 1..Len(seqs[i]) : p = from[i] + k
            BY <3>2, <6>1
          <6>3. i \in 1..m + 1
            BY <4>1
          <6>4. QED
            BY <6>2, <6>3
        <5>2. CASE ~(p <= Len(f[m]))
          <6> DEFINE a == Len(f[m])
                     b == Len(seqs[m + 1])
                     c == Len(f[m + 1])
                     d == from[m + 1]
          <6>0. a \in Nat /\ b \in Nat /\ c = a + b /\ d = a /\ p \in 1..c /\ ~(p <= a)
            BY <4>2, <5>2
          <6> HIDE DEF a, b, c, d
          <6>1. p - a \in 1..b /\ p = d + (p - a)
            BY <6>0
          <6>2. m + 1 \in 1..m + 1
            BY <4>1
          <6>3. \E k \in 1..Len(seqs[m + 1]) : p = from[m + 1] + k
            BY <6>1 DEF b, d
          <6>4. QED
            BY <6>2, <6>3
        <5>3. QED
          BY <5>1, <5>2
      <4>4. QED
        BY <4>1, <4>3
    <3>3. \A m \in 1..n : m \in Covered
      <4> HIDE DEF Covered
      <4> QED BY <1>1, <3>1, <3>2, UpToTop
    <3>4. n \in 1..n
      BY <1>1, <1>3
    <3>5. QED
      BY <3>3, <3>4, Zenon
  <2>12. ASSUME NEW i \in 1..n, NEW k \in 1..Len(seqs[i])
         PROVE  from[i] + k \in 1..Len(flat) /\ flat[from[i] + k] = seqs[i][k]
    <3>1. from[i] + k \in 1..Len(f[i]) /\ f[i][from[i] + k] = seqs[i][k]
      BY <2>9
    <3>2. n \in i..n
      BY <1>1
    <3>3. Len(f[i]) <= Len(flat) /\ \A p \in 1..Len(f[i]) : flat[p] = f[i][p]
      BY <2>3, <2>10, <3>2
    <3>4. Len(f[i]) \in Nat /\ Len(flat) \in Nat
      BY <1>1, <1>3, <2>3, <2>6
    <3>5. QED
      BY <3>1, <3>3, <3>4
  <2>13. ASSUME NEW i \in 1..n, NEW j \in 1..n, i < j
         PROVE  from[i] + Len(seqs[i]) <= from[j]
    <3>1. j - 1 \in i..n /\ j # 1
      BY <2>13
    <3>2. Len(f[i]) <= Len(f[j - 1])
      BY <2>10, <3>1
    <3>3. QED
      BY <2>8, <2>9, <3>1, <3>2
  <2>14. \A p \in 1..Len(flat) : \E i \in 1..n :
           \E k \in 1..Len(seqs[i]) : p = from[i] + k
    BY <2>3, <2>11
  <2>15. flat \in Seq(T)
    BY <1>1, <1>3, <2>3, <2>6
  <2>16. Places(seqs, flat, from)
    BY <2>7, <2>12, <2>13, <2>14 DEF Places
  <2>17. QED
    BY <2>15, <2>16
<1>4. QED
  BY <1>2, <1>3

=============================================================================
