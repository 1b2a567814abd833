-------------------------- MODULE H264PacketsProofs --------------------------
(***************************************************************************)
(* The splitter takes NVENC's byte stream apart into its NAL units, and a  *)
(* receiver puts them together again from the RTP packets, whatever the    *)
(* units, however many there are and wherever a payload ends.              *)
(*                                                                         *)
(* All of it is induction over data.  The induction theorems of the        *)
(* library have a predicate as a parameter; here the natural numbers that  *)
(* satisfy it are a set, which a least element is taken from.              *)
(***************************************************************************)
EXTENDS H264Packets, SequenceTheorems, WellFoundedInduction, TLAPS

(***************************************************************************)
(* Induction.                                                              *)
(***************************************************************************)

\* The loops of SplitAnnexB stop at the first place that will do: a set of
\* places has a first one.
LEMMA LeastElement ==
  ASSUME NEW T, T \subseteq Nat, T # {}
  PROVE  \E x \in T : \A y \in T : x <= y
<1> DEFINE R == OpToRel(<, Nat)
<1>1. \E x \in T : \A y \in T : ~(<<y, x>> \in R)
  <2>1. IsWellFoundedOn(R, Nat)
    BY ONLY NatLessThanWellFounded
  <2> HIDE DEF R
  <2> QED
    BY ONLY <2>1, WFMin, T \subseteq Nat, T # {}
<1>2. \A x, y \in Nat : y < x => <<y, x>> \in R
  BY DEF OpToRel
<1> HIDE DEF R
<1>3. PICK x \in T : \A y \in T : ~(<<y, x>> \in R)
  BY ONLY <1>1
<1>4. ASSUME NEW y \in T PROVE x <= y
  <2>1. x \in Nat /\ y \in Nat
    OBVIOUS
  <2>2. ~(y < x)
    BY ONLY <1>2, <1>3, <1>4, <2>1
  <2> QED
    BY ONLY <2>1, <2>2
<1> QED
  BY ONLY <1>4

\* What a loop keeps from one index to the next holds at every index.
LEMMA Induction ==
  ASSUME NEW S, 0 \in S, \A n \in Nat : n \in S => n + 1 \in S
  PROVE  Nat \subseteq S
<1> SUFFICES ASSUME Nat \ S # {} PROVE FALSE
  OBVIOUS
<1>1. PICK x \in Nat \ S : \A y \in Nat \ S : x <= y
  BY LeastElement
<1>2. x # 0 /\ x \in Nat /\ x \notin S
  OBVIOUS
<1>3. x - 1 \in Nat /\ ~(x <= x - 1)
  BY ONLY <1>2
<1>4. x - 1 \in S
  BY ONLY <1>1, <1>3
<1>5. (x - 1) + 1 \in S /\ (x - 1) + 1 = x
  BY <1>2, <1>3, <1>4
<1> QED
  BY ONLY <1>2, <1>5

(***************************************************************************)
(* Concatenation.                                                          *)
(***************************************************************************)

\* FlattenSeq satisfies its recursion.
PartialFlat(seqs, n, f) ==
  f = [i \in 1..n |-> IF i = 1 THEN seqs[i] ELSE f[i - 1] \o seqs[i]]

LEMMA PartialFlatExists ==
  ASSUME NEW seqs, NEW n \in Nat
  PROVE  \E f : PartialFlat(seqs, n, f)
<1> DEFINE S == {m \in Nat : \E f : PartialFlat(seqs, m, f)}
<1>1. 0 \in S
  <2>1. PartialFlat(seqs, 0, [i \in 1..0 |-> <<>>])
    BY DEF PartialFlat
  <2> QED
    BY <2>1
<1>2. ASSUME NEW m \in Nat, m \in S PROVE m + 1 \in S
  <2>1. PICK f : PartialFlat(seqs, m, f)
    BY <1>2
  <2> DEFINE g == [i \in 1..(m + 1) |->
                     IF i <= m THEN f[i]
                     ELSE IF i = 1 THEN seqs[i] ELSE f[m] \o seqs[i]]
  <2>2. \A i \in 1..m : f[i] = IF i = 1 THEN seqs[i] ELSE f[i - 1] \o seqs[i]
    BY ONLY <2>1 DEF PartialFlat
  <2>3. ASSUME NEW i \in 1..(m + 1)
        PROVE  g[i] = IF i = 1 THEN seqs[i] ELSE g[i - 1] \o seqs[i]
    <3>1. CASE i <= m
      <4>1. i \in 1..m /\ (i # 1 => i - 1 \in 1..m)
        BY <3>1
      <4>2. g[i] = f[i] /\ (i # 1 => g[i - 1] = f[i - 1])
        BY <4>1
      <4> QED
        BY ONLY <2>2, <4>1, <4>2
    <3>2. CASE i = m + 1
      <4>1. i # 1 => i - 1 \in 1..(m + 1) /\ i - 1 = m
        BY <3>2
      <4>2. i # 1 => g[i - 1] = f[m]
        BY <4>1
      <4>3. g[i] = IF i = 1 THEN seqs[i] ELSE f[m] \o seqs[i]
        BY <3>2
      <4> QED
        BY ONLY <4>2, <4>3
    <3> QED
      BY <3>1, <3>2
  <2>4. PartialFlat(seqs, m + 1, g)
    <3>1. g = [i \in 1..(m + 1) |-> g[i]]
      OBVIOUS
    <3> HIDE DEF g
    <3> QED
      BY ONLY <3>1, <2>3 DEF PartialFlat
  <2> QED
    BY ONLY <2>4
<1> HIDE DEF S
<1>3. n \in S
  BY ONLY <1>1, <1>2, Induction
<1> QED
  BY <1>3 DEF S

LEMMA FlattenIsPrefix ==
  ASSUME NEW seqs, Len(seqs) \in Nat, Len(seqs) # 0
  PROVE  \E f : PartialFlat(seqs, Len(seqs), f) /\ FlattenSeq(seqs) = f[Len(seqs)]
<1> DEFINE f == CHOOSE g : PartialFlat(seqs, Len(seqs), g)
<1>1. PartialFlat(seqs, Len(seqs), f)
  BY ONLY PartialFlatExists, Len(seqs) \in Nat
<1>2. FlattenSeq(seqs) = f[Len(seqs)]
  BY Len(seqs) # 0 DEF FlattenSeq, PartialFlat
<1> QED
  BY <1>1, <1>2
\* The sequences one after the other: e[k] is where the k-th ends.
AreBlocks(seqs, flat, e) ==
  /\ e \in [0..Len(seqs) -> Nat] /\ e[0] = 0 /\ Len(flat) = e[Len(seqs)]
  /\ \A k \in 1..Len(seqs) :
       /\ e[k] = e[k - 1] + Len(seqs[k])
       /\ \A j \in 1..Len(seqs[k]) : flat[e[k - 1] + j] = seqs[k][j]

LEMMA BlocksGrow ==
  ASSUME NEW seqs, NEW flat, NEW e, AreBlocks(seqs, flat, e), Len(seqs) \in Nat,
         \A k \in 1..Len(seqs) : Len(seqs[k]) \in Nat
  PROVE  \A l \in 0..Len(seqs) : \A k \in 0..l : e[k] <= e[l]
<1> DEFINE S == {l \in Nat : l <= Len(seqs) => \A k \in 0..l : e[k] <= e[l]}
<1>e. e \in [0..Len(seqs) -> Nat]
  BY DEF AreBlocks
<1>1. 0 \in S
  BY <1>e
<1>2. ASSUME NEW l \in Nat, l \in S PROVE l + 1 \in S
  <2> SUFFICES ASSUME l + 1 <= Len(seqs), NEW k \in 0..(l + 1)
               PROVE  e[k] <= e[l + 1]
    OBVIOUS
  <2>1. l + 1 \in 1..Len(seqs) /\ (l + 1) - 1 = l /\ l \in 0..Len(seqs)
    OBVIOUS
  <2>2. e[l + 1] = e[l] + Len(seqs[l + 1])
    BY <2>1 DEF AreBlocks
  <2>3. e[l] \in Nat /\ Len(seqs[l + 1]) \in Nat
    BY <1>e, <2>1
  <2>4. CASE k = l + 1
    BY <2>4, <2>2, <2>3
  <2>5. CASE k <= l
    <3>1. e[k] <= e[l] /\ e[k] \in Nat
      BY <1>2, <1>e, <2>1, <2>5
    <3> QED
      BY ONLY <2>2, <2>3, <3>1
  <2> QED
    BY <2>4, <2>5
<1>3. Nat \subseteq S
  <2> HIDE DEF S
  <2> QED
    BY ONLY <1>1, <1>2, Induction
<1> QED
  BY <1>3

\* Every place is in one of them.
LEMMA PlaceIsInABlock ==
  ASSUME NEW seqs, NEW flat, NEW e, AreBlocks(seqs, flat, e), Len(seqs) \in Nat,
         NEW p \in 1..Len(flat), \A k \in 1..Len(seqs) : Len(seqs[k]) \in Nat
  PROVE  \E k \in 1..Len(seqs) : \E j \in 1..Len(seqs[k]) : p = e[k - 1] + j
<1>e. e \in [0..Len(seqs) -> Nat] /\ e[0] = 0 /\ Len(flat) = e[Len(seqs)]
  BY DEF AreBlocks
<1> DEFINE T == {k \in 0..Len(seqs) : p <= e[k]}
<1>1. Len(seqs) \in T
  BY <1>e
<1>2. PICK k \in T : \A l \in T : k <= l
  <2>1. T \subseteq Nat /\ T # {}
    BY <1>1
  <2> HIDE DEF T
  <2> QED
    BY ONLY <2>1, LeastElement
<1>3. k \in 1..Len(seqs) /\ p <= e[k]
  BY <1>2, <1>e
<1>4. k - 1 \in 0..Len(seqs) /\ ~(p <= e[k - 1])
  <2>1. k - 1 \notin T
    BY <1>2, <1>3
  <2> QED
    BY <1>3, <2>1
<1>5. e[k] = e[k - 1] + Len(seqs[k]) /\ e[k - 1] \in Nat /\ Len(seqs[k]) \in Nat
  BY <1>3, <1>4, <1>e DEF AreBlocks
<1>6. p - e[k - 1] \in 1..Len(seqs[k]) /\ p = e[k - 1] + (p - e[k - 1])
  BY <1>3, <1>4, <1>5
<1> QED
  BY ONLY <1>3, <1>6

LEMMA ConcatAt ==
  ASSUME NEW A, NEW s \in Seq(A), NEW t \in Seq(A)
  PROVE  /\ s \o t \in Seq(A) /\ Len(s) \in Nat /\ Len(t) \in Nat
         /\ Len(s \o t) = Len(s) + Len(t)
         /\ \A i \in 1..Len(s) : (s \o t)[i] = s[i]
         /\ \A i \in 1..Len(t) : (s \o t)[Len(s) + i] = t[i]
<1>1. s \o t \in Seq(A) /\ Len(s) \in Nat /\ Len(t) \in Nat
  BY ConcatProperties, LenProperties
<1>2. Len(s \o t) = Len(s) + Len(t)
  BY ConcatProperties
<1>3. ASSUME NEW i \in 1..Len(s) PROVE (s \o t)[i] = s[i]
  BY <1>1, ConcatProperties
<1>4. ASSUME NEW i \in 1..Len(t) PROVE (s \o t)[Len(s) + i] = t[i]
  <2>1. /\ Len(s) + i \in 1..(Len(s) + Len(t)) /\ ~(Len(s) + i <= Len(s))
        /\ Len(s) + i - Len(s) = i
    BY <1>1
  <2> QED
    BY <2>1, ConcatProperties
<1> QED
  BY <1>1, <1>2, <1>3, <1>4

\* What the first m of them make up, s.
IsLaidOut(A, seqs, s, e, m) ==
  /\ s \in Seq(A) /\ e[m - 1] \in Nat
  /\ e[m] = e[m - 1] + Len(seqs[m]) /\ e[m] = Len(s)
  /\ \A k \in 1..m : \A j \in 1..Len(seqs[k]) :
       /\ e[k - 1] + j \in 1..e[m]
       /\ s[e[k - 1] + j] = seqs[k][j]

LEMMA LaidOutStep ==
  ASSUME NEW A, NEW seqs, NEW s, NEW e, NEW m \in Nat \ {0}, NEW n, n = m + 1,
         IsLaidOut(A, seqs, s, e, m), NEW t \in Seq(A), t = seqs[n],
         e[n] = Len(s \o t)
  PROVE  IsLaidOut(A, seqs, s \o t, e, n)
<1>1. /\ s \in Seq(A) /\ e[m] = Len(s) /\ n - 1 = m
      /\ \A k \in 1..m : \A j \in 1..Len(seqs[k]) :
           /\ e[k - 1] + j \in 1..e[m]
           /\ s[e[k - 1] + j] = seqs[k][j]
  BY DEF IsLaidOut
<1> DEFINE u == s \o t
<1>2. /\ u \in Seq(A) /\ Len(u) = Len(s) + Len(t)
      /\ Len(s) \in Nat /\ Len(t) \in Nat
      /\ \A i \in 1..Len(s) : u[i] = s[i]
      /\ \A i \in 1..Len(t) : u[Len(s) + i] = t[i]
  BY ONLY <1>1, t \in Seq(A), ConcatAt
<1>u. e[n] = Len(u)
  OBVIOUS
<1>v. Len(u) = Len(s) + Len(t) /\ Len(s) \in Nat /\ Len(t) \in Nat
  BY ONLY <1>2
<1>w. \A i \in 1..Len(s) : u[i] = s[i]
  BY ONLY <1>2
<1> HIDE DEF u
<1>3. ASSUME NEW k \in 1..n, NEW j \in 1..Len(seqs[k])
      PROVE  /\ e[k - 1] + j \in 1..e[n]
             /\ u[e[k - 1] + j] = seqs[k][j]
  <2>1. CASE k = n
    <3>1. e[k - 1] = Len(s) /\ j \in 1..Len(t) /\ seqs[k][j] = t[j]
      BY ONLY <1>1, <1>3, <2>1, t = seqs[n]
    <3>2. u[Len(s) + j] = t[j] /\ Len(s) + j \in 1..Len(u)
      BY ONLY <1>2, <3>1
    <3> QED
      BY ONLY <1>u, <3>1, <3>2
  <2>2. CASE k # n
    <3>1. k \in 1..m
      BY <2>2
    <3>2. e[k - 1] + j \in 1..Len(s) /\ s[e[k - 1] + j] = seqs[k][j]
      BY ONLY <1>1, <1>3, <3>1
    <3>3. ASSUME NEW p \in 1..Len(s) PROVE p \in 1..Len(u) /\ u[p] = s[p]
      <4>1. p \in 1..Len(u)
        BY ONLY <1>v, <3>3
      <4>2. u[p] = s[p]
        BY ONLY <1>w, <3>3
      <4> QED
        BY ONLY <4>1, <4>2
    <3> QED
      BY ONLY <1>u, <3>2, <3>3
  <2> QED
    BY ONLY <2>1, <2>2
<1>4. e[n] = e[n - 1] + Len(seqs[n]) /\ e[n - 1] \in Nat
  BY ONLY <1>1, <1>2, <1>u, t = seqs[n]
<1>5. IsLaidOut(A, seqs, u, e, n)
  BY ONLY <1>2, <1>3, <1>4, <1>u DEF IsLaidOut
<1> QED
  BY ONLY <1>5 DEF u

LEMMA Flattened ==
  ASSUME NEW A, NEW seqs \in Seq(Seq(A))
  PROVE  /\ FlattenSeq(seqs) \in Seq(A)
         /\ \E e : AreBlocks(seqs, FlattenSeq(seqs), e)
<1>n. Len(seqs) \in Nat /\ \A k \in 1..Len(seqs) : seqs[k] \in Seq(A)
  BY ElementOfSeq
<1>1. CASE Len(seqs) = 0
  <2>1. seqs = <<>> /\ FlattenSeq(seqs) = <<>>
    BY <1>1, EmptySeq DEF FlattenSeq
  <2>2. AreBlocks(seqs, FlattenSeq(seqs), [k \in 0..0 |-> 0])
    BY <1>1, <2>1 DEF AreBlocks
  <2> QED
    BY <2>1, <2>2
<1>2. CASE Len(seqs) # 0
  <2>1. PICK f : PartialFlat(seqs, Len(seqs), f) /\ FlattenSeq(seqs) = f[Len(seqs)]
    BY ONLY <1>n, <1>2, FlattenIsPrefix
  <2>f. \A i \in 1..Len(seqs) : f[i] = IF i = 1 THEN seqs[i] ELSE f[i - 1] \o seqs[i]
    BY ONLY <2>1 DEF PartialFlat
  <2> DEFINE e == [k \in 0..Len(seqs) |-> IF k = 0 THEN 0 ELSE Len(f[k])]
  <2>e. e[0] = 0 /\ \A k \in 1..Len(seqs) : e[k] = Len(f[k])
    BY ONLY <1>n
  <2>d. e = [k \in 0..Len(seqs) |-> e[k]]
    BY ONLY <1>n
  <2> HIDE DEF e
  <2> DEFINE S == {m \in Nat : m + 1 <= Len(seqs) =>
                                 IsLaidOut(A, seqs, f[m + 1], e, m + 1)}
  <2>2. 0 \in S
    <3> SUFFICES ASSUME 1 <= Len(seqs) PROVE IsLaidOut(A, seqs, f[1], e, 1)
      OBVIOUS
    <3>n. 1 \in 1..Len(seqs)
      BY <1>n
    <3>1. f[1] = seqs[1] /\ seqs[1] \in Seq(A) /\ e[1] = Len(f[1])
      BY ONLY <3>n, <1>n, <2>f, <2>e
    <3>2. Len(seqs[1]) \in Nat
      BY ONLY <3>1, LenProperties
    <3> QED
      BY ONLY <3>1, <3>2, <2>e DEF IsLaidOut
  <2>3. ASSUME NEW m \in Nat, m \in S PROVE m + 1 \in S
    <3> SUFFICES ASSUME m + 2 <= Len(seqs) PROVE IsLaidOut(A, seqs, f[m + 2], e, m + 2)
      OBVIOUS
    <3> DEFINE n == m + 1
    <3>1. IsLaidOut(A, seqs, f[n], e, n) /\ n \in Nat \ {0} /\ n + 1 = m + 2
      BY <1>n, <2>3
    <3>2. /\ f[n + 1] = f[n] \o seqs[n + 1] /\ seqs[n + 1] \in Seq(A)
          /\ e[n + 1] = Len(f[n + 1])
      <4>1. n + 1 \in 1..Len(seqs) /\ n + 1 # 1 /\ (n + 1) - 1 = n
        BY <1>n
      <4> HIDE DEF n
      <4> QED
        BY ONLY <4>1, <1>n, <2>f, <2>e
    <3> HIDE DEF n
    <3>3. IsLaidOut(A, seqs, f[n + 1], e, n + 1)
      BY ONLY <3>1, <3>2, LaidOutStep
    <3> QED
      BY ONLY <3>1, <3>3
  <2>4. ASSUME NEW k \in 1..Len(seqs) PROVE IsLaidOut(A, seqs, f[k], e, k)
    <3>1. Nat \subseteq S
      <4> HIDE DEF S
      <4> QED
        BY ONLY <2>2, <2>3, Induction
    <3>2. k - 1 \in Nat /\ (k - 1) + 1 = k /\ k <= Len(seqs)
      BY ONLY <1>n, <2>4
    <3>3. k - 1 \in S
      BY ONLY <3>1, <3>2
    <3> QED
      BY ONLY <3>2, <3>3
  <2>5. AreBlocks(seqs, FlattenSeq(seqs), e)
    <3>n. Len(seqs) \in 1..Len(seqs)
      BY <1>n, <1>2
    <3>1. e \in [0..Len(seqs) -> Nat]
      <4>1. ASSUME NEW k \in 1..Len(seqs) PROVE e[k] \in Nat
        <5>1. IsLaidOut(A, seqs, f[k], e, k)
          BY ONLY <2>4, <4>1
        <5>2. f[k] \in Seq(A) /\ e[k] = Len(f[k])
          BY ONLY <5>1 DEF IsLaidOut
        <5> QED
          BY ONLY <5>2, LenProperties
      <4>2. ASSUME NEW k \in 0..Len(seqs) PROVE e[k] \in Nat
        <5>1. k = 0 \/ k \in 1..Len(seqs)
          BY ONLY <1>n, <4>2
        <5>2. CASE k = 0
          BY ONLY <5>2, <2>e
        <5> QED
          BY ONLY <5>1, <5>2, <4>1
      <4> QED
        BY ONLY <2>d, <4>2
    <3>2. Len(FlattenSeq(seqs)) = e[Len(seqs)]
      BY ONLY <3>n, <2>e, <2>1
    <3>3. IsLaidOut(A, seqs, f[Len(seqs)], e, Len(seqs))
      BY ONLY <3>n, <2>4
    <3>4. \A k \in 1..Len(seqs) : e[k] = e[k - 1] + Len(seqs[k])
      BY ONLY <2>4 DEF IsLaidOut
    <3> QED
      BY ONLY <3>1, <3>2, <3>3, <3>4, <2>1, <2>e DEF AreBlocks, IsLaidOut
  <2>6. f[Len(seqs)] \in Seq(A)
    BY <1>n, <1>2, <2>4 DEF IsLaidOut
  <2> QED
    BY ONLY <2>1, <2>5, <2>6
<1> QED
  BY ONLY <1>1, <1>2
(***************************************************************************)
(* The fragments of a NAL unit that does not fit in one packet.            *)
(***************************************************************************)
Size == MaxPayload - 2
From(i) == 2 + (i - 1) * Size
To(nal, i) ==
  IF From(i) + Size - 1 < Len(nal) THEN From(i) + Size - 1 ELSE Len(nal)

LEMMA Division ==
  ASSUME NEW a \in Nat, NEW b \in Nat, b > 0
  PROVE  /\ a \div b \in Nat /\ (a \div b) * b <= a
         /\ a < (a \div b) * b + b
  OBVIOUS

\* The loop runs until offset is past the end, more than once.
LEMMA FragmentCount ==
  ASSUME NEW nal, Len(nal) \in Nat, Len(nal) > MaxPayload
  PROVE  /\ Fragments(nal) \in Nat /\ Fragments(nal) > 1 /\ Size \in Nat /\ Size > 0
         /\ (Fragments(nal) - 1) * Size < Len(nal) - 1
         /\ Len(nal) - 1 <= Fragments(nal) * Size
<1> DEFINE n == Len(nal) - 1
           F == Fragments(nal)
<1>1. Size \in Nat /\ Size > 0 /\ n \in Nat /\ n > Size
  BY PayloadAssumption DEF Size
<1>2. F = (n + Size - 1) \div Size
  BY PayloadAssumption DEF Fragments, Size
<1> HIDE DEF n, F
<1>3. n + Size - 1 \in Nat
  BY ONLY <1>1
<1>4. F \in Nat /\ F * Size <= n + Size - 1 /\ n + Size - 1 < F * Size + Size
  BY ONLY <1>1, <1>2, <1>3, Division
<1>5. n <= F * Size /\ (F - 1) * Size < n
  BY ONLY <1>1, <1>4
<1>6. F > 1
  <2>1. CASE F = 0
    BY ONLY <1>1, <1>5, <2>1
  <2>2. CASE F = 1
    BY ONLY <1>1, <1>5, <2>2
  <2> QED
    BY ONLY <1>4, <2>1, <2>2
<1> QED
  BY ONLY <1>1, <1>4, <1>5, <1>6 DEF n, F

\* A fragment begins where the one before ends, and the last one ends the NAL.
LEMMA FragmentPlaces ==
  ASSUME NEW nal, Len(nal) \in Nat, Len(nal) > MaxPayload,
         NEW i \in 1..Fragments(nal)
  PROVE  /\ From(i) \in Nat /\ To(nal, i) \in Nat /\ From(1) = 2
         /\ 2 <= From(i) /\ From(i) <= To(nal, i) /\ To(nal, i) <= Len(nal)
         /\ To(nal, i) - From(i) + 1 <= Size
         /\ i = Fragments(nal) => To(nal, i) = Len(nal)
         /\ i # Fragments(nal) =>
              From(i + 1) = To(nal, i) + 1 /\ To(nal, i) = From(i) + Size - 1
<1> DEFINE F == Fragments(nal)
           m == (i - 1) * Size
<1>1. /\ F \in Nat /\ F > 1 /\ Size \in Nat /\ Size > 0
      /\ (F - 1) * Size < Len(nal) - 1 /\ Len(nal) - 1 <= F * Size
  BY FragmentCount
<1>2. i \in Nat /\ i >= 1 /\ i <= F
  BY <1>1
<1> HIDE DEF F
<1>3. /\ m \in Nat /\ m <= (F - 1) * Size /\ i * Size = m + Size
      /\ (i + 1 - 1) * Size = m + Size
  <2>1. (i - 1) * Size <= (F - 1) * Size
    <3>1. F - 1 = (i - 1) + (F - i) /\ F - i \in Nat /\ i - 1 \in Nat
      BY ONLY <1>1, <1>2
    <3>2. (F - 1) * Size = (i - 1) * Size + (F - i) * Size
      BY ONLY <1>1, <3>1
    <3>3. (F - i) * Size \in Nat /\ (i - 1) * Size \in Nat
      BY ONLY <1>1, <3>1
    <3> QED
      BY ONLY <3>2, <3>3
  <2>2. (i - 1) * Size \in Nat
    BY ONLY <1>1, <1>2
  <2> QED
    BY ONLY <1>1, <1>2, <2>1, <2>2
<1>4. i # F => i * Size <= (F - 1) * Size
  <2> SUFFICES ASSUME i # F PROVE i * Size <= (F - 1) * Size
    OBVIOUS
  <2>1. F - 1 = i + (F - 1 - i) /\ F - 1 - i \in Nat
    BY ONLY <1>1, <1>2, i # F
  <2>2. (F - 1) * Size = i * Size + (F - 1 - i) * Size
    BY ONLY <1>1, <1>2, <2>1
  <2>3. (F - 1 - i) * Size \in Nat /\ i * Size \in Nat
    BY ONLY <1>1, <1>2, <2>1
  <2> QED
    BY ONLY <2>2, <2>3
<1>5. From(i) = 2 + m /\ From(i + 1) = 2 + m + Size /\ From(1) = 2
  BY ONLY <1>1, <1>3 DEF From
<1> DEFINE l == (F - 1) * Size
<1>6. l < Len(nal) - 1 /\ m <= l /\ (i # F => m + Size <= l)
      /\ (i = F => Len(nal) - 1 <= m + Size) /\ l \in Int
  BY ONLY <1>1, <1>2, <1>3, <1>4
<1>7. m \in Nat
  BY ONLY <1>3
<1> HIDE DEF m, l
<1> QED
  BY ONLY <1>1, <1>5, <1>6, <1>7, Len(nal) \in Nat DEF To, F
\* The FU indicator keeps the bits before the type, the FU header the type.
LEMMA HeaderBits ==
  ASSUME NEW h \in Bytes, TypeOf(h) \in 1..23,
         NEW a \in {0, StartBit}, NEW b \in {0, EndBit},
         NEW x, x = BitsOf(h) + FUA, NEW y, y = TypeOf(h) + a + b
  PROVE  /\ x \in Bytes /\ y \in Bytes /\ TypeOf(x) = FUA
         /\ BitsOf(x) + TypeOf(y) = h
         /\ y >= StartBit <=> a = StartBit
         /\ y % StartBit >= EndBit <=> b = EndBit
<1> DEFINE t == h % 32
           q == h \div 32
<1>1. /\ h = 32 * q + t /\ t \in 1..23 /\ q \in 0..7 /\ h - t = 32 * q
  BY DEF TypeOf, Bytes
<1>2. x = 32 * q + 28 /\ y = t + a + b
  BY <1>1 DEF TypeOf, BitsOf, FUA
<1> HIDE DEF t, q
<1>3. x % 32 = 28 /\ y % 32 = t /\ y \in 0..255 /\ x \in 0..255
  <2>1. x % 32 = 28 /\ x \in 0..255
    BY ONLY <1>1, <1>2
  <2>2. y % 32 = t /\ y \in 0..255
    BY ONLY <1>1, <1>2, a \in {0, StartBit}, b \in {0, EndBit} DEF StartBit, EndBit
  <2> QED
    BY ONLY <2>1, <2>2
<1>4. /\ y >= StartBit <=> a = StartBit
      /\ y % StartBit >= EndBit <=> b = EndBit
  BY ONLY <1>1, <1>2, a \in {0, StartBit}, b \in {0, EndBit} DEF StartBit, EndBit
<1> QED
  BY ONLY <1>1, <1>2, <1>3, <1>4 DEF TypeOf, BitsOf, FUA, Bytes

\* Fragment i is what the receiver needs to go on.
LEMMA FragmentIs ==
  ASSUME NEW nal, IsNal(nal), Len(nal) > MaxPayload,
         NEW i \in 1..Fragments(nal), NEW p, p = Fragment(nal, i)
  PROVE  /\ p \in Seq(Bytes) /\ Len(p) \in 3..MaxPayload /\ TypeOf(p[1]) = FUA
         /\ BitsOf(p[1]) + TypeOf(p[2]) = nal[1]
         /\ p[2] >= StartBit <=> i = 1
         /\ p[2] % StartBit >= EndBit <=> i = Fragments(nal)
         /\ SubSeq(p, 3, Len(p)) = SubSeq(nal, From(i), To(nal, i))
<1>1. nal \in Seq(Bytes) /\ Len(nal) \in Nat /\ nal[1] \in Bytes
      /\ TypeOf(nal[1]) \in 1..23
  BY ElementOfSeq, LenProperties DEF IsNal
<1> DEFINE a == IF i = 1 THEN StartBit ELSE 0
           b == IF i = Fragments(nal) THEN EndBit ELSE 0
           x == BitsOf(nal[1]) + FUA
           y == TypeOf(nal[1]) + a + b
           d == SubSeq(nal, From(i), To(nal, i))
<1>2. /\ From(i) \in Nat /\ To(nal, i) \in Nat /\ 2 <= From(i)
      /\ From(i) <= To(nal, i) /\ To(nal, i) <= Len(nal)
      /\ To(nal, i) - From(i) + 1 <= Size
  BY <1>1, FragmentPlaces
<1>3. /\ x \in Bytes /\ y \in Bytes /\ TypeOf(x) = FUA
      /\ BitsOf(x) + TypeOf(y) = nal[1]
      /\ y >= StartBit <=> i = 1
      /\ y % StartBit >= EndBit <=> i = Fragments(nal)
  <2>1. a \in {0, StartBit} /\ b \in {0, EndBit}
        /\ (a = StartBit <=> i = 1) /\ (b = EndBit <=> i = Fragments(nal))
    BY DEF StartBit, EndBit
  <2> HIDE DEF a, b
  <2> QED
    BY ONLY <1>1, <2>1, HeaderBits
<1>4. p = <<x, y>> \o d
  BY DEF Fragment, From, To, Size
<1>5. d \in Seq(Bytes) /\ Len(d) = To(nal, i) - From(i) + 1
  <2>1. \A j \in From(i)..To(nal, i) : nal[j] \in Bytes
    <3> TAKE j \in From(i)..To(nal, i)
    <3>1. j \in 1..Len(nal)
      BY <1>1, <1>2
    <3> QED
      BY ONLY <1>1, <3>1, ElementOfSeq
  <2> QED
    BY ONLY <1>2, <2>1, SubSeqProperties
<1> HIDE DEF x, y, d
<1>6. /\ p \in Seq(Bytes) /\ Len(p) = 2 + Len(d) /\ p[1] = x /\ p[2] = y
      /\ \A j \in 1..Len(d) : p[2 + j] = d[j]
  <2>1. <<x, y>> \in Seq(Bytes) /\ Len(<<x, y>>) = 2
        /\ <<x, y>>[1] = x /\ <<x, y>>[2] = y
    BY ONLY <1>3
  <2>2. 1 \in 1..2 /\ 2 \in 1..2
    OBVIOUS
  <2> DEFINE z == <<x, y>>
  <2> HIDE DEF z
  <2>3. z \in Seq(Bytes) /\ Len(z) = 2 /\ z[1] = x /\ z[2] = y /\ p = z \o d
    BY ONLY <2>1, <1>4 DEF z
  <2>4. /\ z \o d \in Seq(Bytes) /\ Len(z \o d) = Len(z) + Len(d)
        /\ \A j \in 1..Len(z) : (z \o d)[j] = z[j]
        /\ \A j \in 1..Len(d) : (z \o d)[Len(z) + j] = d[j]
    <3>1. z \in Seq(Bytes) /\ d \in Seq(Bytes)
      BY ONLY <2>3, <1>5
    <3> QED
      BY ONLY <3>1, ConcatAt
  <2>5. /\ p \in Seq(Bytes) /\ Len(p) = Len(z) + Len(d)
        /\ \A j \in 1..Len(z) : p[j] = z[j]
        /\ \A j \in 1..Len(d) : p[Len(z) + j] = d[j]
    BY ONLY <2>3, <2>4
  <2>6. p[1] = z[1] /\ p[2] = z[2]
    BY ONLY <2>2, <2>3, <2>5
  <2>7. \A j \in 1..Len(d) : p[2 + j] = d[j]
    BY ONLY <2>3, <2>5
  <2> QED
    BY ONLY <2>3, <2>5, <2>6, <2>7
<1>7. Len(d) \in Nat /\ Len(d) > 0 /\ Len(d) <= Size
  BY ONLY <1>2, <1>5
<1>8. SubSeq(p, 3, Len(p)) = d
  <2>1. \A j \in 3..Len(p) : p[j] \in Bytes
    <3> TAKE j \in 3..Len(p)
    <3>1. j \in 1..Len(p)
      BY <1>6, <1>7
    <3> QED
      BY ONLY <1>6, <3>1, ElementOfSeq
  <2>2. /\ SubSeq(p, 3, Len(p)) \in Seq(Bytes)
        /\ Len(SubSeq(p, 3, Len(p))) = IF 3 <= Len(p) THEN Len(p) - 3 + 1 ELSE 0
        /\ \A j \in 1..(Len(p) - 3 + 1) : SubSeq(p, 3, Len(p))[j] = p[3 + j - 1]
    <3>1. 3 \in Int /\ Len(p) \in Int
      BY ONLY <1>6, <1>7
    <3> QED
      BY ONLY <2>1, <3>1, SubSeqProperties
  <2> DEFINE c == SubSeq(p, 3, Len(p))
  <2> HIDE DEF c
  <2>3. c \in Seq(Bytes) /\ Len(c) = Len(d) /\ \A j \in 1..Len(d) : c[j] = d[j]
    <3>1. Len(p) - 3 + 1 = Len(d) /\ 3 <= Len(p)
      BY ONLY <1>6, <1>7
    <3>2. ASSUME NEW j \in 1..Len(d) PROVE c[j] = d[j]
      <4>1. 3 + j - 1 = 2 + j
        BY ONLY <1>7, <3>2
      <4> QED
        BY ONLY <1>6, <2>2, <3>1, <3>2, <4>1 DEF c
    <3> QED
      BY ONLY <2>2, <3>1, <3>2 DEF c
  <2>4. c = d
    BY ONLY <1>5, <2>3, SeqEqual
  <2> QED
    BY ONLY <2>4 DEF c
<1>9. Len(p) \in 3..MaxPayload
  BY ONLY <1>6, <1>7, PayloadAssumption DEF Size
<1> QED
  BY ONLY <1>3, <1>6, <1>8, <1>9 DEF d
(***************************************************************************)
(* The receiver.                                                           *)
(***************************************************************************)
Received(packets, n, r) ==
  r = [k \in 0..n |-> IF k = 0 THEN <<>> ELSE Accept(r[k - 1], packets[k])]

LEMMA ReceivedExists ==
  ASSUME NEW packets, NEW n \in Nat
  PROVE  \E r : Received(packets, n, r)
<1> DEFINE S == {m \in Nat : \E r : Received(packets, m, r)}
<1>1. 0 \in S
  <2>1. Received(packets, 0, [k \in 0..0 |-> <<>>])
    BY DEF Received
  <2> QED
    BY <2>1
<1>2. ASSUME NEW m \in Nat, m \in S PROVE m + 1 \in S
  <2>1. PICK r : Received(packets, m, r)
    BY <1>2
  <2> DEFINE g == [k \in 0..(m + 1) |->
                     IF k <= m THEN r[k] ELSE Accept(r[m], packets[k])]
  <2>2. \A k \in 0..m : r[k] = IF k = 0 THEN <<>> ELSE Accept(r[k - 1], packets[k])
    BY ONLY <2>1 DEF Received
  <2>3. ASSUME NEW k \in 0..(m + 1)
        PROVE  g[k] = IF k = 0 THEN <<>> ELSE Accept(g[k - 1], packets[k])
    <3>1. CASE k <= m
      <4>1. k \in 0..m /\ (k # 0 => k - 1 \in 0..m)
        BY <3>1
      <4>2. g[k] = r[k] /\ (k # 0 => g[k - 1] = r[k - 1])
        BY <4>1
      <4> QED
        BY ONLY <2>2, <4>1, <4>2
    <3>2. CASE k = m + 1
      <4>1. k # 0 /\ k - 1 = m /\ m \in 0..(m + 1) /\ ~(k <= m) /\ m <= m
        BY ONLY m \in Nat, <3>2
      <4>2. g[m] = r[m] /\ g[k] = Accept(r[m], packets[k])
        BY <4>1
      <4> QED
        BY ONLY <4>1, <4>2
    <3> QED
      BY <3>1, <3>2
  <2>4. Received(packets, m + 1, g)
    <3>1. g = [k \in 0..(m + 1) |-> g[k]]
      OBVIOUS
    <3> HIDE DEF g
    <3> QED
      BY ONLY <3>1, <2>3 DEF Received
  <2> QED
    BY ONLY <2>4
<1> HIDE DEF S
<1>3. n \in S
  BY ONLY <1>1, <1>2, Induction
<1> QED
  BY <1>3 DEF S

LEMMA DepacketizeReceives ==
  ASSUME NEW packets, Len(packets) \in Nat
  PROVE  \E r : /\ Received(packets, Len(packets), r)
                /\ Depacketize(packets) = r[Len(packets)]
<1> DEFINE r == CHOOSE g : Received(packets, Len(packets), g)
<1>1. Received(packets, Len(packets), r)
  BY ONLY ReceivedExists, Len(packets) \in Nat
<1>2. Depacketize(packets) = r[Len(packets)]
  BY DEF Depacketize, Received
<1> QED
  BY <1>1, <1>2

LEMMA AppendEnds ==
  ASSUME NEW A, NEW s \in Seq(A), NEW x \in A
  PROVE  Front(Append(s, x)) = s /\ Last(Append(s, x)) = x
<1> DEFINE b == Append(s, x)
<1>1. /\ b \in Seq(A) /\ Len(b) = Len(s) + 1 /\ Len(s) \in Nat
      /\ b[Len(s) + 1] = x /\ \A i \in 1..Len(s) : b[i] = s[i]
  BY AppendProperties, LenProperties
<1> HIDE DEF b
<1>2. Last(b) = x
  BY ONLY <1>1 DEF Last
<1>3. Front(b) = s
  <2>1. \A i \in 1..Len(s) : b[i] \in A
    BY ONLY <1>1, s \in Seq(A), ElementOfSeq
  <2> DEFINE f == SubSeq(b, 1, Len(s))
  <2>2. /\ f \in Seq(A) /\ Len(f) = IF 1 <= Len(s) THEN Len(s) - 1 + 1 ELSE 0
        /\ \A i \in 1..(Len(s) - 1 + 1) : f[i] = b[1 + i - 1]
    <3>1. 1 \in Int /\ Len(s) \in Int
      BY ONLY <1>1
    <3> QED
      BY ONLY <2>1, <3>1, SubSeqProperties
  <2> HIDE DEF f
  <2>3. Len(f) = Len(s) /\ \A i \in 1..Len(s) : f[i] = s[i]
    <3>1. Len(s) - 1 + 1 = Len(s)
      BY ONLY <1>1
    <3>2. ASSUME NEW i \in 1..Len(s) PROVE f[i] = s[i]
      <4>1. 1 + i - 1 = i
        BY ONLY <1>1, <3>2
      <4> QED
        BY ONLY <1>1, <2>2, <3>1, <3>2, <4>1
    <3> QED
      BY ONLY <1>1, <2>2, <3>1, <3>2
  <2>4. f = s
    BY ONLY <2>2, <2>3, s \in Seq(A), SeqEqual
  <2>5. Len(b) - 1 = Len(s)
    BY ONLY <1>1
  <2> QED
    BY ONLY <2>4, <2>5 DEF f, Front
<1> QED
  BY ONLY <1>2, <1>3 DEF b

\* With fragment i the receiver has the NAL unit up to where it ends.
LEMMA AcceptsFragment ==
  ASSUME NEW nals \in Seq(Seq(Bytes)), NEW nal, IsNal(nal), Len(nal) > MaxPayload,
         NEW i \in 1..Fragments(nal), NEW q, q.payload = Fragment(nal, i),
         NEW b, i = 1 => b = nals,
         i # 1 => b = Append(nals, SubSeq(nal, 1, To(nal, i - 1)))
  PROVE  Accept(b, q) = Append(nals, SubSeq(nal, 1, To(nal, i)))
<1> DEFINE p == q.payload
           d == SubSeq(nal, From(i), To(nal, i))
<1>1. nal \in Seq(Bytes) /\ Len(nal) \in Nat /\ nal[1] \in Bytes
  BY ElementOfSeq, LenProperties DEF IsNal
<1>2. /\ TypeOf(p[1]) = FUA /\ BitsOf(p[1]) + TypeOf(p[2]) = nal[1]
      /\ p[2] >= StartBit <=> i = 1
      /\ SubSeq(p, 3, Len(p)) = d
  <2>1. p = Fragment(nal, i)
    OBVIOUS
  <2> HIDE DEF p
  <2> QED
    BY ONLY <2>1, IsNal(nal), Len(nal) > MaxPayload, i \in 1..Fragments(nal),
            FragmentIs, ZenonT(60)
<1>3. /\ From(i) \in Nat /\ To(nal, i) \in Nat /\ From(1) = 2
      /\ 2 <= From(i) /\ From(i) <= To(nal, i) /\ To(nal, i) <= Len(nal)
  BY <1>1, FragmentPlaces
<1> HIDE DEF p
<1>4. Accept(b, q) = IF i = 1 THEN Append(b, <<nal[1]>> \o d)
                     ELSE Append(Front(b), Last(b) \o d)
  BY ONLY <1>2 DEF Accept, p
<1>5. CASE i = 1
  <2>1. 1 \in 1..Len(nal) /\ To(nal, i) \in 1..Len(nal) /\ From(i) = 1 + 1
    BY ONLY <1>1, <1>3, <1>5
  <2>2. SubSeq(nal, 1, To(nal, i)) = <<nal[1]>> \o SubSeq(nal, 1 + 1, To(nal, i))
    BY ONLY <1>1, <2>1, SubSeqRecursiveFirst
  <2> QED
    BY ONLY <1>4, <1>5, <2>1, <2>2, i = 1 => b = nals
<1>6. CASE i # 1
  <2> DEFINE j == i - 1
             s == SubSeq(nal, 1, To(nal, j))
  <2>1. Fragments(nal) \in Nat
    BY <1>1, FragmentCount
  <2>2. j \in 1..Fragments(nal) /\ j # Fragments(nal) /\ j + 1 = i
    BY <1>6, <2>1
  <2>3. From(i) = To(nal, j) + 1 /\ To(nal, j) \in Nat /\ To(nal, j) <= Len(nal)
        /\ 2 <= To(nal, j)
    <3> HIDE DEF j
    <3>1. /\ To(nal, j) \in Nat /\ To(nal, j) <= Len(nal)
          /\ 2 <= From(j) /\ From(j) <= To(nal, j) /\ From(j) \in Nat
          /\ From(j + 1) = To(nal, j) + 1
      BY ONLY <1>1, <2>2, Len(nal) > MaxPayload, FragmentPlaces
    <3> QED
      BY ONLY <2>2, <3>1
  <2>4. s \in Seq(Bytes)
    <3>1. \A m \in 1..To(nal, j) : nal[m] \in Bytes
      <4> TAKE m \in 1..To(nal, j)
      <4>1. m \in 1..Len(nal)
        BY ONLY <1>1, <2>3, m \in 1..To(nal, j)
      <4> QED
        BY ONLY <1>1, <4>1, ElementOfSeq
    <3>2. 1 \in Int /\ To(nal, j) \in Int
      BY ONLY <2>3
    <3> QED
      BY ONLY <3>1, <3>2, SubSeqProperties
  <2>5. s \o d = SubSeq(nal, 1, To(nal, i))
    <3>1. /\ 1 \in 1..(Len(nal) + 1) /\ To(nal, j) \in (1 - 1)..Len(nal)
          /\ To(nal, i) \in To(nal, j)..Len(nal)
      BY ONLY <1>1, <1>3, <2>3
    <3>2. SubSeq(nal, 1, To(nal, j)) \o SubSeq(nal, To(nal, j) + 1, To(nal, i))
            = SubSeq(nal, 1, To(nal, i))
      BY ONLY <1>1, <3>1, ConcatAdjacentSubSeq
    <3> QED
      BY ONLY <2>3, <3>2
  <2>6. b = Append(nals, s)
    BY ONLY <1>6, i # 1 => b = Append(nals, SubSeq(nal, 1, To(nal, i - 1)))
  <2> HIDE DEF s, d
  <2>7. Front(b) = nals /\ Last(b) = s
    BY ONLY <2>4, <2>6, nals \in Seq(Seq(Bytes)), AppendEnds
  <2> QED
    BY ONLY <1>4, <1>6, <2>5, <2>7
<1> QED
  BY ONLY <1>5, <1>6
(***************************************************************************)
(* The packets of one NAL unit.                                            *)
(***************************************************************************)
Packets == [payload : Seq(Bytes), marker : BOOLEAN]

\* There is one at least, or two fragments.  What AreWellFormed says holds of
\* each among them, the first one starts and the last one ends.
AreOfOneNal(s, isLast) ==
  /\ Len(s) \in Nat /\ Len(s) >= 1
  /\ \A i \in 1..Len(s) :
       /\ Len(s[i].payload) \in 1..MaxPayload
       /\ s[i].marker <=> isLast /\ i = Len(s)
       /\ IsFragment(s[i]) => Len(s) > 1
       /\ IsFragment(s[i]) => \A j \in 1..Len(s) : IsFragment(s[j])
       /\ IsFragment(s[i]) => (Starts(s[i]) <=> i = 1)
       /\ IsFragment(s[i]) => (Ends(s[i]) <=> i = Len(s))

LEMMA PacketsOfNal ==
  ASSUME NEW nal, IsNal(nal), NEW isLast \in BOOLEAN,
         NEW s, s = PacketsOf(nal, isLast)
  PROVE  s \in Seq(Packets) /\ AreOfOneNal(s, isLast)
<1>1. /\ nal \in Seq(Bytes) /\ Len(nal) \in Nat /\ Len(nal) > 0 /\ nal[1] \in Bytes
      /\ TypeOf(nal[1]) \in 1..23
  <2>1. nal \in Seq(Bytes) /\ nal # <<>> /\ TypeOf(nal[1]) \in 1..23
    BY DEF IsNal
  <2>2. Len(nal) \in Nat /\ Len(nal) > 0
    BY ONLY <2>1, LenProperties, EmptySeq
  <2>3. 1 \in 1..Len(nal)
    BY ONLY <2>2
  <2> QED
    BY ONLY <2>1, <2>2, <2>3, ElementOfSeq
<1>2. CASE Len(nal) <= MaxPayload
  <2> DEFINE q == Packet(nal, isLast)
  <2>1. q \in Packets /\ q.payload = nal /\ q.marker = isLast
    BY ONLY <1>1, isLast \in BOOLEAN DEF Packet, Packets
  <2>2. s = <<q>>
    BY ONLY <1>2, s = PacketsOf(nal, isLast) DEF PacketsOf
  <2> HIDE DEF q
  <2>3. s \in Seq(Packets) /\ Len(s) = 1 /\ s[1] = q
    BY ONLY <2>1, <2>2
  <2>4. ~IsFragment(q)
    <3>1. TypeOf(q.payload[1]) \in 1..23
      BY ONLY <1>1, <2>1
    <3>2. \A x \in 1..23 : x # FUA
      BY ONLY DEF FUA
    <3> QED
      BY ONLY <3>1, <3>2 DEF IsFragment
  <2>5. Len(q.payload) \in 1..MaxPayload
    BY ONLY <1>1, <1>2, <2>1, PayloadAssumption
  <2>6. ASSUME NEW i \in 1..Len(s) PROVE i = 1 /\ s[i] = q /\ i = Len(s)
    BY ONLY <2>3, <2>6
  <2>7. Len(s) \in Nat /\ Len(s) >= 1
    BY ONLY <2>3
  <2> QED
    BY ONLY <2>1, <2>3, <2>4, <2>5, <2>6, <2>7 DEF AreOfOneNal
<1>3. CASE ~(Len(nal) <= MaxPayload)
  <2> DEFINE F == Fragments(nal)
  <2>0. Len(nal) > MaxPayload
    BY ONLY <1>1, <1>3, PayloadAssumption
  <2>1. F \in Nat /\ F > 1
    BY ONLY <1>1, <2>0, FragmentCount
  <2>2. ASSUME NEW i \in 1..F, NEW q, q = Packet(Fragment(nal, i), isLast /\ i = F)
        PROVE  /\ q \in Packets /\ Len(q.payload) \in 1..MaxPayload
               /\ q.marker <=> isLast /\ i = F
               /\ IsFragment(q)
               /\ Starts(q) <=> i = 1
               /\ Ends(q) <=> i = F
    <3> DEFINE p == Fragment(nal, i)
    <3>1. /\ p \in Seq(Bytes) /\ Len(p) \in 3..MaxPayload /\ TypeOf(p[1]) = FUA
          /\ p[2] >= StartBit <=> i = 1
          /\ p[2] % StartBit >= EndBit <=> i = Fragments(nal)
      <4>1. i \in 1..Fragments(nal)
        OBVIOUS
      <4> QED
        BY ONLY <4>1, IsNal(nal), <2>0, FragmentIs
    <3> HIDE DEF p
    <3>2. q.payload = p /\ q.marker = (isLast /\ i = F) /\ q \in Packets
      BY ONLY <2>2, <3>1 DEF Packet, Packets, p
    <3>3. Len(p) \in 1..MaxPayload
      BY ONLY <3>1, PayloadAssumption
    <3> QED
      BY ONLY <3>1, <3>2, <3>3 DEF IsFragment, Starts, Ends, F
  <2>3. s = [i \in 1..F |-> Packet(Fragment(nal, i), isLast /\ i = F)]
    BY ONLY <1>3, s = PacketsOf(nal, isLast) DEF PacketsOf
  <2> HIDE DEF F
  <2>4. \A i \in 1..F : s[i] = Packet(Fragment(nal, i), isLast /\ i = F)
    BY ONLY <2>3
  <2>5. \A i \in 1..F : s[i] \in Packets
    BY ONLY <2>2, <2>4
  <2>6. s \in Seq(Packets) /\ Len(s) = F
    <3>1. s \in [1..F -> Packets]
      BY ONLY <2>3, <2>5
    <3> QED
      BY ONLY <2>1, <3>1
  <2> QED
    BY ONLY <2>1, <2>2, <2>4, <2>6 DEF AreOfOneNal
<1> QED
  BY ONLY <1>2, <1>3
(***************************************************************************)
(* The packets of an access unit.                                          *)
(***************************************************************************)

\* After n packets the receiver takes those of s.
Takes(r, n, s) ==
  \A j \in 1..Len(s) : r[n + j] = Accept(r[(n + j) - 1], s[j])

\* The receiver, which has taken n packets, is through with the next NAL unit
\* after that unit's packets.
LEMMA NalIsReceived ==
  ASSUME NEW nal, IsNal(nal), NEW isLast \in BOOLEAN, NEW s,
         s = PacketsOf(nal, isLast), NEW nals \in Seq(Seq(Bytes)),
         NEW r, NEW n \in Nat, r[n] = nals,
         Takes(r, n, s)
  PROVE  r[n + Len(s)] = Append(nals, nal)
<1>t. \A j \in 1..Len(s) : r[n + j] = Accept(r[(n + j) - 1], s[j])
  BY DEF Takes
<1>1. nal \in Seq(Bytes) /\ Len(nal) \in Nat /\ TypeOf(nal[1]) \in 1..23
  BY LenProperties DEF IsNal
<1>2. CASE Len(nal) <= MaxPayload
  <2>1. s = <<Packet(nal, isLast)>>
    BY ONLY <1>2, s = PacketsOf(nal, isLast) DEF PacketsOf
  <2>2. Len(s) = 1 /\ s[1].payload = nal
    BY ONLY <2>1 DEF Packet
  <2>3. r[n + 1] = Accept(nals, s[1])
    <3>1. 1 \in 1..Len(s) /\ (n + 1) - 1 = n
      BY <2>2
    <3> QED
      BY <1>t, <3>1
  <2>4. Accept(nals, s[1]) = Append(nals, nal)
    <3>1. TypeOf(nal[1]) # FUA
      <4>1. TypeOf(nal[1]) \in 1..23
        BY ONLY <1>1
      <4>2. \A x \in 1..23 : x # FUA
        BY ONLY DEF FUA
      <4> QED
        BY ONLY <4>1, <4>2
    <3> QED
      BY ONLY <2>2, <3>1 DEF Accept
  <2> QED
    BY ONLY <2>2, <2>3, <2>4
<1>3. CASE ~(Len(nal) <= MaxPayload)
  <2> DEFINE F == Fragments(nal)
             U(i) == SubSeq(nal, 1, To(nal, i))
             S == {m \in Nat : m + 1 <= F => r[n + (m + 1)] = Append(nals, U(m + 1))}
  <2>0. Len(nal) > MaxPayload
    BY ONLY <1>1, <1>3, PayloadAssumption
  <2>1. F \in Nat /\ F > 1
    BY ONLY <1>1, <2>0, FragmentCount
  <2>2. s = [i \in 1..F |-> Packet(Fragment(nal, i), isLast /\ i = F)]
    BY ONLY <1>3, s = PacketsOf(nal, isLast) DEF PacketsOf
  <2>3. ASSUME NEW i \in 1..F, NEW b,
               b = IF i = 1 THEN nals ELSE Append(nals, U(i - 1)),
               r[(n + i) - 1] = b
        PROVE  r[n + i] = Append(nals, U(i))
    <3>1. Len(s) = F /\ s[i].payload = Fragment(nal, i)
      <4> HIDE DEF F
      <4>1. Len(s) = F
        BY ONLY <2>1, <2>2
      <4>2. s[i] = Packet(Fragment(nal, i), isLast /\ i = F)
        BY ONLY <2>2, <2>3
      <4> QED
        BY ONLY <4>1, <4>2 DEF Packet
    <3>2. r[n + i] = Accept(b, s[i])
      BY <1>t, <3>1, <2>3
    <3>3. Accept(b, s[i]) = Append(nals, U(i))
      <4>1. i \in 1..Fragments(nal)
        OBVIOUS
      <4>2. /\ i = 1 => b = nals
            /\ i # 1 => b = Append(nals, SubSeq(nal, 1, To(nal, i - 1)))
        BY <2>3
      <4> DEFINE q == s[i]
      <4>3. q.payload = Fragment(nal, i)
        BY ONLY <3>1
      <4> HIDE DEF q
      <4>4. Accept(b, q) = Append(nals, SubSeq(nal, 1, To(nal, i)))
        <5> HIDE DEF U, F
        <5> QED
          BY ONLY <4>1, <4>2, <4>3, <2>0, IsNal(nal), nals \in Seq(Seq(Bytes)),
                  AcceptsFragment, ZenonT(60)
      <4> QED
        BY ONLY <4>4 DEF q
    <3> QED
      BY ONLY <3>2, <3>3
  <2> HIDE DEF U
  <2>u. U(F) = nal
    <3>1. F \in 1..Fragments(nal)
      BY ONLY <2>1
    <3>2. To(nal, F) = Len(nal)
      BY ONLY <3>1, <1>1, <2>0, FragmentPlaces
    <3> QED
      BY ONLY <3>2, <1>1, SubSeqFull DEF U
  <2>l. Len(s) = F
    <3> HIDE DEF F
    <3> QED
      BY ONLY <2>1, <2>2
  <2> HIDE DEF F
  <2>4. 0 \in S
    <3>1. 1 \in 1..F /\ (n + 1) - 1 = n /\ 0 + 1 = 1
      BY ONLY <2>1, n \in Nat
    <3>2. r[n + 1] = Append(nals, U(1))
      BY ONLY <2>3, <3>1, r[n] = nals
    <3> QED
      BY ONLY <3>1, <3>2
  <2>5. ASSUME NEW m \in Nat, m \in S PROVE m + 1 \in S
    <3> SUFFICES ASSUME (m + 1) + 1 <= F
                 PROVE  r[n + ((m + 1) + 1)] = Append(nals, U((m + 1) + 1))
      OBVIOUS
    <3> DEFINE i == (m + 1) + 1
    <3>1. i \in 1..F /\ i # 1 /\ (n + i) - 1 = n + (m + 1) /\ i - 1 = m + 1
      BY <2>1
    <3>2. r[n + (m + 1)] = Append(nals, U(m + 1))
      BY <2>1, <2>5
    <3> HIDE DEF i
    <3>3. r[n + i] = Append(nals, U(i))
      BY ONLY <2>3, <3>1, <3>2
    <3> QED
      BY ONLY <3>3 DEF i
  <2>6. F - 1 \in S
    <3>1. Nat \subseteq S
      <4> HIDE DEF S
      <4> QED
        BY ONLY <2>4, <2>5, Induction
    <3>2. F - 1 \in Nat
      BY ONLY <2>1
    <3> HIDE DEF S
    <3> QED
      BY ONLY <3>1, <3>2
  <2>7. r[n + F] = Append(nals, U(F))
    <3>1. (F - 1) + 1 = F
      BY ONLY <2>1
    <3> QED
      BY ONLY <2>1, <2>6, <3>1
  <2> QED
    BY ONLY <2>7, <2>u, <2>l
<1> QED
  BY ONLY <1>2, <1>3

\* The packets of all its NAL units, and where those of each end.
AllPackets(nals) == [i \in DOMAIN nals |-> PacketsOf(nals[i], i = Len(nals))]

LEMMA PacketBlocks ==
  ASSUME NEW nals \in Seq(Seq(Bytes)), \A i \in DOMAIN nals : IsNal(nals[i])
  PROVE  /\ Packetize(nals) = FlattenSeq(AllPackets(nals))
         /\ AllPackets(nals) \in Seq(Seq(Packets))
         /\ Len(AllPackets(nals)) = Len(nals) /\ Len(nals) \in Nat
         /\ \A k \in 1..Len(nals) :
              AllPackets(nals)[k] = PacketsOf(nals[k], k = Len(nals))
         /\ Packetize(nals) \in Seq(Packets) /\ Len(Packetize(nals)) \in Nat
         /\ \E e : AreBlocks(AllPackets(nals), Packetize(nals), e)
<1> DEFINE seqs == AllPackets(nals)
<1>1. Len(nals) \in Nat /\ DOMAIN nals = 1..Len(nals)
  BY LenProperties
<1>2. seqs = [i \in 1..Len(nals) |-> PacketsOf(nals[i], i = Len(nals))]
  BY ONLY <1>1 DEF AllPackets
<1>3. Packetize(nals) = FlattenSeq(seqs)
  BY DEF Packetize, AllPackets
<1> HIDE DEF seqs
<1>4. \A k \in 1..Len(nals) : seqs[k] = PacketsOf(nals[k], k = Len(nals))
  BY ONLY <1>2
<1>5. ASSUME NEW k \in 1..Len(nals) PROVE seqs[k] \in Seq(Packets)
  <2> DEFINE isLast == k = Len(nals)
             nal == nals[k]
             s == seqs[k]
  <2>1. IsNal(nal) /\ isLast \in BOOLEAN /\ s = PacketsOf(nal, isLast)
    BY <1>1, <1>4
  <2> HIDE DEF isLast, nal, s
  <2>2. s \in Seq(Packets)
    BY ONLY <2>1, PacketsOfNal
  <2> QED
    BY ONLY <2>2 DEF s
<1>6. seqs \in Seq(Seq(Packets)) /\ Len(seqs) = Len(nals)
  <2>1. seqs \in [1..Len(nals) -> Seq(Packets)]
    BY ONLY <1>2, <1>5
  <2> QED
    BY ONLY <1>1, <2>1
<1>7. FlattenSeq(seqs) \in Seq(Packets) /\ \E e : AreBlocks(seqs, FlattenSeq(seqs), e)
  BY ONLY <1>6, Flattened
<1>8. Len(FlattenSeq(seqs)) \in Nat
  BY ONLY <1>7, LenProperties
<1> QED
  BY ONLY <1>1, <1>3, <1>4, <1>6, <1>7, <1>8 DEF seqs
\* What a receiver puts together again from the packets of SendH264AccessUnit
\* are the NAL units they were made of.
THEOREM PacketsAreReceived ==
  ASSUME NEW nals \in Seq(Seq(Bytes)), \A i \in DOMAIN nals : IsNal(nals[i])
  PROVE  Depacketize(Packetize(nals)) = nals
<1> DEFINE seqs == AllPackets(nals)
           packets == Packetize(nals)
<1>1. /\ Len(seqs) = Len(nals) /\ Len(nals) \in Nat
      /\ \A k \in 1..Len(nals) : seqs[k] = PacketsOf(nals[k], k = Len(nals))
      /\ Len(packets) \in Nat
      /\ \E e : AreBlocks(seqs, packets, e)
  BY PacketBlocks
<1>2. \A k \in 1..Len(nals) : nals[k] \in Seq(Bytes) /\ IsNal(nals[k])
  BY ElementOfSeq, LenProperties
<1>3. Len(packets) \in Nat
  BY <1>1
<1> HIDE DEF seqs, packets
<1>4. PICK e : AreBlocks(seqs, packets, e)
  BY ONLY <1>1
<1>5. PICK r : /\ Received(packets, Len(packets), r)
               /\ Depacketize(packets) = r[Len(packets)]
  BY ONLY <1>3, DepacketizeReceives
<1>r. \A k \in 0..Len(packets) :
         r[k] = IF k = 0 THEN <<>> ELSE Accept(r[k - 1], packets[k])
  BY ONLY <1>5 DEF Received
<1>6. /\ e \in [0..Len(nals) -> Nat] /\ e[0] = 0 /\ Len(packets) = e[Len(nals)]
      /\ \A k \in 1..Len(nals) :
           /\ e[k] = e[k - 1] + Len(seqs[k])
           /\ \A j \in 1..Len(seqs[k]) : packets[e[k - 1] + j] = seqs[k][j]
  BY ONLY <1>1, <1>4 DEF AreBlocks
<1>7. ASSUME NEW k \in 1..Len(nals) PROVE Len(seqs[k]) \in Nat /\ Len(seqs[k]) >= 1
  <2> DEFINE isLast == k = Len(nals)
             nal == nals[k]
             s == seqs[k]
  <2>1. IsNal(nal) /\ isLast \in BOOLEAN /\ s = PacketsOf(nal, isLast)
    BY ONLY <1>1, <1>2, <1>7
  <2> HIDE DEF isLast, nal, s
  <2>2. Len(s) \in Nat /\ Len(s) >= 1
    BY ONLY <2>1, PacketsOfNal DEF AreOfOneNal
  <2> QED
    BY ONLY <2>2 DEF s
<1>8. \A k \in 0..Len(nals) : e[k] <= Len(packets)
  <2>1. \A l \in 0..Len(seqs) : \A k \in 0..l : e[k] <= e[l]
    BY ONLY <1>1, <1>4, <1>7, BlocksGrow
  <2>2. Len(nals) \in 0..Len(seqs)
    BY ONLY <1>1
  <2> QED
    BY ONLY <1>1, <1>6, <2>1, <2>2
<1> DEFINE U(k) == SubSeq(nals, 1, k)
           S == {k \in Nat : k <= Len(nals) => r[e[k]] = U(k)}
<1>9. 0 \in S
  <2>1. r[0] = <<>>
    BY ONLY <1>3, <1>r
  <2>2. U(0) = <<>>
    BY ONLY SubSeqEmpty
  <2> QED
    BY <1>6, <2>1, <2>2
<1>10. ASSUME NEW m \in Nat, m \in S PROVE m + 1 \in S
  <2> SUFFICES ASSUME m + 1 <= Len(nals) PROVE r[e[m + 1]] = U(m + 1)
    OBVIOUS
  <2> DEFINE k == m + 1
             isLast == k = Len(nals)
             nal == nals[k]
             s == seqs[k]
             n == e[m]
             before == U(m)
  <2>1. k \in 1..Len(nals) /\ k - 1 = m /\ m \in 0..Len(nals)
    BY <1>1
  <2>2. IsNal(nal) /\ isLast \in BOOLEAN /\ s = PacketsOf(nal, isLast)
        /\ nal \in Seq(Bytes)
    <3> HIDE DEF k
    <3> QED
      BY ONLY <1>1, <1>2, <2>1
  <2>3. r[n] = before
    BY <1>10, <2>1
  <2>4. before \in Seq(Seq(Bytes))
    <3>1. \A i \in 1..m : nals[i] \in Seq(Bytes)
      BY <1>1, <1>2, <2>1
    <3>2. 1 \in Int /\ m \in Int
      BY ONLY m \in Nat
    <3> QED
      BY ONLY <3>1, <3>2, SubSeqProperties
  <2>5. n \in Nat /\ e[k] = n + Len(s) /\ e[k] <= Len(packets)
        /\ Len(s) \in Nat /\ \A j \in 1..Len(s) : packets[n + j] = s[j]
    <3>1. n \in Nat
      BY ONLY <1>6, <2>1
    <3>2. e[k] <= Len(packets)
      <4>1. k \in 0..Len(nals)
        BY ONLY <1>1, <2>1
      <4> QED
        BY ONLY <1>8, <4>1
    <3> HIDE DEF k
    <3> QED
      BY ONLY <1>6, <1>7, <2>1, <3>1, <3>2
  <2>6. U(k) = Append(before, nal)
    <3>1. 1 \in 1..Len(nals) /\ k \in 1..Len(nals)
      BY ONLY <1>1, <2>1
    <3> HIDE DEF k
    <3>2. SubSeq(nals, 1, k) = SubSeq(nals, 1, k - 1) \o <<nals[k]>>
      BY ONLY <3>1, nals \in Seq(Seq(Bytes)), SubSeqRecursiveSecond
    <3>3. Append(before, nal) = before \o <<nal>>
      BY ONLY <2>2, <2>4, AppendIsConcat
    <3> QED
      BY ONLY <2>1, <3>2, <3>3
  <2>7. ASSUME NEW j \in 1..Len(s)
        PROVE  r[n + j] = Accept(r[(n + j) - 1], s[j])
    <3> HIDE DEF n, s, k
    <3>1. n + j \in 0..Len(packets) /\ n + j # 0
      BY ONLY <1>3, <2>5, <2>7
    <3> QED
      BY ONLY <1>r, <2>5, <2>7, <3>1
  <2> HIDE DEF k, isLast, nal, s, n, before, U
  <2>8. r[n + Len(s)] = Append(before, nal)
    <3>1. Takes(r, n, s)
      BY ONLY <2>7 DEF Takes
    <3> QED
      BY ONLY <2>2, <2>3, <2>4, <2>5, <3>1, NalIsReceived
  <2>9. r[e[k]] = U(k)
    BY ONLY <2>5, <2>6, <2>8
  <2> QED
    BY ONLY <2>9 DEF k
<1>11. r[Len(packets)] = nals
  <2>1. Nat \subseteq S
    <3> HIDE DEF S
    <3> QED
      BY ONLY <1>9, <1>10, Induction
  <2>2. r[e[Len(nals)]] = U(Len(nals))
    BY ONLY <1>1, <2>1
  <2>3. U(Len(nals)) = nals
    BY ONLY nals \in Seq(Seq(Bytes)), SubSeqFull
  <2> QED
    BY ONLY <1>6, <2>2, <2>3
<1> QED
  BY ONLY <1>5, <1>11 DEF packets

\* They are those of RFC 6184: none too large, the fragments of a NAL unit
\* from its start to its end, the marker on the last.
THEOREM PacketsAreWellFormed ==
  ASSUME NEW nals \in Seq(Seq(Bytes)), \A i \in DOMAIN nals : IsNal(nals[i])
  PROVE  AreWellFormed(Packetize(nals))
<1> DEFINE seqs == AllPackets(nals)
           packets == Packetize(nals)
<1>1. /\ Len(seqs) = Len(nals) /\ Len(nals) \in Nat
      /\ \A k \in 1..Len(nals) : seqs[k] = PacketsOf(nals[k], k = Len(nals))
      /\ packets \in Seq(Packets)
      /\ \E e : AreBlocks(seqs, packets, e)
  BY PacketBlocks
<1>2. \A k \in 1..Len(nals) : IsNal(nals[k])
  BY LenProperties
<1> HIDE DEF seqs, packets
<1>3. Len(packets) \in Nat /\ DOMAIN packets = 1..Len(packets)
  BY ONLY <1>1, LenProperties
<1>4. PICK e : AreBlocks(seqs, packets, e)
  BY ONLY <1>1
<1>5. /\ e \in [0..Len(nals) -> Nat] /\ e[0] = 0 /\ Len(packets) = e[Len(nals)]
      /\ \A k \in 1..Len(nals) :
           /\ e[k] = e[k - 1] + Len(seqs[k])
           /\ \A j \in 1..Len(seqs[k]) : packets[e[k - 1] + j] = seqs[k][j]
  BY ONLY <1>1, <1>4 DEF AreBlocks
<1>6. ASSUME NEW k \in 1..Len(nals)
      PROVE  AreOfOneNal(seqs[k], k = Len(nals))
  <2> DEFINE isLast == k = Len(nals)
             nal == nals[k]
             s == seqs[k]
  <2>1. IsNal(nal) /\ isLast \in BOOLEAN /\ s = PacketsOf(nal, isLast)
    BY ONLY <1>1, <1>2, <1>6
  <2> HIDE DEF isLast, nal, s
  <2>2. AreOfOneNal(s, isLast)
    BY ONLY <2>1, PacketsOfNal
  <2> QED
    BY ONLY <2>2 DEF isLast, s
<1>l. \A k \in 1..Len(nals) : Len(seqs[k]) \in Nat /\ Len(seqs[k]) >= 1
  BY ONLY <1>6 DEF AreOfOneNal
<1>7. \A l \in 0..Len(nals) : \A k \in 0..l : e[k] <= e[l]
  <2>1. \A k \in 1..Len(seqs) : Len(seqs[k]) \in Nat
    BY ONLY <1>1, <1>l
  <2>2. \A l \in 0..Len(seqs) : \A k \in 0..l : e[k] <= e[l]
    BY ONLY <1>1, <1>4, <2>1, BlocksGrow
  <2> QED
    BY ONLY <1>1, <2>2
<1>8. ASSUME NEW i \in 1..Len(packets)
      PROVE  /\ Len(packets[i].payload) \in 1..MaxPayload
             /\ packets[i].marker <=> i = Len(packets)
             /\ IsFragment(packets[i]) =>
                  /\ ~(Starts(packets[i]) /\ Ends(packets[i]))
                  /\ ~Ends(packets[i]) =>
                       /\ i < Len(packets) /\ IsFragment(packets[i + 1])
                       /\ ~Starts(packets[i + 1])
                  /\ ~Starts(packets[i]) =>
                       /\ i > 1 /\ IsFragment(packets[i - 1])
                       /\ ~Ends(packets[i - 1])
  <2>1. PICK k \in 1..Len(nals) : \E j \in 1..Len(seqs[k]) : i = e[k - 1] + j
    <3>1. \A k \in 1..Len(seqs) : Len(seqs[k]) \in Nat
      BY ONLY <1>1, <1>l
    <3>2. i \in 1..Len(packets) /\ Len(seqs) \in Nat
      BY ONLY <1>1, <1>8
    <3>3. \E k \in 1..Len(seqs) : \E j \in 1..Len(seqs[k]) : i = e[k - 1] + j
      BY ONLY <1>4, <3>1, <3>2, PlaceIsInABlock, SMTT(60)
    <3> QED
      BY ONLY <1>1, <3>3
  <2> DEFINE s == seqs[k]
             n == e[k - 1]
  <2>2. PICK j \in 1..Len(s) : i = n + j
    BY ONLY <2>1
  <2>3. AreOfOneNal(s, k = Len(nals)) /\ Len(s) \in Nat /\ Len(s) >= 1
    BY ONLY <1>6, <1>l, k \in 1..Len(nals)
  <2>4. /\ n \in Nat /\ e[k] = n + Len(s) /\ e[k] <= Len(packets)
        /\ \A a \in 1..Len(s) : packets[n + a] = s[a]
    <3>1. k \in 0..Len(nals) /\ k - 1 \in 0..Len(nals) /\ Len(nals) \in 0..Len(nals)
          /\ k \in 0..Len(nals)
      BY ONLY <1>1, k \in 1..Len(nals)
    <3> QED
      BY ONLY <1>5, <1>7, <3>1, k \in 1..Len(nals)
  <2>5. k # Len(nals) => i < Len(packets)
    <3> SUFFICES ASSUME k # Len(nals) PROVE i < Len(packets)
      OBVIOUS
    <3> DEFINE l == Len(nals)
    <3>1. l \in 1..Len(nals) /\ k \in 0..(l - 1) /\ l - 1 \in 0..Len(nals)
          /\ k \in 0..Len(nals)
      BY ONLY <1>1, k \in 1..Len(nals), k # Len(nals)
    <3>2. e[k] <= e[l - 1] /\ e[l] = e[l - 1] + Len(seqs[l]) /\ Len(seqs[l]) >= 1
          /\ Len(seqs[l]) \in Nat /\ e[l - 1] \in Nat /\ e[k] \in Nat
      <4> HIDE DEF l
      <4> QED
        BY ONLY <1>5, <1>l, <1>7, <3>1
    <3>3. Len(packets) = e[l]
      BY ONLY <1>5
    <3> HIDE DEF l, n, s
    <3> QED
      BY ONLY <2>2, <2>3, <2>4, <3>2, <3>3
  <2>6. k = Len(nals) => Len(packets) = n + Len(s)
    BY ONLY <1>5, <2>4
  <2> HIDE DEF s, n
  <2>7. packets[i] = s[j]
    BY ONLY <2>2, <2>4
  <2>8. i = Len(packets) <=> k = Len(nals) /\ j = Len(s)
    <3>1. i \in Nat /\ n + Len(s) \in Nat /\ i <= n + Len(s)
          /\ (i = n + Len(s) <=> j = Len(s))
      <4> DEFINE l == Len(s)
      <4>1. j \in 1..l /\ l \in Nat /\ n \in Nat /\ i = n + j
        BY ONLY <2>2, <2>3, <2>4
      <4> HIDE DEF l
      <4>2. i \in Nat /\ n + l \in Nat /\ i <= n + l /\ (i = n + l <=> j = l)
        BY ONLY <4>1
      <4> QED
        BY ONLY <4>2 DEF l
    <3>2. i = Len(packets) => k = Len(nals) /\ j = Len(s)
      BY ONLY <1>3, <2>5, <2>6, <3>1
    <3>3. k = Len(nals) /\ j = Len(s) => i = Len(packets)
      BY ONLY <1>3, <2>5, <2>6, <3>1
    <3> QED
      BY ONLY <3>2, <3>3
  <2>9. j # Len(s) => i < Len(packets) /\ packets[i + 1] = s[j + 1]
                      /\ j + 1 \in 1..Len(s) /\ j + 1 # 1
    <3> SUFFICES ASSUME j # Len(s)
                 PROVE  i < Len(packets) /\ packets[i + 1] = s[j + 1]
                        /\ j + 1 \in 1..Len(s) /\ j + 1 # 1
      OBVIOUS
    <3>1. j + 1 \in 1..Len(s) /\ i + 1 = n + (j + 1) /\ j + 1 # 1
      BY ONLY <2>2, <2>3, <2>4, j # Len(s)
    <3>2. i < Len(packets)
      BY ONLY <1>3, <2>2, <2>3, <2>4, j # Len(s)
    <3> QED
      BY ONLY <2>4, <3>1, <3>2
  <2>10. j # 1 => i > 1 /\ packets[i - 1] = s[j - 1]
                  /\ j - 1 \in 1..Len(s) /\ j - 1 # Len(s)
    <3> SUFFICES ASSUME j # 1
                 PROVE  i > 1 /\ packets[i - 1] = s[j - 1]
                        /\ j - 1 \in 1..Len(s) /\ j - 1 # Len(s)
      OBVIOUS
    <3>1. j - 1 \in 1..Len(s) /\ i - 1 = n + (j - 1) /\ j - 1 # Len(s) /\ i > 1
      BY ONLY <2>2, <2>3, <2>4, j # 1
    <3> QED
      BY ONLY <2>4, <3>1
  <2>11. /\ Len(s[j].payload) \in 1..MaxPayload
         /\ s[j].marker <=> k = Len(nals) /\ j = Len(s)
         /\ IsFragment(s[j]) => Len(s) > 1
         /\ IsFragment(s[j]) => \A a \in 1..Len(s) :
              /\ IsFragment(s[a])
              /\ Starts(s[a]) <=> a = 1
              /\ Ends(s[a]) <=> a = Len(s)
    BY ONLY <2>2, <2>3 DEF AreOfOneNal
  <2>12. /\ Len(packets[i].payload) \in 1..MaxPayload
         /\ packets[i].marker <=> i = Len(packets)
    BY ONLY <2>7, <2>8, <2>11
  <2>13. ASSUME IsFragment(packets[i])
         PROVE  /\ ~(Starts(packets[i]) /\ Ends(packets[i]))
                /\ ~Ends(packets[i]) => /\ i < Len(packets)
                                        /\ IsFragment(packets[i + 1])
                                        /\ ~Starts(packets[i + 1])
                /\ ~Starts(packets[i]) => /\ i > 1 /\ IsFragment(packets[i - 1])
                                          /\ ~Ends(packets[i - 1])
    <3>1. /\ Len(s) > 1
          /\ Starts(s[j]) <=> j = 1
          /\ Ends(s[j]) <=> j = Len(s)
          /\ \A a \in 1..Len(s) :
               /\ IsFragment(s[a])
               /\ Starts(s[a]) <=> a = 1
               /\ Ends(s[a]) <=> a = Len(s)
      BY ONLY <2>2, <2>7, <2>11, <2>13
    <3>2. ~(Starts(packets[i]) /\ Ends(packets[i]))
      BY ONLY <2>3, <2>7, <3>1
    <3> QED
      BY ONLY <2>7, <2>9, <2>10, <3>1, <3>2
  <2> QED
    BY ONLY <2>12, <2>13
<1> QED
  BY ONLY <1>3, <1>8 DEF AreWellFormed, packets
(***************************************************************************)
(* Start codes.                                                            *)
(***************************************************************************)
IsShortCode(data, at) ==
  at + 2 <= Len(data) /\ data[at] = 0 /\ data[at + 1] = 0 /\ data[at + 2] = 1
IsLongCode(data, at) ==
  /\ at + 3 <= Len(data) /\ data[at] = 0 /\ data[at + 1] = 0
  /\ data[at + 2] = 0 /\ data[at + 3] = 1

LEMMA CodeIsBytes ==
  ASSUME NEW data \in Seq(Bytes), NEW at \in Nat, at > 0
  PROVE  StartCodeLength(data, at) =
           IF IsShortCode(data, at) THEN 3
           ELSE IF IsLongCode(data, at) THEN 4 ELSE 0
<1>1. Len(data) \in Nat /\ \A i \in 1..Len(data) : data[i] \in Bytes
  BY LenProperties, ElementOfSeq
<1>2. ASSUME NEW n \in {2, 3}, at + n <= Len(data), NEW s, s = SubSeq(data, at, at + n)
      PROVE  /\ s \in Seq(Bytes) /\ Len(s) = n + 1
             /\ s[1] = data[at] /\ s[2] = data[at + 1] /\ s[3] = data[at + 2]
             /\ n = 3 => s[4] = data[at + 3]
  <2>1. \A i \in at..(at + n) : data[i] \in Bytes
    <3> TAKE i \in at..(at + n)
    <3>1. i \in 1..Len(data)
      BY <1>1, <1>2
    <3> QED
      BY ONLY <1>1, <3>1
  <2>2. at \in Int /\ at + n \in Int /\ at <= at + n /\ (at + n) - at + 1 = n + 1
    BY ONLY <1>2, at \in Nat
  <2>3. /\ s \in Seq(Bytes)
        /\ Len(s) = IF at <= at + n THEN (at + n) - at + 1 ELSE 0
        /\ \A i \in 1..((at + n) - at + 1) : s[i] = data[at + i - 1]
    BY ONLY <1>2, <2>1, <2>2, SubSeqProperties
  <2>4. s \in Seq(Bytes) /\ Len(s) = n + 1
        /\ \A i \in 1..(n + 1) : s[i] = data[at + i - 1]
    BY ONLY <2>2, <2>3
  <2>5. /\ 1 \in 1..(n + 1) /\ 2 \in 1..(n + 1) /\ 3 \in 1..(n + 1)
        /\ n = 3 => 4 \in 1..(n + 1)
        /\ at + 1 - 1 = at /\ at + 2 - 1 = at + 1
        /\ at + 3 - 1 = at + 2 /\ at + 4 - 1 = at + 3
    BY ONLY n \in {2, 3}, at \in Nat
  <2>6. /\ s[1] = data[at + 1 - 1] /\ s[2] = data[at + 2 - 1]
        /\ s[3] = data[at + 3 - 1]
        /\ n = 3 => s[4] = data[at + 4 - 1]
    BY ONLY <2>4, <2>5
  <2> QED
    BY ONLY <2>4, <2>5, <2>6
<1>3. at + 2 <= Len(data) /\ SubSeq(data, at, at + 2) = <<0, 0, 1>>
        <=> IsShortCode(data, at)
  <2>1. CASE at + 2 <= Len(data)
    <3> DEFINE s == SubSeq(data, at, at + 2)
    <3>1. /\ s \in Seq(Bytes) /\ Len(s) = 3
          /\ s[1] = data[at] /\ s[2] = data[at + 1] /\ s[3] = data[at + 2]
      <4> DEFINE n == 2
      <4>1. n \in {2, 3} /\ at + n <= Len(data) /\ s = SubSeq(data, at, at + n)
        BY ONLY <2>1
      <4>2. n = 2
        OBVIOUS
      <4> HIDE DEF n, s
      <4>3. /\ s \in Seq(Bytes) /\ Len(s) = n + 1
            /\ s[1] = data[at] /\ s[2] = data[at + 1] /\ s[3] = data[at + 2]
            /\ n = 3 => s[4] = data[at + 3]
        BY ONLY <1>2, <4>1
      <4> QED
        BY ONLY <4>2, <4>3
    <3> HIDE DEF s
    <3>2. s = <<0, 0, 1>> <=> s[1] = 0 /\ s[2] = 0 /\ s[3] = 1
      <4> DEFINE t == <<0, 0, 1>>
      <4>1. t \in Seq(Bytes) /\ Len(t) = 3 /\ t[1] = 0 /\ t[2] = 0 /\ t[3] = 1
        BY DEF Bytes
      <4> HIDE DEF t
      <4>2. \A i \in 1..3 : i = 1 \/ i = 2 \/ i = 3
        OBVIOUS
      <4>3. (\A i \in 1..Len(s) : s[i] = t[i]) => s = t
        BY ONLY <3>1, <4>1, SeqEqual
      <4>4. s = t <=> s[1] = 0 /\ s[2] = 0 /\ s[3] = 1
        BY ONLY <3>1, <4>1, <4>2, <4>3
      <4> QED
        BY ONLY <4>4 DEF t
    <3> QED
      BY ONLY <2>1, <3>1, <3>2 DEF IsShortCode, s
  <2>2. CASE ~(at + 2 <= Len(data))
    BY ONLY <2>2 DEF IsShortCode
  <2> QED
    BY ONLY <2>1, <2>2
<1>4. at + 3 <= Len(data) /\ SubSeq(data, at, at + 3) = <<0, 0, 0, 1>>
        <=> IsLongCode(data, at)
  <2>1. CASE at + 3 <= Len(data)
    <3> DEFINE s == SubSeq(data, at, at + 3)
    <3>1. /\ s \in Seq(Bytes) /\ Len(s) = 4
          /\ s[1] = data[at] /\ s[2] = data[at + 1] /\ s[3] = data[at + 2]
          /\ s[4] = data[at + 3]
      <4> DEFINE n == 3
      <4>1. n \in {2, 3} /\ at + n <= Len(data) /\ s = SubSeq(data, at, at + n)
        BY ONLY <2>1
      <4>2. n = 3
        OBVIOUS
      <4> HIDE DEF n, s
      <4>3. /\ s \in Seq(Bytes) /\ Len(s) = n + 1
            /\ s[1] = data[at] /\ s[2] = data[at + 1] /\ s[3] = data[at + 2]
            /\ n = 3 => s[4] = data[at + 3]
        BY ONLY <1>2, <4>1
      <4> QED
        BY ONLY <4>2, <4>3
    <3> HIDE DEF s
    <3>2. s = <<0, 0, 0, 1>> <=> s[1] = 0 /\ s[2] = 0 /\ s[3] = 0 /\ s[4] = 1
      <4> DEFINE t == <<0, 0, 0, 1>>
      <4>1. t \in Seq(Bytes) /\ Len(t) = 4 /\ t[1] = 0 /\ t[2] = 0 /\ t[3] = 0 /\ t[4] = 1
        BY DEF Bytes
      <4> HIDE DEF t
      <4>2. \A i \in 1..4 : i = 1 \/ i = 2 \/ i = 3 \/ i = 4
        OBVIOUS
      <4>3. (\A i \in 1..Len(s) : s[i] = t[i]) => s = t
        BY ONLY <3>1, <4>1, SeqEqual
      <4>4. s = t <=> s[1] = 0 /\ s[2] = 0 /\ s[3] = 0 /\ s[4] = 1
        BY ONLY <3>1, <4>1, <4>2, <4>3
      <4> QED
        BY ONLY <4>4 DEF t
    <3> QED
      BY ONLY <2>1, <3>1, <3>2 DEF IsLongCode, s
  <2>2. CASE ~(at + 3 <= Len(data))
    BY ONLY <2>2 DEF IsLongCode
  <2> QED
    BY ONLY <2>1, <2>2
<1> QED
  BY ONLY <1>3, <1>4 DEF StartCodeLength

\* A start code of the encoder is one for the splitter, of its length.
LEMMA CodeIsFound ==
  ASSUME NEW data \in Seq(Bytes), NEW code \in StartCodes, NEW o \in Nat,
         \A j \in 1..Len(code) : o + j <= Len(data) /\ data[o + j] = code[j]
  PROVE  StartCodeLength(data, o + 1) = Len(code) /\ Len(code) \in {3, 4}
<1>1. Len(data) \in Nat
  BY LenProperties
<1>2. /\ o + 1 \in Nat /\ o + 1 > 0
      /\ (o + 1) + 1 = o + 2 /\ (o + 1) + 2 = o + 3 /\ (o + 1) + 3 = o + 4
  OBVIOUS
<1>3. StartCodeLength(data, o + 1) =
        IF IsShortCode(data, o + 1) THEN 3
        ELSE IF IsLongCode(data, o + 1) THEN 4 ELSE 0
  BY ONLY <1>2, data \in Seq(Bytes), CodeIsBytes
<1>4. CASE code = <<0, 0, 1>>
  <2>1. Len(code) = 3 /\ code[1] = 0 /\ code[2] = 0 /\ code[3] = 1
    BY ONLY <1>4
  <2>2. 1 \in 1..3 /\ 2 \in 1..3 /\ 3 \in 1..3
    OBVIOUS
  <2>3. IsShortCode(data, o + 1)
    BY <1>2, <2>1, <2>2 DEF IsShortCode
  <2> QED
    BY ONLY <1>3, <2>1, <2>3
<1>5. CASE code = <<0, 0, 0, 1>>
  <2>1. Len(code) = 4 /\ code[1] = 0 /\ code[2] = 0 /\ code[3] = 0 /\ code[4] = 1
    BY ONLY <1>5
  <2>2. 1 \in 1..4 /\ 2 \in 1..4 /\ 3 \in 1..4 /\ 4 \in 1..4
    OBVIOUS
  <2>3. /\ data[o + 1] = 0 /\ data[o + 2] = 0 /\ data[o + 3] = 0
        /\ data[o + 4] = 1 /\ o + 4 <= Len(data)
    BY <2>1, <2>2
  <2>4. IsLongCode(data, o + 1) /\ ~IsShortCode(data, o + 1)
    BY ONLY <1>2, <2>3 DEF IsShortCode, IsLongCode
  <2> QED
    BY ONLY <1>3, <2>1, <2>4
<1> QED
  BY ONLY <1>4, <1>5, code \in StartCodes DEF StartCodes

\* The splitter finds none in a NAL unit, nor one that begins in it and goes on
\* behind it, whatever follows.
LEMMA NoCodeInNal ==
  ASSUME NEW nal, IsNal(nal), NEW data \in Seq(Bytes), NEW o \in Nat,
         \A j \in 1..Len(nal) : o + j <= Len(data) /\ data[o + j] = nal[j],
         NEW i \in 1..Len(nal)
  PROVE  StartCodeLength(data, o + i) = 0
<1> DEFINE m == Len(nal)
<1>1. nal \in Seq(Bytes) /\ m \in Nat /\ nal[m] # 0 /\ StartCodeLength(nal, i) = 0
  BY LenProperties DEF IsNal
<1>2. i \in Nat /\ i > 0 /\ i <= m /\ o + i \in Nat /\ o + i > 0
  BY <1>1
<1>3. StartCodeLength(nal, i) = IF IsShortCode(nal, i) THEN 3
                                ELSE IF IsLongCode(nal, i) THEN 4 ELSE 0
  BY ONLY <1>1, <1>2, CodeIsBytes
<1>4. StartCodeLength(data, o + i) =
        IF IsShortCode(data, o + i) THEN 3
        ELSE IF IsLongCode(data, o + i) THEN 4 ELSE 0
  BY ONLY <1>2, data \in Seq(Bytes), CodeIsBytes
<1>5. ~IsShortCode(nal, i) /\ ~IsLongCode(nal, i)
  BY ONLY <1>1, <1>3
<1>6. \A j \in 0..(m - i) : data[(o + i) + j] = nal[i + j]
  <2> TAKE j \in 0..(m - i)
  <2>1. i + j \in 1..m /\ o + (i + j) = (o + i) + j
    BY ONLY <1>1, <1>2, o \in Nat, j \in 0..(m - i)
  <2>2. data[o + (i + j)] = nal[i + j]
    BY <2>1
  <2> QED
    BY ONLY <2>1, <2>2
<1> HIDE DEF m
\* The last byte is the one at m - i.
<1>7. data[(o + i) + (m - i)] # 0
  <2>1. m - i \in 0..(m - i) /\ i + (m - i) = m
    BY ONLY <1>1, <1>2
  <2>2. data[(o + i) + (m - i)] = nal[i + (m - i)]
    BY ONLY <1>6, <2>1
  <2> QED
    BY ONLY <1>1, <2>1, <2>2
<1>8. (o + i) + 0 = o + i /\ i + 0 = i
  BY ONLY <1>2
<1>9. ~IsShortCode(data, o + i)
  <2>1. CASE m - i >= 2
    <3>1. 0 \in 0..(m - i) /\ 1 \in 0..(m - i) /\ 2 \in 0..(m - i) /\ i + 2 <= m
      BY ONLY <1>1, <1>2, <2>1
    <3>2. /\ data[(o + i) + 0] = nal[i + 0] /\ data[(o + i) + 1] = nal[i + 1]
          /\ data[(o + i) + 2] = nal[i + 2]
      BY ONLY <1>6, <3>1
    <3> QED
      BY ONLY <1>5, <1>8, <3>1, <3>2 DEF IsShortCode, m
  <2>2. CASE m - i < 2
    <3>1. m - i = 0 \/ m - i = 1
      BY ONLY <1>1, <1>2, <2>2
    <3> QED
      BY ONLY <1>7, <1>8, <3>1 DEF IsShortCode
  <2> QED
    BY ONLY <1>1, <1>2, <2>1, <2>2
<1>10. ~IsLongCode(data, o + i)
  <2>1. CASE m - i >= 3
    <3>1. 0 \in 0..(m - i) /\ 1 \in 0..(m - i) /\ 2 \in 0..(m - i)
          /\ 3 \in 0..(m - i) /\ i + 3 <= m
      BY ONLY <1>1, <1>2, <2>1
    <3>2. /\ data[(o + i) + 0] = nal[i + 0] /\ data[(o + i) + 1] = nal[i + 1]
          /\ data[(o + i) + 2] = nal[i + 2] /\ data[(o + i) + 3] = nal[i + 3]
      BY ONLY <1>6, <3>1
    <3> QED
      BY ONLY <1>5, <1>8, <3>1, <3>2 DEF IsLongCode, m
  <2>2. CASE m - i < 3
    <3>1. m - i = 0 \/ m - i = 1 \/ m - i = 2
      BY ONLY <1>1, <1>2, <2>2
    <3> QED
      BY ONLY <1>7, <1>8, <3>1 DEF IsLongCode
  <2> QED
    BY ONLY <1>1, <1>2, <2>1, <2>2
<1> QED
  BY ONLY <1>4, <1>9, <1>10
(***************************************************************************)
(* The splitter.                                                           *)
(***************************************************************************)
LEMMA NextIsFirst ==
  ASSUME NEW data, Len(data) \in Nat, NEW from \in Nat, from > 0,
         NEW n, n = NextStartCode(data, from)
  PROVE  /\ n \in Nat /\ n <= Len(data) + 1
         /\ n <= Len(data) => n >= from /\ StartCodeLength(data, n) > 0
         /\ \A at \in from..Len(data) : StartCodeLength(data, at) > 0 => n <= at
<1> DEFINE codes == {at \in from..Len(data) : StartCodeLength(data, at) > 0}
<1>1. codes \subseteq Nat
  OBVIOUS
<1>2. n = IF codes = {} THEN Len(data) + 1
          ELSE CHOOSE at \in codes : \A other \in codes : at <= other
  BY DEF NextStartCode
<1>3. CASE codes = {}
  <2>1. n = Len(data) + 1
    BY ONLY <1>2, <1>3
  <2>2. \A at \in from..Len(data) : ~(StartCodeLength(data, at) > 0)
    BY <1>3
  <2> QED
    BY <2>1, <2>2
<1>4. CASE codes # {}
  <2>1. \E at \in codes : \A other \in codes : at <= other
    <3> HIDE DEF codes
    <3> QED
      BY ONLY <1>1, <1>4, LeastElement
  <2>2. n \in codes /\ \A other \in codes : n <= other
    <3> HIDE DEF codes
    <3> QED
      BY ONLY <1>2, <1>4, <2>1
  <2>3. n \in from..Len(data) /\ StartCodeLength(data, n) > 0
    BY <2>2
  <2>4. \A at \in from..Len(data) : StartCodeLength(data, at) > 0 => n <= at
    BY <2>2
  <2> QED
    BY <2>3, <2>4
<1> QED
  BY ONLY <1>3, <1>4

\* A recursion that always goes on to a later place has a solution.
Onward(N, head, next, f) ==
  f = [x \in 1..N |-> IF x = N THEN <<>> ELSE head[x] \o f[next[x]]]

LEMMA OnwardExists ==
  ASSUME NEW N \in Nat, N > 0, NEW head, NEW next,
         \A x \in 1..(N - 1) : next[x] \in (x + 1)..N
  PROVE  \E f : Onward(N, head, next, f)
<1> DEFINE Solves(m, f) == f = [x \in (N - m)..N |->
                                  IF x = N THEN <<>> ELSE head[x] \o f[next[x]]]
           S == {m \in Nat : m + 1 <= N => \E f : Solves(m, f)}
<1>1. 0 \in S
  <2>1. Solves(0, [x \in (N - 0)..N |-> <<>>])
    OBVIOUS
  <2> HIDE DEF Solves
  <2> QED
    BY <2>1
<1>2. ASSUME NEW m \in Nat, m \in S PROVE m + 1 \in S
  <2> SUFFICES ASSUME (m + 1) + 1 <= N PROVE \E f : Solves(m + 1, f)
    <3> HIDE DEF Solves
    <3> QED
      OBVIOUS
  <2>0. m + 1 <= N
    OBVIOUS
  <2>1. PICK f : Solves(m, f)
    BY <1>2, <2>0
  <2>2. \A x \in (N - m)..N : f[x] = IF x = N THEN <<>> ELSE head[x] \o f[next[x]]
    BY ONLY <2>1
  <2> DEFINE y == N - (m + 1)
             g == [x \in y..N |-> IF x = y THEN head[x] \o f[next[x]] ELSE f[x]]
  <2>y. y \in Nat /\ y > 0 /\ y < N /\ N - m = y + 1
    OBVIOUS
  <2>n. ASSUME NEW x \in y..N, x # N
        PROVE  next[x] \in y..N /\ next[x] # y /\ next[x] \in (N - m)..N
    <3>1. x \in 1..(N - 1)
      BY ONLY <2>n, <2>y, N \in Nat
    <3>2. next[x] \in (x + 1)..N
      BY <3>1
    <3> HIDE DEF y
    <3> QED
      BY ONLY <2>n, <2>y, <3>2, N \in Nat
  <2>3. ASSUME NEW x \in y..N
        PROVE  g[x] = IF x = N THEN <<>> ELSE head[x] \o g[next[x]]
    <3>0. \A z \in y..N : g[z] = IF z = y THEN head[z] \o f[next[z]] ELSE f[z]
      OBVIOUS
    <3> HIDE DEF g, y
    <3>1. x # N => g[next[x]] = f[next[x]]
      BY ONLY <2>n, <2>3, <3>0
    <3>2. CASE x = y
      BY ONLY <2>y, <3>0, <3>1, <3>2, <2>3
    <3>3. CASE x # y
      <4>1. x \in (N - m)..N
        BY ONLY <2>3, <2>y, <3>3, N \in Nat, m \in Nat
      <4> QED
        BY ONLY <2>2, <2>3, <3>0, <3>1, <3>3, <4>1
    <3> QED
      BY ONLY <3>2, <3>3
  <2>4. Solves(m + 1, g)
    <3>1. g = [x \in y..N |-> g[x]]
      OBVIOUS
    <3> HIDE DEF g
    <3> QED
      BY ONLY <2>3, <3>1
  <2> HIDE DEF Solves, g
  <2> QED
    BY ONLY <2>4
<1>3. N - 1 \in S
  <2>1. Nat \subseteq S
    <3> HIDE DEF S
    <3> QED
      BY ONLY <1>1, <1>2, Induction
  <2> HIDE DEF S
  <2> QED
    BY <2>1
<1>4. PICK f : Solves(N - 1, f)
  <2> HIDE DEF Solves
  <2> QED
    BY <1>3
<1>5. N - (N - 1) = 1
  OBVIOUS
<1>6. f = [x \in 1..N |-> IF x = N THEN <<>> ELSE head[x] \o f[next[x]]]
  BY ONLY <1>4, <1>5
<1> QED
  BY ONLY <1>6 DEF Onward
\* What SplitAnnexB does at a start code: where the payload is, where the next
\* code, and what is between them.
PayloadAt(data, start) == start + StartCodeLength(data, start)
NextAfter(data, start) == NextStartCode(data, PayloadAt(data, start))
Between(data, start) ==
  IF NextAfter(data, start) > PayloadAt(data, start)
    THEN <<SubSeq(data, PayloadAt(data, start), NextAfter(data, start) - 1)>>
    ELSE <<>>

LEMMA SplitterGoesOn ==
  ASSUME NEW data \in Seq(Bytes), NEW start \in 1..Len(data)
  PROVE  NextAfter(data, start) \in (start + 1)..(Len(data) + 1)
<1> DEFINE l == StartCodeLength(data, start)
           p == PayloadAt(data, start)
           n == NextAfter(data, start)
<1>1. Len(data) \in Nat /\ start \in Nat /\ start > 0 /\ start <= Len(data)
  BY LenProperties
<1>2. l \in {0, 3, 4}
  BY ONLY <1>1, data \in Seq(Bytes), CodeIsBytes
<1>3. p = start + l /\ n = NextStartCode(data, p)
  BY DEF PayloadAt, NextAfter
<1>4. p \in Nat /\ p > 0
  <2> HIDE DEF l, p
  <2> QED
    BY ONLY <1>1, <1>2, <1>3
<1>5. /\ n \in Nat /\ n <= Len(data) + 1
      /\ n <= Len(data) => n >= p /\ StartCodeLength(data, n) > 0
  <2> HIDE DEF p, n, l
  <2> QED
    BY ONLY <1>1, <1>3, <1>4, NextIsFirst
<1>6. n = start => l = StartCodeLength(data, n)
  BY ONLY TRUE DEF l
<1> HIDE DEF l, p, n
<1>7. n > start
  <2>1. CASE n <= Len(data)
    BY ONLY <1>1, <1>2, <1>3, <1>5, <1>6, <2>1
  <2>2. CASE ~(n <= Len(data))
    BY ONLY <1>1, <1>5, <2>2
  <2> QED
    BY ONLY <2>1, <2>2
<1>8. n \in (start + 1)..(Len(data) + 1)
  BY ONLY <1>1, <1>5, <1>7
<1> QED
  BY ONLY <1>8 DEF n

LEMMA SplitterRuns ==
  ASSUME NEW data \in Seq(Bytes)
  PROVE  \E f : /\ SplitAnnexB(data) = f[NextStartCode(data, 1)]
                /\ f[Len(data) + 1] = <<>>
                /\ \A start \in 1..Len(data) :
                     f[start] = Between(data, start) \o f[NextAfter(data, start)]
<1> DEFINE N == Len(data) + 1
           head == [x \in 1..Len(data) |-> Between(data, x)]
           next == [x \in 1..Len(data) |-> NextAfter(data, x)]
           Solves(f) == f = [start \in 1..N |->
                               IF start > Len(data) THEN <<>>
                               ELSE Between(data, start) \o f[NextAfter(data, start)]]
<1>1. Len(data) \in Nat /\ N \in Nat /\ N > 0 /\ N - 1 = Len(data)
      /\ N = Len(data) + 1
  BY LenProperties
<1>2. \A x \in 1..Len(data) : head[x] = Between(data, x) /\ next[x] = NextAfter(data, x)
  OBVIOUS
<1>3. \A x \in 1..Len(data) : NextAfter(data, x) \in (x + 1)..N
  BY SplitterGoesOn
<1>4. \E f : Solves(f)
  <2> HIDE DEF N, head, next
  <2>1. \A x \in 1..(N - 1) : next[x] \in (x + 1)..N
    BY ONLY <1>1, <1>2, <1>3
  <2>2. PICK f : Onward(N, head, next, f)
    BY ONLY <1>1, <2>1, OnwardExists
  <2>3. f = [x \in 1..N |-> IF x = N THEN <<>> ELSE head[x] \o f[next[x]]]
    BY ONLY <2>2 DEF Onward
  <2>4. ASSUME NEW x \in 1..N
        PROVE  (IF x = N THEN <<>> ELSE head[x] \o f[next[x]])
               = (IF x > Len(data) THEN <<>>
                  ELSE Between(data, x) \o f[NextAfter(data, x)])
    <3>1. (x > Len(data)) <=> x = N
      BY ONLY <1>1, <2>4
    <3>2. x # N => x \in 1..Len(data)
      BY ONLY <1>1, <2>4
    <3> QED
      BY ONLY <1>2, <3>1, <3>2
  <2>5. Solves(f)
    BY ONLY <2>3, <2>4
  <2> QED
    BY ONLY <2>5
<1> DEFINE f == CHOOSE g : Solves(g)
<1>5. SplitAnnexB(data) = f[NextStartCode(data, 1)]
  BY DEF SplitAnnexB, Between, NextAfter, PayloadAt
<1>6. Solves(f)
  <2> HIDE DEF Solves
  <2> QED
    BY ONLY <1>4
<1>7. \A start \in 1..N :
        f[start] = IF start > Len(data) THEN <<>>
                   ELSE Between(data, start) \o f[NextAfter(data, start)]
  <2> HIDE DEF f
  <2> QED
    BY ONLY <1>6
<1>8. f[N] = <<>>
  <2>1. N \in 1..N /\ N > Len(data)
    BY ONLY <1>1
  <2> HIDE DEF f, N
  <2> QED
    BY ONLY <1>7, <2>1
<1>9. \A x \in 1..Len(data) : x \in 1..N /\ ~(x > Len(data))
  BY ONLY <1>1
<1> HIDE DEF f
<1>10. \A start \in 1..Len(data) :
         f[start] = Between(data, start) \o f[NextAfter(data, start)]
  <2> HIDE DEF N
  <2> QED
    BY ONLY <1>7, <1>9
<1> QED
  BY ONLY <1>5, <1>8, <1>10
\* A start code and a NAL unit are in the data from place c on, to the end.
IsAt(data, code, nal, c, end) ==
  /\ code \in StartCodes /\ IsNal(nal)
  /\ c \in Nat /\ end \in Nat /\ end <= Len(data)
  /\ end = (c + Len(code)) + Len(nal)
  /\ \A j \in 1..Len(code) : c + j <= Len(data) /\ data[c + j] = code[j]
  /\ \A j \in 1..Len(nal) : /\ (c + Len(code)) + j <= Len(data)
                            /\ data[(c + Len(code)) + j] = nal[j]

LEMMA NalIsSplitOff ==
  ASSUME NEW data \in Seq(Bytes), NEW code, NEW nal, NEW c, NEW end,
         IsAt(data, code, nal, c, end),
         end < Len(data) => StartCodeLength(data, end + 1) > 0
  PROVE  /\ c + 1 \in 1..Len(data) /\ StartCodeLength(data, c + 1) > 0
         /\ NextAfter(data, c + 1) = end + 1
         /\ Between(data, c + 1) = <<nal>>
<1> DEFINE o == c + Len(code)
<1>1. /\ code \in StartCodes /\ IsNal(nal)
      /\ c \in Nat /\ end \in Nat /\ end <= Len(data) /\ end = o + Len(nal)
      /\ \A j \in 1..Len(code) : c + j <= Len(data) /\ data[c + j] = code[j]
      /\ \A j \in 1..Len(nal) : o + j <= Len(data) /\ data[o + j] = nal[j]
  BY DEF IsAt
<1>2. StartCodeLength(data, c + 1) = Len(code) /\ Len(code) \in {3, 4}
  BY ONLY <1>1, data \in Seq(Bytes), CodeIsFound
<1>3. nal \in Seq(Bytes) /\ Len(nal) \in Nat /\ Len(nal) > 0 /\ Len(data) \in Nat
  BY <1>1, LenProperties, EmptySeq DEF IsNal
<1>o. o \in Nat /\ o + 1 = (c + 1) + Len(code)
  <2>1. c \in Nat
    BY ONLY <1>1
  <2>2. Len(code) \in {3, 4}
    BY ONLY <1>2
  <2> QED
    BY ONLY <2>1, <2>2
<1> HIDE DEF o
<1>4. \A i \in 1..Len(nal) : StartCodeLength(data, o + i) = 0
  BY ONLY <1>1, <1>o, data \in Seq(Bytes), NoCodeInNal
<1>5. PayloadAt(data, c + 1) = o + 1
  BY ONLY <1>2, <1>o DEF PayloadAt
<1> DEFINE n == NextAfter(data, c + 1)
           p == o + 1
<1>6. n = NextStartCode(data, p) /\ p \in Nat /\ p > 0
  BY ONLY <1>5, <1>o DEF NextAfter
<1>7. /\ n \in Nat /\ n <= Len(data) + 1
      /\ n <= Len(data) => n >= p /\ StartCodeLength(data, n) > 0
      /\ \A at \in p..Len(data) : StartCodeLength(data, at) > 0 => n <= at
  <2> HIDE DEF n, p
  <2> QED
    BY ONLY <1>3, <1>6, NextIsFirst
<1> HIDE DEF n
<1>8. n <= Len(data) => ~(n <= end)
  <2> SUFFICES ASSUME n <= Len(data), n <= end PROVE FALSE
    OBVIOUS
  <2>1. n - o \in 1..Len(nal) /\ o + (n - o) = n
    BY ONLY <1>1, <1>3, <1>7, <1>o, n <= Len(data), n <= end
  <2>2. StartCodeLength(data, n) = 0
    BY ONLY <1>4, <2>1
  <2> QED
    BY ONLY <1>7, <2>2, n <= Len(data)
<1>9. n = end + 1
  <2>1. CASE end < Len(data)
    <3>1. end + 1 \in p..Len(data) /\ StartCodeLength(data, end + 1) > 0
      BY <1>1, <1>3, <1>o, <2>1
    <3>2. n <= end + 1
      BY ONLY <1>7, <3>1
    <3> QED
      BY ONLY <1>1, <1>3, <1>7, <1>8, <2>1, <3>2
  <2>2. CASE ~(end < Len(data))
    BY ONLY <1>1, <1>3, <1>7, <1>8, <2>2
  <2> QED
    BY ONLY <2>1, <2>2
<1>10. Between(data, c + 1) = <<SubSeq(data, p, end)>>
  <2>1. n > p /\ n - 1 = end
    BY ONLY <1>1, <1>3, <1>9, <1>o
  <2> HIDE DEF p
  <2>2. PayloadAt(data, c + 1) = p
    BY ONLY <1>5 DEF p
  <2> QED
    BY ONLY <2>1, <2>2 DEF Between, n
<1>11. SubSeq(data, p, end) = nal
  <2>1. \A i \in p..end : data[i] \in Bytes
    <3> TAKE i \in p..end
    <3>1. i \in 1..Len(data)
      BY ONLY <1>1, <1>3, <1>o, i \in p..end
    <3> QED
      BY ONLY <3>1, data \in Seq(Bytes), ElementOfSeq
  <2>2. p \in Int /\ end \in Int /\ p <= end /\ end - p + 1 = Len(nal)
    BY ONLY <1>1, <1>3, <1>o
  <2> DEFINE s == SubSeq(data, p, end)
  <2>3. /\ s \in Seq(Bytes) /\ Len(s) = IF p <= end THEN end - p + 1 ELSE 0
        /\ \A i \in 1..(end - p + 1) : s[i] = data[p + i - 1]
    <3> HIDE DEF p
    <3> QED
      BY ONLY <2>1, <2>2, SubSeqProperties
  <2> HIDE DEF s
  <2>4. s \in Seq(Bytes) /\ Len(s) = Len(nal)
        /\ \A i \in 1..Len(nal) : s[i] = data[p + i - 1]
    BY ONLY <2>2, <2>3
  <2>5. ASSUME NEW i \in 1..Len(nal) PROVE s[i] = nal[i]
    <3>1. p + i - 1 = o + i
      BY ONLY <1>o, <1>3, <2>5
    <3> QED
      BY ONLY <1>1, <2>4, <2>5, <3>1
  <2>6. s = nal
    BY ONLY <1>3, <2>4, <2>5, SeqEqual
  <2> QED
    BY ONLY <2>6 DEF s
<1>12. c + 1 \in 1..Len(data)
  BY ONLY <1>1, <1>2, <1>3, <1>o
<1>13. StartCodeLength(data, c + 1) > 0
  BY ONLY <1>2
<1>14. NextAfter(data, c + 1) = end + 1
  BY ONLY <1>9 DEF n
<1> QED
  BY ONLY <1>10, <1>11, <1>12, <1>13, <1>14
\* SplitAnnexB gives back the NAL units of NVENC's byte stream.
THEOREM AccessUnitIsSplit ==
  ASSUME NEW unit, IsAccessUnit(unit)
  PROVE  SplitAnnexB(AnnexB(unit)) = NalsOf(unit)
<1> DEFINE n == Len(unit)
           seqs == [i \in DOMAIN unit |-> unit[i].code \o unit[i].nal]
           data == AnnexB(unit)
           nals == NalsOf(unit)
<1>1. n \in Nat /\ DOMAIN unit = 1..n
      /\ \A k \in 1..n : /\ unit[k].code \in StartCodes /\ IsNal(unit[k].nal)
                         /\ unit[k].code \in Seq(Bytes) /\ unit[k].nal \in Seq(Bytes)
  <2>1. unit \in Seq([code : StartCodes, nal : Seq(Bytes)])
        /\ \A k \in DOMAIN unit : IsNal(unit[k].nal)
    BY DEF IsAccessUnit
  <2>2. n \in Nat /\ DOMAIN unit = 1..n
    BY ONLY <2>1, LenProperties
  <2>3. \A k \in 1..n : unit[k] \in [code : StartCodes, nal : Seq(Bytes)]
    BY ONLY <2>1, ElementOfSeq
  <2>4. StartCodes \subseteq Seq(Bytes)
    BY DEF StartCodes, Bytes
  <2> HIDE DEF n
  <2> QED
    BY ONLY <2>1, <2>2, <2>3, <2>4
<1>2. /\ \A k \in 1..n : seqs[k] = unit[k].code \o unit[k].nal
      /\ seqs = [k \in 1..n |-> seqs[k]]
      /\ nals = [k \in 1..n |-> unit[k].nal]
      /\ data = FlattenSeq(seqs)
  <2> HIDE DEF n
  <2> QED
    BY <1>1 DEF AnnexB, NalsOf
<1> HIDE DEF n, seqs, data, nals
<1>3. seqs \in Seq(Seq(Bytes)) /\ Len(seqs) = n
  <2>1. \A k \in 1..n : seqs[k] \in Seq(Bytes)
    BY ONLY <1>1, <1>2, ConcatProperties
  <2>2. seqs \in [1..n -> Seq(Bytes)]
    BY ONLY <1>2, <2>1
  <2> QED
    BY ONLY <1>1, <2>2
<1>4. data \in Seq(Bytes) /\ \E e : AreBlocks(seqs, data, e)
  BY ONLY <1>2, <1>3, Flattened
<1>5. PICK e : AreBlocks(seqs, data, e)
  BY ONLY <1>4
<1>6. /\ e \in [0..n -> Nat] /\ e[0] = 0 /\ Len(data) = e[n]
      /\ \A k \in 1..n :
           /\ e[k] = e[k - 1] + Len(seqs[k])
           /\ \A j \in 1..Len(seqs[k]) : data[e[k - 1] + j] = seqs[k][j]
  BY ONLY <1>3, <1>5 DEF AreBlocks
<1>7. \A k \in 0..n : e[k] \in Nat /\ e[k] <= Len(data)
  <2>1. \A k \in 1..Len(seqs) : Len(seqs[k]) \in Nat
    BY ONLY <1>3, ElementOfSeq, LenProperties
  <2>2. \A l \in 0..n : \A k \in 0..l : e[k] <= e[l]
    BY ONLY <1>1, <1>3, <1>5, <2>1, BlocksGrow
  <2>3. n \in 0..n
    BY ONLY <1>1
  <2> QED
    BY ONLY <1>6, <2>2, <2>3
<1>8. ASSUME NEW k \in 1..n
      PROVE  IsAt(data, unit[k].code, unit[k].nal, e[k - 1], e[k])
  <2> DEFINE c == unit[k].code
             m == unit[k].nal
             b == e[k - 1]
             z == e[k]
  <2>1. c \in StartCodes /\ IsNal(m) /\ c \in Seq(Bytes) /\ m \in Seq(Bytes)
    BY ONLY <1>1, <1>8
  <2>2. k - 1 \in 0..n /\ k \in 0..n
    BY ONLY <1>1, <1>8
  <2>3. b \in Nat /\ z \in Nat /\ z <= Len(data)
    BY ONLY <1>7, <2>2
  <2>4. z = b + Len(c \o m) /\ \A j \in 1..Len(c \o m) : data[b + j] = (c \o m)[j]
    BY ONLY <1>2, <1>6, <1>8
  <2> HIDE DEF c, m, b, z
  <2>5. /\ Len(c) \in Nat /\ Len(m) \in Nat /\ Len(c \o m) = Len(c) + Len(m)
        /\ \A j \in 1..Len(c) : (c \o m)[j] = c[j]
        /\ \A j \in 1..Len(m) : (c \o m)[Len(c) + j] = m[j]
    BY ONLY <2>1, ConcatAt
  <2>6. Len(data) \in Nat
    BY ONLY <1>4, LenProperties
  <2>7. z = (b + Len(c)) + Len(m)
    BY ONLY <2>3, <2>4, <2>5
  <2>8. ASSUME NEW j \in 1..Len(c) PROVE b + j <= Len(data) /\ data[b + j] = c[j]
    <3>1. j \in 1..Len(c \o m)
      BY ONLY <2>5, <2>8
    <3>2. b + j <= Len(data)
      BY ONLY <2>3, <2>5, <2>6, <2>7, <2>8
    <3> QED
      BY ONLY <2>4, <2>5, <2>8, <3>1, <3>2
  <2>9. ASSUME NEW j \in 1..Len(m)
        PROVE  /\ (b + Len(c)) + j <= Len(data)
               /\ data[(b + Len(c)) + j] = m[j]
    <3>1. Len(c) + j \in 1..Len(c \o m) /\ (b + Len(c)) + j = b + (Len(c) + j)
      BY ONLY <2>3, <2>5, <2>9
    <3>2. (b + Len(c)) + j <= Len(data)
      BY ONLY <2>3, <2>5, <2>6, <2>7, <2>9
    <3>3. data[b + (Len(c) + j)] = (c \o m)[Len(c) + j]
      BY ONLY <2>4, <3>1
    <3> QED
      BY ONLY <2>5, <2>9, <3>1, <3>2, <3>3
  <2>10. IsAt(data, c, m, b, z)
    BY ONLY <2>1, <2>3, <2>7, <2>8, <2>9 DEF IsAt
  <2> QED
    BY ONLY <2>10 DEF c, m, b, z
<1>9. ASSUME NEW k \in 1..n PROVE StartCodeLength(data, e[k - 1] + 1) > 0
  <2> DEFINE c == unit[k].code
             b == e[k - 1]
  <2>1. IsAt(data, c, unit[k].nal, b, e[k])
    BY ONLY <1>8, <1>9
  <2> HIDE DEF c, b
  <2>2. c \in StartCodes /\ b \in Nat
        /\ \A j \in 1..Len(c) : b + j <= Len(data) /\ data[b + j] = c[j]
    BY ONLY <2>1 DEF IsAt
  <2>3. StartCodeLength(data, b + 1) = Len(c) /\ Len(c) \in {3, 4}
    BY ONLY <1>4, <2>2, CodeIsFound
  <2>4. StartCodeLength(data, b + 1) > 0
    BY ONLY <2>3
  <2> QED
    BY ONLY <2>4 DEF b
<1>10. ASSUME NEW k \in 1..n
       PROVE  /\ e[k - 1] + 1 \in 1..Len(data)
              /\ NextAfter(data, e[k - 1] + 1) = e[k] + 1
              /\ Between(data, e[k - 1] + 1) = <<unit[k].nal>>
  <2> DEFINE c == unit[k].code
             m == unit[k].nal
             b == e[k - 1]
             z == e[k]
  <2>1. IsAt(data, c, m, b, z)
    BY ONLY <1>8, <1>10
  <2>2. z < Len(data) => StartCodeLength(data, z + 1) > 0
    <3>1. CASE k = n
      <4>1. z = Len(data) /\ Len(data) \in Nat
        BY ONLY <1>4, <1>6, <3>1, LenProperties
      <4> QED
        BY ONLY <4>1
    <3>2. CASE k # n
      <4>1. k + 1 \in 1..n /\ (k + 1) - 1 = k
        BY ONLY <1>1, <1>10, <3>2
      <4>2. StartCodeLength(data, e[(k + 1) - 1] + 1) > 0
        BY ONLY <1>9, <4>1
      <4> QED
        BY ONLY <4>1, <4>2
    <3> QED
      BY ONLY <3>1, <3>2
  <2> HIDE DEF c, m, b, z
  <2>3. /\ b + 1 \in 1..Len(data)
        /\ NextAfter(data, b + 1) = z + 1
        /\ Between(data, b + 1) = <<m>>
    BY ONLY <1>4, <2>1, <2>2, NalIsSplitOff
  <2> QED
    BY ONLY <2>3 DEF m, b, z
<1>11. PICK f : /\ SplitAnnexB(data) = f[NextStartCode(data, 1)]
                /\ f[Len(data) + 1] = <<>>
                /\ \A start \in 1..Len(data) :
                     f[start] = Between(data, start) \o f[NextAfter(data, start)]
  BY ONLY <1>4, SplitterRuns
\* The data begin with a start code, or there are none.
<1>12. NextStartCode(data, 1) = e[0] + 1
  <2> DEFINE x == NextStartCode(data, 1)
  <2>1. Len(data) \in Nat
    BY ONLY <1>4, LenProperties
  <2>2. /\ x \in Nat /\ x <= Len(data) + 1
        /\ x <= Len(data) => x >= 1 /\ StartCodeLength(data, x) > 0
        /\ \A at \in 1..Len(data) : StartCodeLength(data, at) > 0 => x <= at
    <3>1. 1 \in Nat /\ 1 > 0 /\ x = NextStartCode(data, 1)
      OBVIOUS
    <3> HIDE DEF x
    <3> QED
      BY ONLY <2>1, <3>1, NextIsFirst
  <2> HIDE DEF x
  <2>3. CASE n = 0
    <3>1. Len(data) = 0
      BY ONLY <1>6, <2>3
    <3> QED
      BY ONLY <1>6, <2>2, <3>1 DEF x
  <2>4. CASE n # 0
    <3>1. 1 \in 1..n /\ 1 - 1 = 0
      BY ONLY <1>1, <2>4
    <3>2. e[0] + 1 \in 1..Len(data) /\ StartCodeLength(data, e[0] + 1) > 0
      BY ONLY <1>9, <1>10, <3>1
    <3>3. x <= e[0] + 1 /\ e[0] + 1 = 1 /\ 1 <= Len(data)
      BY ONLY <1>6, <2>2, <3>2
    <3>4. x = 1
      BY ONLY <2>1, <2>2, <3>3
    <3> QED
      BY ONLY <3>3, <3>4 DEF x
  <2> QED
    BY ONLY <2>3, <2>4
<1>13. nals \in Seq(Seq(Bytes)) /\ Len(nals) = n /\ \A k \in 1..n : nals[k] = unit[k].nal
  <2>1. nals \in [1..n -> Seq(Bytes)]
    BY ONLY <1>1, <1>2
  <2> QED
    BY ONLY <1>1, <1>2, <2>1
<1> DEFINE After(k) == SubSeq(nals, k + 1, n)
           S == {m \in Nat : m <= n => f[e[n - m] + 1] = After(n - m)}
<1>14. 0 \in S
  <2>1. n - 0 = n /\ f[e[n] + 1] = <<>>
    BY ONLY <1>1, <1>6, <1>11
  <2>2. SubSeq(nals, n + 1, n) = <<>>
    <3>1. n + 1 \in Int /\ n \in Int /\ n < n + 1
      BY ONLY <1>1
    <3> QED
      BY ONLY <3>1, SubSeqEmpty
  <2> QED
    BY ONLY <2>1, <2>2
<1>15. ASSUME NEW m \in Nat, m \in S PROVE m + 1 \in S
  <2> SUFFICES ASSUME m + 1 <= n
               PROVE  f[e[n - (m + 1)] + 1] = After(n - (m + 1))
    <3> HIDE DEF After
    <3> QED
      OBVIOUS
  <2> DEFINE k == n - m
             start == e[k - 1] + 1
  <2>1. k \in 1..n /\ n - (m + 1) = k - 1 /\ m <= n
    BY ONLY <1>1, m \in Nat, m + 1 <= n
  <2>2. f[e[k] + 1] = After(k)
    <3> HIDE DEF After
    <3> QED
      BY ONLY <1>15, <2>1
  <2> HIDE DEF k
  <2>3. /\ start \in 1..Len(data) /\ NextAfter(data, start) = e[k] + 1
        /\ Between(data, start) = <<nals[k]>>
    BY ONLY <1>10, <1>13, <2>1
  <2> HIDE DEF start
  <2>4. f[start] = <<nals[k]>> \o After(k)
    <3> HIDE DEF After
    <3> QED
      BY ONLY <1>11, <2>2, <2>3
  <2>5. SubSeq(nals, k, n) = <<nals[k]>> \o SubSeq(nals, k + 1, n)
    <3>1. k \in 1..Len(nals) /\ n \in k..Len(nals)
      BY ONLY <1>1, <1>13, <2>1
    <3> QED
      BY ONLY <1>13, <3>1, SubSeqRecursiveFirst
  <2>6. (k - 1) + 1 = k
    BY ONLY <1>1, <2>1
  <2>7. f[e[k - 1] + 1] = After(k - 1)
    BY ONLY <2>4, <2>5, <2>6 DEF start
  <2> QED
    BY ONLY <2>1, <2>7
<1>16. f[e[0] + 1] = nals
  <2>1. Nat \subseteq S
    <3> HIDE DEF S
    <3> QED
      BY ONLY <1>14, <1>15, Induction
  <2>2. n - n = 0
    BY ONLY <1>1
  <2>3. f[e[0] + 1] = After(0)
    <3> HIDE DEF After
    <3>1. n \in S
      BY ONLY <1>1, <2>1
    <3>2. n <= n
      BY ONLY <1>1
    <3>3. f[e[n - n] + 1] = After(n - n)
      BY ONLY <3>1, <3>2
    <3> QED
      BY ONLY <2>2, <3>3
  <2>4. After(0) = nals
    <3>1. 0 + 1 = 1
      OBVIOUS
    <3> QED
      BY ONLY <1>13, <3>1, SubSeqFull
  <2> QED
    BY ONLY <2>3, <2>4
<1> QED
  BY ONLY <1>11, <1>12, <1>16 DEF data, nals
\* From NVENC's output to the receiver: the packets of an access unit give its
\* NAL units back, and they are those of RFC 6184.
THEOREM AccessUnitIsCarried ==
  ASSUME NEW unit, IsAccessUnit(unit)
  PROVE  LET packets == Packetize(SplitAnnexB(AnnexB(unit)))
         IN  Depacketize(packets) = NalsOf(unit) /\ AreWellFormed(packets)
<1> DEFINE nals == NalsOf(unit)
<1>1. SplitAnnexB(AnnexB(unit)) = nals
  BY AccessUnitIsSplit
<1>2. nals \in Seq(Seq(Bytes)) /\ \A i \in DOMAIN nals : IsNal(nals[i])
  <2>1. unit \in Seq([code : StartCodes, nal : Seq(Bytes)])
        /\ \A i \in DOMAIN unit : IsNal(unit[i].nal)
    BY DEF IsAccessUnit
  <2>2. Len(unit) \in Nat /\ DOMAIN unit = 1..Len(unit)
    BY ONLY <2>1, LenProperties
  <2>3. \A i \in 1..Len(unit) : unit[i].nal \in Seq(Bytes)
    <3>1. \A i \in 1..Len(unit) : unit[i] \in [code : StartCodes, nal : Seq(Bytes)]
      BY ONLY <2>1, ElementOfSeq
    <3> QED
      BY ONLY <3>1
  <2>4. nals = [i \in 1..Len(unit) |-> unit[i].nal]
    BY ONLY <2>2 DEF NalsOf
  <2> HIDE DEF nals
  <2>5. nals \in [1..Len(unit) -> Seq(Bytes)] /\ DOMAIN nals = 1..Len(unit)
    BY ONLY <2>3, <2>4
  <2>6. \A i \in DOMAIN nals : IsNal(nals[i])
    BY ONLY <2>1, <2>2, <2>4, <2>5
  <2>7. nals \in Seq(Seq(Bytes))
    <3> DEFINE m == Len(unit)
               A == Seq(Bytes)
    <3>1. m \in Nat /\ nals \in [1..m -> A]
      BY ONLY <2>2, <2>5
    <3> HIDE DEF m, A
    <3>2. nals \in Seq(A)
      BY ONLY <3>1
    <3> QED
      BY ONLY <3>2 DEF A
  <2> QED
    BY ONLY <2>6, <2>7
<1> HIDE DEF nals
<1>3. Depacketize(Packetize(nals)) = nals /\ AreWellFormed(Packetize(nals))
  BY ONLY <1>2, PacketsAreReceived, PacketsAreWellFormed
<1> QED
  BY ONLY <1>1, <1>3 DEF nals
=============================================================================
