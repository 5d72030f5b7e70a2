--------------------------- MODULE SequenceLemmas ---------------------------
(***************************************************************************)
(* What the proofs about the components need of sequences: which elements  *)
(* the operators keep, when one sequence is the end of another, and what   *)
(* FlattenSeq does.  The library's induction theorems take the formula to  *)
(* be proved as an operator, which no prover can instantiate; here it is a *)
(* set, those who satisfy it, and induction is the well-foundedness of <.  *)
(***************************************************************************)
EXTENDS SequencesExt, SequenceTheorems, WellFoundedInduction, TLAPS

\* A list of one element, and of none.
LEMMA OneElement == ASSUME NEW S, NEW x \in S PROVE <<x>> \in Seq(S)
OBVIOUS

LEMMA NoElement == ASSUME NEW S PROVE <<>> \in Seq(S)
OBVIOUS

\* A list of two.
LEMMA AppendToOne ==
    ASSUME NEW S, NEW x \in S, NEW y \in S
    PROVE  Append(<<x>>, y) = <<x, y>>
<1>1. /\ <<x, y>> \in Seq(S) /\ Len(<<x, y>>) = 2
      /\ Append(<<x>>, y) \in Seq(S) /\ Len(Append(<<x>>, y)) = 2
  BY OneElement, AppendProperties
<1>2. Append(<<x>>, y)[1] = x /\ Append(<<x>>, y)[2] = y
  BY OneElement, AppendProperties
<1>3. <<x, y>>[1] = x /\ <<x, y>>[2] = y
  OBVIOUS
<1>4. \A i \in 1..2 : i = 1 \/ i = 2
  OBVIOUS
<1>5. QED
  BY <1>1, <1>2, <1>3, <1>4, SeqEqual

\* A function on 1..n is a sequence of length n.
LEMMA FunctionIsSeq ==
    ASSUME NEW n \in Nat, NEW S, NEW f \in [1..n -> S]
    PROVE  f \in Seq(S) /\ Len(f) = n /\ DOMAIN f = 1..n
<1>1. f \in Seq(S)
  BY SeqDef
<1>2. QED
  BY <1>1, LenProperties

-----------------------------------------------------------------------------
(* The elements of a list that is worked off from its head, or appended to.  *)

LEMMA RangeOfEmpty == Range(<<>>) = {}
BY DEF Range

LEMMA HeadInRange ==
    ASSUME NEW S, NEW s \in Seq(S), s # <<>>
    PROVE  Head(s) \in S /\ Head(s) \in Range(s)
<1>1. 1 \in DOMAIN s /\ s[1] = Head(s)
  OBVIOUS
<1>2. QED
  BY <1>1 DEF Range

LEMMA RangeOfTail ==
    ASSUME NEW S, NEW s \in Seq(S), s # <<>>, NEW x \in Range(s), x # Head(s)
    PROVE  x \in Range(Tail(s))
<1>1. PICK i \in DOMAIN s : x = s[i]
  BY DEF Range
<1>2. i \in 1..Len(s) /\ i # 1
  BY <1>1
<1>3. i - 1 \in DOMAIN Tail(s) /\ Tail(s)[i - 1] = x
  BY <1>1, <1>2
<1>4. QED
  BY <1>3 DEF Range

LEMMA TailInRange ==
    ASSUME NEW S, NEW s \in Seq(S), s # <<>>, NEW x \in Range(Tail(s))
    PROVE  x \in Range(s)
<1>1. PICK i \in DOMAIN Tail(s) : x = Tail(s)[i]
  BY DEF Range
<1>2. i + 1 \in DOMAIN s /\ s[i + 1] = x
  BY <1>1
<1>3. QED
  BY <1>2 DEF Range

LEMMA RangeOfAppend ==
    ASSUME NEW S, NEW s \in Seq(S), NEW e \in S, NEW x \in Range(Append(s, e))
    PROVE  x = e \/ x \in Range(s)
<1>1. PICK i \in DOMAIN Append(s, e) : x = Append(s, e)[i]
  BY DEF Range
<1>2. i \in 1..(Len(s) + 1)
  BY <1>1
<1>3. CASE i = Len(s) + 1
  BY <1>1, <1>3
<1>4. CASE i # Len(s) + 1
  <2>1. i \in DOMAIN s /\ s[i] = x
    BY <1>1, <1>2, <1>4
  <2>2. QED
    BY <2>1 DEF Range
<1>5. QED
  BY <1>3, <1>4

LEMMA RangeInSet ==
    ASSUME NEW S, NEW s \in Seq(S), NEW x \in Range(s)
    PROVE  x \in S
BY DEF Range

-----------------------------------------------------------------------------
(* Prefixes and suffixes, by their elements.                                 *)

LEMMA FirstOfSeq ==
    ASSUME NEW S, NEW s \in Seq(S), NEW n \in Nat, n <= Len(s)
    PROVE  /\ SubSeq(s, 1, n) \in Seq(S)
           /\ Len(SubSeq(s, 1, n)) = n
           /\ \A i \in 1..n : SubSeq(s, 1, n)[i] = s[i]
<1>1. Len(s) \in Nat
  BY LenProperties
<1>2. \A i \in 1..n : s[i] \in S
  BY <1>1, ElementOfSeq
<1>3. /\ SubSeq(s, 1, n) \in Seq(S)
      /\ Len(SubSeq(s, 1, n)) = IF 1 <= n THEN n - 1 + 1 ELSE 0
      /\ \A i \in 1..(n - 1 + 1) : SubSeq(s, 1, n)[i] = s[1 + i - 1]
  BY <1>2, SubSeqProperties
<1>4. QED
  BY <1>3

LEMMA ReverseSeq ==
    ASSUME NEW S, NEW s \in Seq(S)
    PROVE  /\ Reverse(s) \in Seq(S)
           /\ Len(Reverse(s)) = Len(s)
           /\ \A i \in 1..Len(s) : Reverse(s)[i] = s[Len(s) - i + 1]
<1>1. Len(s) \in Nat /\ s \in [1..Len(s) -> S]
  BY LenProperties
<1>2. \A i \in 1..Len(s) : Len(s) - i + 1 \in 1..Len(s)
  BY <1>1
<1>3. Reverse(s) = [i \in 1..Len(s) |-> s[Len(s) - i + 1]]
  BY DEF Reverse
<1>4. Reverse(s) \in [1..Len(s) -> S]
  BY <1>1, <1>2, <1>3
<1>5. QED
  BY <1>1, <1>3, <1>4, FunctionIsSeq

\* A sequence that agrees with the end of another is a suffix of it.
LEMMA SuffixByElements ==
    ASSUME NEW S, NEW s \in Seq(S), NEW t \in Seq(S), Len(s) <= Len(t),
           \A i \in 1..Len(s) : s[Len(s) - i + 1] = t[Len(t) - i + 1]
    PROVE  IsSuffix(s, t)
<1> DEFINE r == Reverse(s)
           b == Reverse(t)
           p == SubSeq(r, 1, Len(s))
           q == SubSeq(b, 1, Len(s))
<1>1. Len(s) \in Nat /\ Len(t) \in Nat
  BY LenProperties
<1>2. r \in Seq(S) /\ Len(r) = Len(s) /\ \A i \in 1..Len(s) : r[i] = s[Len(s) - i + 1]
  BY ReverseSeq
<1>3. b \in Seq(S) /\ Len(b) = Len(t) /\ \A i \in 1..Len(t) : b[i] = t[Len(t) - i + 1]
  BY ReverseSeq
<1> HIDE DEF r, b
<1>4. p \in Seq(S) /\ Len(p) = Len(s) /\ \A i \in 1..Len(s) : p[i] = r[i]
  <2>1. Len(s) <= Len(r)
    BY <1>1, <1>2
  <2>2. QED
    BY <1>1, <1>2, <2>1, FirstOfSeq
<1>5. q \in Seq(S) /\ Len(q) = Len(s) /\ \A i \in 1..Len(s) : q[i] = b[i]
  <2>1. Len(s) <= Len(b)
    BY <1>3
  <2>2. QED
    BY <1>1, <1>3, <2>1, FirstOfSeq
<1>6. \A i \in 1..Len(s) : p[i] = q[i]
  <2>1. \A i \in 1..Len(s) : i \in 1..Len(t)
    BY <1>1
  <2>2. QED
    BY <1>2, <1>3, <1>4, <1>5, <2>1
<1> HIDE DEF p, q
<1>7. p = q
  BY <1>4, <1>5, <1>6, SeqEqual
<1>8. QED
  BY <1>2, <1>3, <1>7 DEF p, q, r, b, IsSuffix, IsPrefix

-----------------------------------------------------------------------------
(* Numbers and induction.                                                    *)

\* A set of numbers has a least element.
LEMMA LeastOf ==
    ASSUME NEW T, T \subseteq Nat, NEW n \in T
    PROVE  \E m \in T : \A k \in T : m <= k
<1> DEFINE R == OpToRel(<, Nat)
<1>1. IsWellFoundedOn(R, Nat)
  BY NatLessThanWellFounded
<1>2. \A x, y \in Nat : x < y => <<x, y>> \in R
  BY DEF OpToRel
<1> HIDE DEF R
<1>3. \E x \in T : \A y \in T : ~ (<<y, x>> \in R)
  BY <1>1, WFMin
<1>4. PICK x \in T : \A y \in T : ~ (<<y, x>> \in R)
  BY <1>3
<1>5. \A y \in T : ~ (y < x)
  BY <1>2, <1>4
<1>6. \A y \in T : x <= y
  BY <1>5
<1>7. QED
  BY <1>6

\* What holds of 0 and goes on to the next number holds of all of them up to n.
LEMMA UpTo ==
    ASSUME NEW n \in Nat, NEW T, 0 \in T, \A k \in 0..(n - 1) : k \in T => k + 1 \in T
    PROVE  \A k \in 0..n : k \in T
<1> DEFINE U == {k \in 0..n : k \notin T}
<1> SUFFICES ASSUME NEW j \in U
             PROVE  FALSE
  OBVIOUS
<1>1. PICK m \in U : \A k \in U : m <= k
  <2>1. U \subseteq Nat
    OBVIOUS
  <2> HIDE DEF U
  <2>2. QED
    BY <2>1, LeastOf
<1>2. m # 0 /\ m \in 1..n /\ m - 1 \in 0..(n - 1)
  BY <1>1
<1>3. m - 1 \notin U
  BY <1>1, <1>2
<1>4. m - 1 \in T
  BY <1>2, <1>3
<1>5. QED
  BY <1>1, <1>2, <1>4

\* The operators of the library that take the least and the greatest of a set.
LEMMA SmallestOf ==
    ASSUME NEW T, T \subseteq Nat, T # {}
    PROVE  Min(T) \in T /\ \A k \in T : Min(T) <= k
<1>1. PICK k \in T : TRUE
  OBVIOUS
<1>2. \E x \in T : \A y \in T : x <= y
  BY <1>1, LeastOf
<1>3. QED
  BY <1>2 DEF Min

LEMMA GreatestOf ==
    ASSUME NEW n \in Nat, NEW T, T \subseteq 0..n, T # {}
    PROVE  Max(T) \in T /\ \A k \in T : k <= Max(T)
<1> DEFINE U == {j \in 0..n : n - j \in T}
<1>1. U \subseteq Nat
  OBVIOUS
<1>2. PICK k \in T : TRUE
  OBVIOUS
<1>3. n - k \in U
  <2>1. k \in 0..n /\ n - (n - k) = k /\ n - k \in 0..n
    BY <1>2
  <2>2. QED
    BY <1>2, <2>1
<1> HIDE DEF U
<1>4. PICK j \in U : \A i \in U : j <= i
  BY <1>1, <1>3, LeastOf
<1>5. \A i \in T : i <= n - j
  <2> SUFFICES ASSUME NEW i \in T PROVE i <= n - j
    OBVIOUS
  <2>1. n - i \in U
    <3>1. i \in 0..n /\ n - (n - i) = i /\ n - i \in 0..n
      OBVIOUS
    <3>2. QED
      BY <3>1 DEF U
  <2>2. j <= n - i /\ j \in 0..n
    BY <1>4, <2>1 DEF U
  <2>3. QED
    BY <2>2
<1>6. n - j \in T
  BY <1>4 DEF U
<1>7. \E x \in T : \A y \in T : x >= y
  BY <1>1, <1>5, <1>6
<1>8. QED
  BY <1>7 DEF Max

\* What holds of the empty sequence and is kept by Append holds of all sequences.
LEMMA EverySeq ==
    ASSUME NEW S, NEW T, <<>> \in T,
           \A s \in Seq(S), x \in S : s \in T => Append(s, x) \in T
    PROVE  \A s \in Seq(S) : s \in T
<1> SUFFICES ASSUME NEW s \in Seq(S) PROVE s \in T
  OBVIOUS
<1> DEFINE U == {k \in Nat : SubSeq(s, 1, k) \in T}
           n == Len(s)
<1>1. n \in Nat /\ SubSeq(s, 1, n) = s
  BY LenProperties, SubSeqFull
<1>2. 0 \in U
  <2>1. SubSeq(s, 1, 0) = <<>>
    BY SubSeqEmpty
  <2>2. QED
    BY <2>1
<1>3. ASSUME NEW k \in 0..(n - 1), k \in U
      PROVE  k + 1 \in U
  <2> DEFINE a == SubSeq(s, 1, k)
             c == SubSeq(s, 1, k + 1)
  <2>1. k \in Nat /\ k + 1 \in Nat /\ k + 1 <= n /\ k <= n /\ k + 1 \in 1..n
    BY <1>1
  <2>2. a \in Seq(S) /\ Len(a) = k /\ \A i \in 1..k : a[i] = s[i]
    BY <2>1, FirstOfSeq
  <2>3. c \in Seq(S) /\ Len(c) = k + 1 /\ \A i \in 1..(k + 1) : c[i] = s[i]
    BY <2>1, FirstOfSeq
  <2>4. s[k + 1] \in S
    BY <2>1, ElementOfSeq
  <2> HIDE DEF a, c
  <2>5. c = Append(a, s[k + 1])
    <3>1. /\ Append(a, s[k + 1]) \in Seq(S) /\ Len(Append(a, s[k + 1])) = k + 1
          /\ \A i \in 1..k : Append(a, s[k + 1])[i] = a[i]
          /\ Append(a, s[k + 1])[k + 1] = s[k + 1]
      BY <2>2, <2>4, AppendProperties
    <3>2. \A i \in 1..(k + 1) : i \in 1..k \/ i = k + 1
      BY <2>1
    <3>3. \A i \in 1..(k + 1) : Append(a, s[k + 1])[i] = c[i]
      BY <2>2, <2>3, <3>1, <3>2
    <3>4. QED
      BY <2>3, <3>1, <3>3, SeqEqual
  <2>6. a \in T
    BY <1>3 DEF a
  <2>7. c \in T
    BY <2>2, <2>4, <2>5, <2>6
  <2>8. QED
    BY <2>1, <2>7 DEF c
<1> HIDE DEF U
<1>4. \A k \in 0..n : k \in U
  BY <1>1, <1>2, <1>3, UpTo
<1>5. n \in U
  BY <1>1, <1>4
<1>6. QED
  BY <1>1, <1>5 DEF U

-----------------------------------------------------------------------------
(* FlattenSeq, piece by piece.                                               *)

\* f[i] is the first i pieces, one after the other.
Joins(f, s) == \A i \in 1..Len(s) : f[i] = IF i = 1 THEN s[i] ELSE f[i - 1] \o s[i]

\* A step of it.
LEMMA JoinStep ==
    ASSUME NEW s, NEW f, Joins(f, s), NEW k \in Nat, k + 1 \in 1..Len(s)
    PROVE  f[k + 1] = IF k = 0 THEN s[k + 1] ELSE f[k] \o s[k + 1]
<1> DEFINE j == k + 1
<1>1. j \in 1..Len(s) /\ j - 1 = k /\ (j = 1 <=> k = 0)
  OBVIOUS
<1> HIDE DEF j
<1>2. f[j] = IF j = 1 THEN s[j] ELSE f[j - 1] \o s[j]
  BY <1>1 DEF Joins
<1>3. f[j] = IF k = 0 THEN s[j] ELSE f[k] \o s[j]
  BY <1>1, <1>2
<1>4. QED
  BY <1>3 DEF j

LEMMA JoinExists ==
    ASSUME NEW S, NEW s \in Seq(Seq(S))
    PROVE  \E f \in [1..Len(s) -> Seq(S)] : Joins(f, s)
<1> DEFINE n == Len(s)
           Up(f, k) == \A i \in 1..k : f[i] = IF i = 1 THEN s[i] ELSE f[i - 1] \o s[i]
           T == {k \in Nat : \E f \in [1..k -> Seq(S)] : Up(f, k)}
<1>1. n \in Nat /\ \A i \in 1..n : s[i] \in Seq(S)
  BY LenProperties, ElementOfSeq
<1>2. 0 \in T
  <2>1. [i \in 1..0 |-> <<>>] \in [1..0 -> Seq(S)] /\ Up([i \in 1..0 |-> <<>>], 0)
    OBVIOUS
  <2>2. QED
    BY <2>1
<1>3. ASSUME NEW k \in 0..(n - 1), k \in T
      PROVE  k + 1 \in T
  <2>1. PICK f \in [1..k -> Seq(S)] : Up(f, k)
    BY <1>3
  <2> DEFINE last == IF k = 0 THEN s[1] ELSE f[k] \o s[k + 1]
             g == [i \in 1..(k + 1) |-> IF i = k + 1 THEN last ELSE f[i]]
  <2>2. k \in Nat /\ k + 1 \in Nat /\ k + 1 \in 1..n /\ (k # 0 => k \in 1..k)
    BY <1>1
  <2>3. last \in Seq(S)
    <3>1. CASE k = 0
      BY <1>1, <2>2, <3>1
    <3>2. CASE k # 0
      <4>1. f[k] \in Seq(S) /\ s[k + 1] \in Seq(S)
        BY <1>1, <2>2, <3>2
      <4>2. QED
        BY <3>2, <4>1, ConcatProperties
    <3>3. QED
      BY <3>1, <3>2
  <2>4. g \in [1..(k + 1) -> Seq(S)]
    <3> HIDE DEF last
    <3>1. \A i \in 1..(k + 1) : i # k + 1 => i \in 1..k
      BY <2>2
    <3>2. QED
      BY <2>3, <3>1
  <2>5. Up(g, k + 1)
    <3> SUFFICES ASSUME NEW i \in 1..(k + 1)
                 PROVE  g[i] = IF i = 1 THEN s[i] ELSE g[i - 1] \o s[i]
      OBVIOUS
    <3>1. CASE i = k + 1
      <4>1. g[i] = last /\ (k # 0 => g[i - 1] = f[k])
        <5> HIDE DEF last
        <5>1. QED
          BY <2>2, <3>1
      <4>2. QED
        BY <2>2, <3>1, <4>1
    <3>2. CASE i # k + 1
      <4>1. i \in 1..k /\ (i # 1 => i - 1 \in 1..(k + 1) /\ i - 1 # k + 1)
        BY <2>2, <3>2
      <4>2. g[i] = f[i] /\ (i # 1 => g[i - 1] = f[i - 1])
        <5> HIDE DEF last
        <5>1. QED
          BY <3>2, <4>1
      <4>3. QED
        BY <2>1, <4>1, <4>2
    <3>3. QED
      BY <3>1, <3>2
  <2>6. QED
    BY <2>2, <2>4, <2>5
<1> HIDE DEF T
<1>4. \A k \in 0..n : k \in T
  BY <1>1, <1>2, <1>3, UpTo
<1>5. n \in T
  BY <1>1, <1>4
<1>6. QED
  BY <1>5 DEF T, Joins

\* What FlattenSeq returns is the last of the joins, each a sequence.
LEMMA FlattenJoins ==
    ASSUME NEW S, NEW s \in Seq(Seq(S)), s # <<>>
    PROVE  \E f \in [1..Len(s) -> Seq(S)] : Joins(f, s) /\ FlattenSeq(s) = f[Len(s)]
<1> DEFINE n == Len(s)
           Step(f) == [i \in 1..n |-> IF i = 1 THEN s[i] ELSE f[i - 1] \o s[i]]
           F == CHOOSE f : f = Step(f)
<1>1. n \in Nat /\ n # 0 /\ \A i \in 1..n : s[i] \in Seq(S)
  BY LenProperties, ElementOfSeq, EmptySeq
<1>2. FlattenSeq(s) = F[n]
  BY <1>1 DEF FlattenSeq
<1>3. PICK g \in [1..n -> Seq(S)] : Joins(g, s)
  BY JoinExists
<1>4. g = Step(g)
  BY <1>3 DEF Joins
<1>5. F = Step(F)
  <2> HIDE DEF Step
  <2>1. QED
    BY <1>4
<1> HIDE DEF F
<1>6. Joins(F, s) /\ F = [i \in 1..n |-> F[i]]
  BY <1>5 DEF Joins
<1>7. \A i \in 1..n : F[i] \in Seq(S)
  <2> DEFINE T == {k \in Nat : k = 0 \/ F[k] \in Seq(S)}
  <2>1. 0 \in T
    OBVIOUS
  <2>2. ASSUME NEW k \in 0..(n - 1), k \in T
        PROVE  k + 1 \in T
    <3>1. k + 1 \in 1..n /\ k + 1 \in Nat /\ k \in Nat
      BY <1>1
    <3>2. F[k + 1] = IF k = 0 THEN s[k + 1] ELSE F[k] \o s[k + 1]
      BY <1>6, <3>1, JoinStep
    <3>3. s[k + 1] \in Seq(S)
      BY <1>1, <3>1
    <3>4. k # 0 => F[k] \in Seq(S)
      BY <2>2
    <3>5. F[k + 1] \in Seq(S)
      <4>1. CASE k = 0
        BY <3>2, <3>3, <4>1
      <4>2. CASE k # 0
        <5>1. F[k] \o s[k + 1] \in Seq(S)
          BY <3>3, <3>4, <4>2, ConcatProperties
        <5>2. QED
          BY <3>2, <4>2, <5>1
      <4>3. QED
        BY <4>1, <4>2
    <3>6. QED
      BY <3>1, <3>5
  <2> HIDE DEF T
  <2>3. \A k \in 0..n : k \in T
    BY <1>1, <2>1, <2>2, UpTo
  <2>4. \A i \in 1..n : i \in 0..n /\ i # 0
    BY <1>1
  <2>5. QED
    BY <2>3, <2>4 DEF T
<1>8. F \in [1..n -> Seq(S)]
  BY <1>6, <1>7
<1>9. QED
  BY <1>2, <1>6, <1>8

LEMMA FlattenType ==
    ASSUME NEW S, NEW s \in Seq(Seq(S))
    PROVE  FlattenSeq(s) \in Seq(S)
<1>1. CASE s = <<>>
  BY <1>1 DEF FlattenSeq
<1>2. CASE s # <<>>
  <2>1. PICK f \in [1..Len(s) -> Seq(S)] : FlattenSeq(s) = f[Len(s)]
    BY <1>2, FlattenJoins
  <2>2. Len(s) \in 1..Len(s)
    BY <1>2, LenProperties, EmptySeq
  <2>3. QED
    BY <2>1, <2>2
<1>3. QED
  BY <1>1, <1>2

LEMMA FlattenEmpty == FlattenSeq(<<>>) = <<>>
BY DEF FlattenSeq

\* One more piece comes after what there is.
LEMMA FlattenAppend ==
    ASSUME NEW S, NEW s \in Seq(Seq(S)), NEW e \in Seq(S)
    PROVE  FlattenSeq(Append(s, e)) = FlattenSeq(s) \o e
<1> DEFINE n == Len(s)
           t == Append(s, e)
<1>1. /\ n \in Nat /\ t \in Seq(Seq(S)) /\ t # <<>> /\ Len(t) = n + 1 /\ t[n + 1] = e
      /\ \A i \in 1..n : t[i] = s[i]
  BY LenProperties, AppendProperties
<1>2. PICK g \in [1..Len(t) -> Seq(S)] : Joins(g, t) /\ FlattenSeq(t) = g[Len(t)]
  BY <1>1, FlattenJoins
<1>3. CASE n = 0
  <2>1. s = <<>>
    BY <1>3, EmptySeq
  <2>2. FlattenSeq(s) = <<>>
    BY <2>1, FlattenEmpty
  <2>3. g[1] = t[1]
    <3>1. 0 + 1 \in 1..Len(t) /\ 0 + 1 = 1
      BY <1>1, <1>3
    <3> HIDE DEF t
    <3>2. g[0 + 1] = t[0 + 1]
      BY <1>2, <3>1, JoinStep
    <3>3. QED
      BY <3>1, <3>2
  <2>4. FlattenSeq(t) = e
    BY <1>1, <1>2, <1>3, <2>3
  <2>5. QED
    BY <2>2, <2>4, ConcatEmptySeq
<1>4. CASE n # 0
  <2>1. s # <<>>
    BY <1>4, EmptySeq
  <2>2. PICK f \in [1..n -> Seq(S)] : Joins(f, s) /\ FlattenSeq(s) = f[n]
    BY <2>1, FlattenJoins
  <2> DEFINE T == {k \in Nat : k = 0 \/ g[k] = f[k]}
  <2>3. 0 \in T
    OBVIOUS
  <2>4. ASSUME NEW k \in 0..(n - 1), k \in T
        PROVE  k + 1 \in T
    <3> HIDE DEF t
    <3>1. k + 1 \in 1..n /\ k + 1 \in 1..Len(t) /\ k \in Nat /\ k + 1 \in Nat
      BY <1>1
    <3>2. g[k + 1] = IF k = 0 THEN t[k + 1] ELSE g[k] \o t[k + 1]
      BY <1>2, <3>1, JoinStep
    <3>3. f[k + 1] = IF k = 0 THEN s[k + 1] ELSE f[k] \o s[k + 1]
      BY <2>2, <3>1, JoinStep
    <3>4. t[k + 1] = s[k + 1]
      BY <1>1, <3>1
    <3>5. g[k + 1] = f[k + 1]
      BY <2>4, <3>2, <3>3, <3>4
    <3>6. QED
      BY <3>1, <3>5
  <2> HIDE DEF T
  <2>5. \A k \in 0..n : k \in T
    BY <1>1, <2>3, <2>4, UpTo
  <2>6. g[n] = f[n]
    <3>1. n \in 0..n
      BY <1>1
    <3>2. QED
      BY <1>4, <2>5, <3>1 DEF T
  <2>7. g[n + 1] = g[n] \o t[n + 1]
    <3> HIDE DEF t, n
    <3>1. n + 1 \in 1..Len(t)
      BY <1>1, <1>4
    <3>2. QED
      BY <1>1, <1>2, <1>4, <3>1, JoinStep
  <2>8. QED
    BY <1>1, <1>2, <2>2, <2>6, <2>7
<1>5. QED
  BY <1>3, <1>4

LEMMA ConcatAppend ==
    ASSUME NEW S, NEW s \in Seq(S), NEW t \in Seq(S), NEW e \in S
    PROVE  s \o Append(t, e) = Append(s \o t, e)
<1>1. <<e>> \in Seq(S) /\ s \o t \in Seq(S)
  BY OneElement, ConcatProperties
<1>2. Append(t, e) = t \o <<e>> /\ Append(s \o t, e) = (s \o t) \o <<e>>
  BY <1>1, AppendIsConcat
<1>3. QED
  BY <1>1, <1>2, ConcatAssociative

LEMMA FlattenConcat ==
    ASSUME NEW S, NEW s \in Seq(Seq(S)), NEW t \in Seq(Seq(S))
    PROVE  FlattenSeq(s \o t) = FlattenSeq(s) \o FlattenSeq(t)
<1> DEFINE T == {u \in Seq(Seq(S)) : FlattenSeq(s \o u) = FlattenSeq(s) \o FlattenSeq(u)}
<1>1. <<>> \in T
  BY FlattenEmpty, FlattenType, ConcatEmptySeq, EmptySeq
<1>2. ASSUME NEW u \in Seq(Seq(S)), NEW e \in Seq(S), u \in T
      PROVE  Append(u, e) \in T
  <2>1. Append(u, e) \in Seq(Seq(S)) /\ s \o u \in Seq(Seq(S))
    BY AppendProperties, ConcatProperties
  <2>2. s \o Append(u, e) = Append(s \o u, e)
    BY ConcatAppend
  <2>3. FlattenSeq(Append(s \o u, e)) = FlattenSeq(s \o u) \o e
    BY <2>1, FlattenAppend
  <2>4. FlattenSeq(s \o u) = FlattenSeq(s) \o FlattenSeq(u)
    BY <1>2
  <2>5. FlattenSeq(Append(u, e)) = FlattenSeq(u) \o e
    BY FlattenAppend
  <2>6. (FlattenSeq(s) \o FlattenSeq(u)) \o e = FlattenSeq(s) \o (FlattenSeq(u) \o e)
    BY FlattenType, ConcatAssociative
  <2>7. QED
    BY <2>1, <2>2, <2>3, <2>4, <2>5, <2>6
<1> HIDE DEF T
<1>3. \A u \in Seq(Seq(S)) : u \in T
  BY <1>1, <1>2, EverySeq
<1>4. QED
  BY <1>3 DEF T

LEMMA SuffixOfConcat ==
    ASSUME NEW S, NEW s \in Seq(S), NEW t \in Seq(S)
    PROVE  IsSuffix(s, t \o s)
<1> DEFINE r == t \o s
<1>1. Len(s) \in Nat /\ Len(t) \in Nat
  BY LenProperties
<1>2. /\ r \in Seq(S) /\ Len(r) = Len(t) + Len(s)
      /\ \A i \in 1..(Len(t) + Len(s)) : r[i] = IF i <= Len(t) THEN t[i] ELSE s[i - Len(t)]
  BY ConcatProperties
<1> HIDE DEF r
<1>3. Len(s) <= Len(r)
  BY <1>1, <1>2
<1>4. ASSUME NEW i \in 1..Len(s)
      PROVE  s[Len(s) - i + 1] = r[Len(r) - i + 1]
  <2> DEFINE j == Len(r) - i + 1
  <2>1. j \in 1..(Len(t) + Len(s)) /\ ~(j <= Len(t)) /\ j - Len(t) = Len(s) - i + 1
    BY <1>1, <1>2
  <2> HIDE DEF j
  <2>2. r[j] = s[j - Len(t)]
    BY <1>2, <2>1
  <2>3. QED
    BY <2>1, <2>2 DEF j
<1>5. IsSuffix(s, r)
  BY <1>2, <1>3, <1>4, SuffixByElements
<1>6. QED
  BY <1>5 DEF r
=============================================================================
