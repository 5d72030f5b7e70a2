--------------------------- MODULE StepRunProofs ---------------------------
(***************************************************************************)
(* Proofs about StepRun, for any requests and programs, any number of runs *)
(* and of followers, and any first length of the copier's buffer.          *)
(*                                                                         *)
(* The inductive invariant, IInv, has a part for each process: RunTyped    *)
(* and Ran for the runner, Copied for the copier and the wire, LogInv for  *)
(* the log of a drone step and those who follow it, ResultsInv for what is *)
(* in the files and in the results.  Two more are inductive next to it:    *)
(* MaskInv for the secrets, DeclInv for the declared variables.  Each part *)
(* stands with its lemmas in a section of its own; what it says of a state *)
(* half-way through a write, a read or a run is what its property leaves   *)
(* open there.                                                             *)
(***************************************************************************)
EXTENDS StepRun, SequenceLemmas

------------------------------------------------------------------------------
(* Sequences that are cut and put together again.  The provers take an       *)
(* equation between concatenations apart, element by element; as Cat it      *)
(* stays whole.                                                              *)
Cat(s, t) == s \o t

LEMMA CatIs ==
    ASSUME NEW S, NEW s \in Seq(S), NEW t \in Seq(S)
    PROVE  /\ Cat(s, t) \in Seq(S) /\ Len(Cat(s, t)) = Len(s) + Len(t)
           /\ \A i \in 1..(Len(s) + Len(t)) :
                 Cat(s, t)[i] = IF i <= Len(s) THEN s[i] ELSE t[i - Len(s)]
           /\ Len(s) \in Nat /\ Len(t) \in Nat
BY ConcatProperties, LenProperties DEF Cat

LEMMA CatEmpty ==
    ASSUME NEW S, NEW s \in Seq(S)
    PROVE  Cat(s, <<>>) = s /\ Cat(<<>>, s) = s
BY ConcatEmptySeq DEF Cat

LEMMA CatAssociates ==
    ASSUME NEW S, NEW s \in Seq(S), NEW t \in Seq(S), NEW u \in Seq(S)
    PROVE  Cat(Cat(s, t), u) = Cat(s, Cat(t, u))
<1>1. (s \o t) \o u = s \o (t \o u)
  BY ConcatAssociative
<1>2. QED
  BY <1>1 DEF Cat

\* The two parts into which a place cuts a sequence.
LEMMA Cut ==
    ASSUME NEW S, NEW s \in Seq(S), NEW k \in 0..Len(s)
    PROVE  /\ SubSeq(s, 1, k) \in Seq(S) /\ Len(SubSeq(s, 1, k)) = k
           /\ SubSeq(s, k + 1, Len(s)) \in Seq(S) /\ Len(SubSeq(s, k + 1, Len(s))) = Len(s) - k
           /\ Cat(SubSeq(s, 1, k), SubSeq(s, k + 1, Len(s))) = s
<1>1. Len(s) \in Nat /\ \A i \in 1..Len(s) : s[i] \in S
  BY LenProperties, ElementOfSeq
<1>2. /\ SubSeq(s, 1, k) \in Seq(S)
      /\ Len(SubSeq(s, 1, k)) = IF 1 <= k THEN k - 1 + 1 ELSE 0
  <2>1. \A i \in 1..k : s[i] \in S
    BY <1>1
  <2>2. QED
    BY <2>1, SubSeqProperties
<1>3. /\ SubSeq(s, k + 1, Len(s)) \in Seq(S)
      /\ Len(SubSeq(s, k + 1, Len(s))) = IF k + 1 <= Len(s) THEN Len(s) - (k + 1) + 1 ELSE 0
  <2>1. \A i \in (k + 1)..Len(s) : s[i] \in S
    BY <1>1
  <2>2. k + 1 \in Int /\ Len(s) \in Int
    BY <1>1
  <2>3. QED
    BY <2>1, <2>2, SubSeqProperties
<1>4. SubSeq(s, 1, k) \o SubSeq(s, k + 1, Len(s)) = s
  <2>1. 1 \in 1..(Len(s) + 1) /\ k \in (1 - 1)..Len(s) /\ Len(s) \in k..Len(s)
    BY <1>1
  <2>2. QED
    BY <2>1, ConcatAdjacentSubSeq, SubSeqFull
<1>5. Cat(SubSeq(s, 1, k), SubSeq(s, k + 1, Len(s))) = s
  BY <1>4 DEF Cat
<1> DEFINE a == SubSeq(s, 1, k)
           z == SubSeq(s, k + 1, Len(s))
<1> HIDE DEF a, z
<1>6. Len(a) = k
  BY <1>1, <1>2 DEF a
<1>7. Len(z) = Len(s) - k
  BY <1>1, <1>3 DEF z
<1>8. QED
  BY <1>2, <1>3, <1>5, <1>6, <1>7 DEF a, z

\* Of two ways to cut one sequence, the parts of one length are the same.
LEMMA SameCut ==
    ASSUME NEW S, NEW a \in Seq(S), NEW b \in Seq(S), NEW c \in Seq(S), NEW d \in Seq(S),
           Cat(a, b) = Cat(c, d), Len(a) = Len(c)
    PROVE  a = c /\ b = d
<1>1. Len(a) \in Nat /\ Len(b) \in Nat /\ Len(c) \in Nat /\ Len(d) \in Nat
  BY LenProperties
<1>2. Len(b) = Len(d)
  <2>1. Len(Cat(a, b)) = Len(a) + Len(b) /\ Len(Cat(c, d)) = Len(c) + Len(d)
    BY CatIs
  <2>2. Len(a) + Len(b) = Len(a) + Len(d)
    BY <2>1
  <2>3. QED
    BY <1>1, <2>2
<1>3. ASSUME NEW i \in 1..Len(a) PROVE a[i] = c[i]
  <2>1. i \in 1..(Len(a) + Len(b)) /\ i \in 1..(Len(c) + Len(d)) /\ i <= Len(a) /\ i <= Len(c)
    BY <1>1
  <2>2. Cat(a, b)[i] = a[i]
    BY <2>1, CatIs
  <2>3. Cat(c, d)[i] = c[i]
    BY <2>1, CatIs
  <2>4. QED
    BY <2>2, <2>3
<1>4. a = c
  BY <1>3, SeqEqual
<1>5. ASSUME NEW i \in 1..Len(b) PROVE b[i] = d[i]
  <2> DEFINE j == Len(a) + i
  <2>1. j \in 1..(Len(a) + Len(b)) /\ ~(j <= Len(a)) /\ j - Len(a) = i
    BY <1>1
  <2>2. j \in 1..(Len(a) + Len(d))
    BY <1>1, <1>2, <2>1
  <2> HIDE DEF j
  <2>3. Cat(a, b)[j] = b[j - Len(a)]
    BY <2>1, CatIs
  <2>4. Cat(a, d)[j] = d[j - Len(a)]
    BY <2>1, <2>2, CatIs
  <2>5. QED
    BY <1>4, <2>1, <2>3, <2>4
<1>6. b = d
  BY <1>2, <1>5, SeqEqual
<1>7. QED
  BY <1>4, <1>6

\* What begins with e when more follows begins with it when it is long enough.
LEMMA FrontOf ==
    ASSUME NEW S, NEW x \in Seq(S), NEW y \in Seq(S), NEW e \in Seq(S), NEW r \in Seq(S),
           Cat(x, y) = Cat(e, r), Len(e) <= Len(x)
    PROVE  /\ SubSeq(x, 1, Len(e)) = e
           /\ SubSeq(x, Len(e) + 1, Len(x)) \in Seq(S)
           /\ r = Cat(SubSeq(x, Len(e) + 1, Len(x)), y)
<1> DEFINE m == Len(e)
           f == SubSeq(x, 1, m)
           g == SubSeq(x, m + 1, Len(x))
<1>1. m \in 0..Len(x)
  BY LenProperties
<1>2. f \in Seq(S) /\ Len(f) = m /\ g \in Seq(S) /\ Cat(f, g) = x
  BY <1>1, Cut
<1> HIDE DEF f, g
<1>3. Cat(Cat(f, g), y) = Cat(f, Cat(g, y)) /\ Cat(g, y) \in Seq(S)
  BY <1>2, CatAssociates, CatIs
<1>4. Cat(f, Cat(g, y)) = Cat(e, r)
  BY <1>2, <1>3
<1>5. f = e /\ Cat(g, y) = r
  BY <1>2, <1>3, <1>4, SameCut
<1>6. QED
  BY <1>2, <1>5 DEF f, g

-----------------------------------------------------------------------------
(* Frames.                                                                   *)

LEMMA EncodeIs ==
    ASSUME NEW c \in Chunk
    PROVE  /\ c.data \in Seq(Nat) /\ Len(c.data) \in Nat /\ c.stream \in Nat
           /\ Header(c) \in Seq(Nat) /\ Len(Header(c)) = HeaderLen
           /\ Encode(c) \in Seq(Nat) /\ Len(Encode(c)) = HeaderLen + Len(c.data)
           /\ Encode(c)[1] = c.stream /\ Encode(c)[HeaderLen] = Len(c.data)
<1>1. c.data \in Seq(Nat) /\ Len(c.data) \in Nat /\ c.stream \in Nat
  BY LenProperties DEF Chunk
<1>2. HeaderLen \in Nat /\ HeaderLen >= 2 /\ 1 \in 1..HeaderLen /\ HeaderLen \in 1..HeaderLen
  BY StdCopyAssumption
<1>3. Header(c) \in [1..HeaderLen -> Nat] /\ Header(c)[1] = c.stream /\ Header(c)[HeaderLen] = Len(c.data)
  BY <1>1, <1>2 DEF Header
<1>4. Header(c) \in Seq(Nat) /\ Len(Header(c)) = HeaderLen
  BY <1>2, <1>3, FunctionIsSeq
<1> DEFINE h == Header(c)
           d == c.data
<1>5. h \in Seq(Nat) /\ Len(h) = HeaderLen /\ d \in Seq(Nat) /\ Len(d) \in Nat
  BY <1>1, <1>4
<1>6. 1 \in 1..(HeaderLen + Len(d)) /\ HeaderLen \in 1..(HeaderLen + Len(d)) /\ 1 <= HeaderLen
  BY <1>2, <1>5
<1>7. Encode(c) = h \o d
  BY DEF Encode
<1> HIDE DEF h, d
<1>8. /\ h \o d \in Seq(Nat) /\ Len(h \o d) = HeaderLen + Len(d)
      /\ (h \o d)[1] = h[1] /\ (h \o d)[HeaderLen] = h[HeaderLen]
  <2>1. /\ h \o d \in Seq(Nat) /\ Len(h \o d) = Len(h) + Len(d)
        /\ \A i \in 1..(Len(h) + Len(d)) : (h \o d)[i] = IF i <= Len(h) THEN h[i] ELSE d[i - Len(h)]
    BY <1>5, ConcatProperties
  <2>2. /\ 1 \in 1..(Len(h) + Len(d)) /\ 1 <= Len(h)
        /\ HeaderLen \in 1..(Len(h) + Len(d)) /\ HeaderLen <= Len(h)
    BY <1>2, <1>5, <1>6
  <2>3. QED
    BY <1>5, <2>1, <2>2
<1>9. QED
  BY <1>1, <1>3, <1>4, <1>7, <1>8 DEF h, d

\* The frames of the chunks after the first k.
Frames(sent, k) == [i \in 1..(Len(sent) - k) |-> Encode(sent[k + i])]
Rest(sent, k)   == FlattenSeq(Frames(sent, k))

LEMMA FramesAre ==
    ASSUME NEW sent \in Seq(Chunk), NEW k \in 0..Len(sent)
    PROVE  /\ Frames(sent, k) \in Seq(Seq(Nat)) /\ Len(Frames(sent, k)) = Len(sent) - k
           /\ \A i \in 1..(Len(sent) - k) : Frames(sent, k)[i] = Encode(sent[k + i])
<1>1. Len(sent) \in Nat /\ Len(sent) - k \in Nat
  BY LenProperties
<1>2. ASSUME NEW i \in 1..(Len(sent) - k) PROVE Encode(sent[k + i]) \in Seq(Nat)
  <2>1. k + i \in 1..Len(sent)
    BY <1>1
  <2>2. sent[k + i] \in Chunk
    BY <2>1, ElementOfSeq
  <2>3. QED
    BY <2>2, EncodeIs
<1>3. Frames(sent, k) \in [1..(Len(sent) - k) -> Seq(Nat)]
  BY <1>2 DEF Frames
<1>4. QED
  BY <1>1, <1>3, FunctionIsSeq DEF Frames

LEMMA RestType ==
    ASSUME NEW sent \in Seq(Chunk), NEW k \in 0..Len(sent)
    PROVE  Rest(sent, k) \in Seq(Nat)
BY FramesAre, FlattenType DEF Rest

LEMMA RestOfAll ==
    ASSUME NEW sent \in Seq(Chunk)
    PROVE  Rest(sent, Len(sent)) = <<>>
<1>1. Len(sent) \in 0..Len(sent) /\ Len(sent) - Len(sent) = 0
  BY LenProperties
<1>2. Frames(sent, Len(sent)) = <<>>
  BY <1>1, FramesAre, EmptySeq
<1>3. QED
  BY <1>2, FlattenEmpty DEF Rest

LEMMA RestFirst ==
    ASSUME NEW sent \in Seq(Chunk), NEW k \in 0..Len(sent), k < Len(sent)
    PROVE  /\ k + 1 \in 0..Len(sent) /\ sent[k + 1] \in Chunk
           /\ Rest(sent, k) = Cat(Encode(sent[k + 1]), Rest(sent, k + 1))
<1> DEFINE e == Encode(sent[k + 1])
           t == Frames(sent, k + 1)
           r == Frames(sent, k)
<1>1. Len(sent) \in Nat /\ k + 1 \in 0..Len(sent) /\ k + 1 \in 1..Len(sent)
  BY LenProperties
<1>2. sent[k + 1] \in Chunk
  BY <1>1, ElementOfSeq
<1>3. e \in Seq(Nat)
  BY <1>2, EncodeIs
<1>4. t \in Seq(Seq(Nat)) /\ Len(t) = Len(sent) - (k + 1)
      /\ \A i \in 1..(Len(sent) - (k + 1)) : t[i] = Encode(sent[k + 1 + i])
  BY <1>1, FramesAre
<1>5. r \in Seq(Seq(Nat)) /\ Len(r) = Len(sent) - k
      /\ \A i \in 1..(Len(sent) - k) : r[i] = Encode(sent[k + i])
  BY FramesAre
<1> HIDE DEF t, r
<1>6. <<e>> \in Seq(Seq(Nat)) /\ Len(<<e>>) = 1 /\ <<e>>[1] = e
  BY <1>3, OneElement
<1>7. r = <<e>> \o t
  <2>1. <<e>> \o t \in Seq(Seq(Nat)) /\ Len(<<e>> \o t) = 1 + Len(t)
        /\ \A i \in 1..(1 + Len(t)) : (<<e>> \o t)[i] = IF i <= 1 THEN <<e>>[i] ELSE t[i - 1]
    BY <1>4, <1>6, ConcatProperties
  <2>2. ASSUME NEW i \in 1..Len(r) PROVE r[i] = (<<e>> \o t)[i]
    <3>1. i \in 1..(1 + Len(t)) /\ i \in 1..(Len(sent) - k)
      BY <1>1, <1>4, <1>5
    <3>2. CASE i = 1
      BY <1>5, <1>6, <2>1, <3>1, <3>2
    <3>3. CASE i # 1
      <4>1. ~(i <= 1) /\ i - 1 \in 1..(Len(sent) - (k + 1)) /\ k + 1 + (i - 1) = k + i
        BY <1>1, <3>1, <3>3
      <4>2. (<<e>> \o t)[i] = t[i - 1]
        BY <2>1, <3>1, <4>1
      <4>3. t[i - 1] = Encode(sent[k + i])
        <5> DEFINE j == i - 1
        <5>1. j \in 1..(Len(sent) - (k + 1)) /\ k + 1 + j = k + i
          BY <4>1
        <5> HIDE DEF j
        <5>2. t[j] = Encode(sent[k + 1 + j])
          BY <1>4, <5>1
        <5>3. QED
          BY <5>1, <5>2 DEF j
      <4>4. QED
        BY <1>5, <3>1, <4>2, <4>3
    <3>4. QED
      BY <3>2, <3>3
  <2>3. Len(r) = 1 + Len(t)
    BY <1>1, <1>4, <1>5
  <2>4. QED
    BY <1>5, <2>1, <2>2, <2>3, SeqEqual
<1>8. FlattenSeq(<<e>>) = e
  <2>1. <<e>> = Append(<<>>, e)
    OBVIOUS
  <2>2. <<>> \in Seq(Seq(Nat))
    OBVIOUS
  <2>3. FlattenSeq(<<e>>) = FlattenSeq(<<>>) \o e
    BY <1>3, <2>1, <2>2, FlattenAppend
  <2>4. QED
    BY <1>3, <2>3, FlattenEmpty, ConcatEmptySeq
<1>9. FlattenSeq(<<e>> \o t) = FlattenSeq(<<e>>) \o FlattenSeq(t)
  BY <1>4, <1>6, FlattenConcat
<1>10. FlattenSeq(r) = e \o FlattenSeq(t)
  BY <1>7, <1>8, <1>9
<1>11. QED
  BY <1>1, <1>2, <1>10 DEF Rest, Cat, r, t

LEMMA RestAppend ==
    ASSUME NEW sent \in Seq(Chunk), NEW k \in 0..Len(sent), NEW c \in Chunk
    PROVE  Rest(Append(sent, c), k) = Cat(Rest(sent, k), Encode(c))
<1> DEFINE more == Append(sent, c)
           r == Frames(sent, k)
           m == Frames(more, k)
<1>1. Len(sent) \in Nat
  BY LenProperties
<1>2. more \in Seq(Chunk) /\ Len(more) = Len(sent) + 1 /\ more[Len(sent) + 1] = c
      /\ \A i \in 1..Len(sent) : more[i] = sent[i]
  BY AppendProperties
<1> HIDE DEF more
<1>3. k \in 0..Len(more)
  BY <1>1, <1>2
<1>4. r \in Seq(Seq(Nat)) /\ Len(r) = Len(sent) - k
      /\ \A i \in 1..(Len(sent) - k) : r[i] = Encode(sent[k + i])
  BY FramesAre
<1>5. m \in Seq(Seq(Nat)) /\ Len(m) = Len(more) - k
      /\ \A i \in 1..(Len(more) - k) : m[i] = Encode(more[k + i])
  BY <1>2, <1>3, FramesAre
<1>6. Encode(c) \in Seq(Nat)
  BY EncodeIs
<1> HIDE DEF r, m
<1> DEFINE e == Encode(c)
<1> HIDE DEF e
<1>7. m = Append(r, e)
  <2>1. Append(r, e) \in Seq(Seq(Nat)) /\ Len(Append(r, e)) = Len(r) + 1
        /\ Append(r, e)[Len(r) + 1] = e /\ \A i \in 1..Len(r) : Append(r, e)[i] = r[i]
    BY <1>4, <1>6, AppendProperties DEF e
  <2>2. ASSUME NEW i \in 1..Len(m) PROVE m[i] = Append(r, e)[i]
    <3>1. i \in 1..(Len(more) - k)
      BY <1>5
    <3>2. m[i] = Encode(more[k + i])
      BY <1>5, <3>1
    <3>3. CASE i = Len(r) + 1
      <4>1. k + i = Len(sent) + 1
        BY <1>1, <1>4, <3>3
      <4>2. QED
        BY <1>2, <2>1, <3>2, <3>3, <4>1 DEF e
    <3>4. CASE i # Len(r) + 1
      <4>1. i \in 1..Len(r) /\ i \in 1..(Len(sent) - k) /\ k + i \in 1..Len(sent)
        BY <1>1, <1>2, <1>4, <3>1, <3>4
      <4>2. more[k + i] = sent[k + i]
        BY <1>2, <4>1
      <4>3. QED
        BY <1>4, <2>1, <3>2, <4>1, <4>2
    <3>5. QED
      BY <3>3, <3>4
  <2>3. Len(m) = Len(r) + 1
    BY <1>1, <1>2, <1>4, <1>5
  <2>4. QED
    BY <1>5, <2>1, <2>2, <2>3, SeqEqual
<1>8. FlattenSeq(Append(r, e)) = FlattenSeq(r) \o e
  BY <1>4, <1>6, FlattenAppend DEF e
<1>9. QED
  BY <1>7, <1>8 DEF Rest, Cat, r, m, more, e

\* The bytes the copier has read begin with the header of the next chunk, and with the whole
\* frame when there are enough of them.
LEMMA FrontFrame ==
    ASSUME NEW sent \in Seq(Chunk), NEW k \in 0..Len(sent), NEW x \in Seq(Nat), NEW y \in Seq(Nat),
           Rest(sent, k) = Cat(x, y), Len(x) >= HeaderLen
    PROVE  /\ k < Len(sent) /\ k + 1 \in 0..Len(sent) /\ sent[k + 1] \in Chunk
           /\ x[1] = sent[k + 1].stream /\ x[HeaderLen] = Len(sent[k + 1].data)
           /\ Len(x) >= HeaderLen + x[HeaderLen] =>
                 /\ SubSeq(x, HeaderLen + 1, HeaderLen + x[HeaderLen]) = sent[k + 1].data
                 /\ SubSeq(x, HeaderLen + x[HeaderLen] + 1, Len(x)) \in Seq(Nat)
                 /\ Rest(sent, k + 1) = Cat(SubSeq(x, HeaderLen + x[HeaderLen] + 1, Len(x)), y)
<1>1. HeaderLen \in Nat /\ HeaderLen >= 2 /\ Len(x) \in Nat /\ Len(y) \in Nat /\ Len(sent) \in Nat
  BY StdCopyAssumption, LenProperties
<1>2. k < Len(sent)
  <2>1. Cat(x, y) # <<>>
    <3>1. x # <<>>
      BY <1>1, EmptySeq
    <3>2. QED
      BY <3>1, ConcatEqualIffEmpty DEF Cat
  <2>2. k # Len(sent)
    BY <2>1, RestOfAll
  <2>3. QED
    BY <1>1, <2>2
<1> DEFINE c == sent[k + 1]
           n == Len(c.data)
           r == Rest(sent, k + 1)
<1>3. k + 1 \in 0..Len(sent) /\ c \in Chunk /\ Rest(sent, k) = Cat(Encode(c), r)
  BY <1>2, RestFirst
<1>4. r \in Seq(Nat)
  BY <1>3, RestType
<1> HIDE DEF c, r
<1>5. /\ c.data \in Seq(Nat) /\ n \in Nat /\ Header(c) \in Seq(Nat) /\ Len(Header(c)) = HeaderLen
      /\ Encode(c) \in Seq(Nat) /\ Len(Encode(c)) = HeaderLen + n
      /\ Encode(c)[1] = c.stream /\ Encode(c)[HeaderLen] = n
  BY <1>3, EncodeIs
<1> HIDE DEF n
<1>6. Cat(x, y) = Cat(Encode(c), r)
  BY <1>3
<1>7. ASSUME NEW i \in 1..HeaderLen PROVE x[i] = Encode(c)[i]
  <2>1. i \in 1..(Len(x) + Len(y)) /\ i <= Len(x)
    BY <1>1
  <2>2. Len(r) \in Nat
    BY <1>4, LenProperties
  <2>3. i \in 1..(Len(Encode(c)) + Len(r)) /\ i <= Len(Encode(c))
    BY <1>1, <1>5, <2>2
  <2>4. Cat(x, y)[i] = x[i]
    BY <2>1, CatIs
  <2>5. Cat(Encode(c), r)[i] = Encode(c)[i]
    BY <1>4, <1>5, <2>3, CatIs
  <2>6. QED
    BY <1>6, <2>4, <2>5
<1>8. x[1] = c.stream /\ x[HeaderLen] = n
  <2>1. 1 \in 1..HeaderLen /\ HeaderLen \in 1..HeaderLen
    BY <1>1
  <2>2. QED
    BY <1>5, <1>7, <2>1
<1>9. ASSUME Len(x) >= HeaderLen + n
      PROVE  /\ SubSeq(x, HeaderLen + 1, HeaderLen + n) = c.data
             /\ SubSeq(x, HeaderLen + n + 1, Len(x)) \in Seq(Nat)
             /\ r = Cat(SubSeq(x, HeaderLen + n + 1, Len(x)), y)
  <2> DEFINE m == HeaderLen + n
             f == SubSeq(x, 1, m)
             g == SubSeq(x, m + 1, Len(x))
  <2>1. m \in 0..Len(x)
    BY <1>1, <1>5, <1>9
  <2>2. f = Encode(c) /\ g \in Seq(Nat) /\ r = Cat(g, y)
    <3>1. Len(Encode(c)) = m /\ m <= Len(x)
      BY <1>5, <2>1
    <3>2. /\ SubSeq(x, 1, Len(Encode(c))) = Encode(c)
          /\ SubSeq(x, Len(Encode(c)) + 1, Len(x)) \in Seq(Nat)
          /\ r = Cat(SubSeq(x, Len(Encode(c)) + 1, Len(x)), y)
      <4> DEFINE e == Encode(c)
      <4>1. e \in Seq(Nat) /\ Cat(x, y) = Cat(e, r) /\ Len(e) <= Len(x)
        BY <1>5, <1>6, <3>1
      <4> HIDE DEF e
      <4>2. QED
        BY <1>4, <4>1, FrontOf DEF e
    <3>3. QED
      BY <3>1, <3>2
  <2> HIDE DEF f, g
  <2>6. SubSeq(x, HeaderLen + 1, m) = c.data
    <3>1. 1 \in 1..(Len(x) + 1) /\ HeaderLen \in (1 - 1)..Len(x) /\ m \in HeaderLen..Len(x)
      BY <1>1, <1>5, <1>9
    <3>2. Cat(SubSeq(x, 1, HeaderLen), SubSeq(x, HeaderLen + 1, m)) = f
      BY <3>1, ConcatAdjacentSubSeq DEF f, Cat
    <3>3. HeaderLen \in 0..Len(x)
      BY <1>1
    <3>4. SubSeq(x, 1, HeaderLen) \in Seq(Nat) /\ Len(SubSeq(x, 1, HeaderLen)) = HeaderLen
      BY <3>3, Cut
    <3>5. SubSeq(x, HeaderLen + 1, m) \in Seq(Nat)
      <4>1. \A i \in (HeaderLen + 1)..m : x[i] \in Nat
        <5>1. \A i \in (HeaderLen + 1)..m : i \in 1..Len(x)
          BY <1>1, <2>1
        <5>2. QED
          BY <5>1, ElementOfSeq
      <4>2. HeaderLen + 1 \in Int /\ m \in Int
        BY <1>1, <2>1
      <4>3. QED
        BY <4>1, <4>2, SubSeqProperties
    <3>6. Encode(c) = Cat(Header(c), c.data)
      BY DEF Encode, Cat
    <3> DEFINE p == SubSeq(x, 1, HeaderLen)
               q == SubSeq(x, HeaderLen + 1, m)
    <3> HIDE DEF p, q
    <3>7. Cat(p, q) = Cat(Header(c), c.data) /\ p \in Seq(Nat) /\ q \in Seq(Nat) /\ Len(p) = Len(Header(c))
      BY <1>5, <2>2, <3>2, <3>4, <3>5, <3>6 DEF p, q
    <3>8. q = c.data
      BY <1>5, <3>7, SameCut
    <3>9. QED
      BY <3>8 DEF q
  <2>7. QED
    BY <2>2, <2>6 DEF g
<1>10. QED
  BY <1>2, <1>3, <1>8, <1>9 DEF c, n, r

-----------------------------------------------------------------------------
(* The copier.                                                               *)

BadStream(sent) == \E i \in 1..Len(sent) : sent[i].stream \notin Streams

(* Of a container: what was handed on are the payloads of the first chunks,  *)
(* and what follows them is in the buffer, on the connection or lost with    *)
(* it.  The copier has ended because of a stream that is none, or with the   *)
(* connection, and then with every chunk unless bytes were lost.             *)
CopiesFrames(w, c) ==
    /\ c.pc \in {"off", "header", "frame", "write", "eof", "failed"}
    /\ Len(c.handed) <= Len(w.sent)
    /\ \A i \in 1..Len(c.handed) : c.handed[i] = w.sent[i].data
    /\ \E lost \in Seq(Nat) :
          /\ Rest(w.sent, Len(c.handed)) = Cat(c.buf, Cat(w.bytes, lost))
          /\ w.cut \/ lost = <<>>
    /\ w.state = "open" => ~w.cut
    /\ c.pc \in {"frame", "write"} => Len(c.buf) >= HeaderLen
    /\ c.pc = "write" => Len(c.buf) >= HeaderLen + c.buf[HeaderLen]
    /\ c.pc \in {"eof", "failed"} =>
          BadStream(w.sent) \/ (w.state # "open" /\ (w.cut \/ Len(c.handed) = Len(w.sent)))

\* The payloads of the chunks.
DataOf(sent) == [i \in 1..Len(sent) |-> sent[i].data]

(* Of a process: what was handed on, what was read and what is in the pipe   *)
(* make up the output.                                                       *)
CopiesBytes(w, c) ==
    /\ c.pc \in {"off", "raw", "rawwrite", "eof"}
    /\ Cat(FlattenSeq(c.handed), Cat(c.buf, w.bytes)) = FlattenSeq(DataOf(w.sent))
    /\ c.pc # "rawwrite" => c.buf = <<>>
    /\ c.pc = "eof" => w.state # "open" /\ w.bytes = <<>>
    /\ ~w.cut

Wire == [bytes : Seq(Nat), state : {"open", "eof", "broken"}, sent : Seq(Chunk), cut : BOOLEAN]

Copying == [pc : {"off", "header", "frame", "write", "raw", "rawwrite", "eof", "failed"},
            buf : Seq(Nat), cap : Nat, handed : Seq(Seq(Nat))]

CopyInv(host, w, c) ==
    /\ w \in Wire /\ c \in Copying
    /\ host => CopiesBytes(w, c)
    /\ ~host => CopiesFrames(w, c)

LEMMA CopyFields ==
    ASSUME NEW w \in Wire, NEW c \in Copying
    PROVE  /\ w.bytes \in Seq(Nat) /\ Len(w.bytes) \in Nat /\ w.state \in {"open", "eof", "broken"}
           /\ w.sent \in Seq(Chunk) /\ Len(w.sent) \in Nat /\ w.cut \in BOOLEAN
           /\ c.buf \in Seq(Nat) /\ Len(c.buf) \in Nat /\ c.cap \in Nat
           /\ c.handed \in Seq(Seq(Nat)) /\ Len(c.handed) \in Nat
BY LenProperties DEF Wire, Copying

LEMMA DataIs ==
    ASSUME NEW sent \in Seq(Chunk)
    PROVE  /\ DataOf(sent) \in Seq(Seq(Nat)) /\ Len(DataOf(sent)) = Len(sent)
           /\ \A i \in 1..Len(sent) : DataOf(sent)[i] = sent[i].data
<1>1. Len(sent) \in Nat
  BY LenProperties
<1>2. ASSUME NEW i \in 1..Len(sent) PROVE sent[i].data \in Seq(Nat)
  <2>1. sent[i] \in Chunk
    BY ElementOfSeq
  <2>2. QED
    BY <2>1 DEF Chunk
<1>3. DataOf(sent) \in [1..Len(sent) -> Seq(Nat)]
  BY <1>2 DEF DataOf
<1>4. QED
  BY <1>1, <1>3, FunctionIsSeq DEF DataOf

LEMMA DataAppend ==
    ASSUME NEW sent \in Seq(Chunk), NEW c \in Chunk
    PROVE  FlattenSeq(DataOf(Append(sent, c))) = Cat(FlattenSeq(DataOf(sent)), c.data)
<1> DEFINE more == Append(sent, c)
           d == DataOf(sent)
           m == DataOf(more)
           e == c.data
<1>1. Len(sent) \in Nat
  BY LenProperties
<1>2. more \in Seq(Chunk) /\ Len(more) = Len(sent) + 1 /\ more[Len(sent) + 1] = c
      /\ \A i \in 1..Len(sent) : more[i] = sent[i]
  BY AppendProperties
<1> HIDE DEF more
<1>3. d \in Seq(Seq(Nat)) /\ Len(d) = Len(sent) /\ \A i \in 1..Len(sent) : d[i] = sent[i].data
  BY DataIs
<1>4. m \in Seq(Seq(Nat)) /\ Len(m) = Len(more) /\ \A i \in 1..Len(more) : m[i] = more[i].data
  BY <1>2, DataIs
<1>5. e \in Seq(Nat)
  BY EncodeIs
<1> HIDE DEF d, m
<1>6. m = Append(d, e)
  <2>1. Append(d, e) \in Seq(Seq(Nat)) /\ Len(Append(d, e)) = Len(d) + 1
        /\ Append(d, e)[Len(d) + 1] = e /\ \A i \in 1..Len(d) : Append(d, e)[i] = d[i]
    BY <1>3, <1>5, AppendProperties
  <2>2. ASSUME NEW i \in 1..Len(m) PROVE m[i] = Append(d, e)[i]
    <3>1. i \in 1..Len(more) /\ (i = Len(sent) + 1 \/ i \in 1..Len(sent))
      BY <1>1, <1>2, <1>4
    <3>2. m[i] = more[i].data
      BY <1>4, <3>1
    <3>3. QED
      BY <1>2, <1>3, <2>1, <3>1, <3>2
  <2>3. QED
    BY <1>2, <1>3, <1>4, <2>1, <2>2, SeqEqual
<1> HIDE DEF e
<1>7. FlattenSeq(Append(d, e)) = FlattenSeq(d) \o e
  BY <1>3, <1>5, FlattenAppend
<1>8. QED
  BY <1>6, <1>7 DEF m, more, d, e, Cat

\* A byte less of the connection is a byte more in the buffer.
LEMMA MovedOver ==
    ASSUME NEW b \in Seq(Nat), NEW p \in Seq(Nat), NEW n \in 0..Len(p), NEW z \in Seq(Nat)
    PROVE  Cat(Cat(b, SubSeq(p, 1, n)), Cat(SubSeq(p, n + 1, Len(p)), z)) = Cat(b, Cat(p, z))
<1> DEFINE f == SubSeq(p, 1, n)
           g == SubSeq(p, n + 1, Len(p))
<1>1. f \in Seq(Nat) /\ g \in Seq(Nat) /\ Cat(f, g) = p
  BY Cut
<1> HIDE DEF f, g
<1>2. Cat(g, z) \in Seq(Nat)
  BY <1>1, CatIs
<1>3. Cat(Cat(b, f), Cat(g, z)) = Cat(b, Cat(f, Cat(g, z)))
  BY <1>1, <1>2, CatAssociates
<1>4. Cat(f, Cat(g, z)) = Cat(Cat(f, g), z)
  BY <1>1, CatAssociates
<1>5. QED
  BY <1>1, <1>3, <1>4 DEF f, g

LEMMA CopyBegins ==
    ASSUME NEW host, NEW w, NEW c,
           w = [bytes |-> <<>>, state |-> "open", sent |-> <<>>, cut |-> FALSE],
           c = [pc |-> "off", buf |-> <<>>, cap |-> 0, handed |-> <<>>]
    PROVE  CopyInv(host, w, c)
<1>1. w \in Wire /\ c \in Copying
  BY DEF Wire, Copying
<1>2. <<>> \in Seq(Nat) /\ <<>> \in Seq(Chunk) /\ Len(<<>>) = 0
  OBVIOUS
<1>3. Rest(<<>>, 0) = <<>>
  BY <1>2, RestOfAll
<1>4. Cat(<<>>, <<>>) = <<>>
  BY <1>2, CatEmpty
<1>5. CopiesFrames(w, c)
  <2>1. /\ w.sent = <<>> /\ c.handed = <<>> /\ c.buf = <<>> /\ w.bytes = <<>> /\ ~w.cut
        /\ c.pc = "off"
    OBVIOUS
  <2>2. /\ Rest(w.sent, Len(c.handed)) = Cat(c.buf, Cat(w.bytes, <<>>))
        /\ w.cut \/ <<>> = <<>>
    BY <1>2, <1>3, <1>4, <2>1
  <2>3. \E lost \in Seq(Nat) :
          /\ Rest(w.sent, Len(c.handed)) = Cat(c.buf, Cat(w.bytes, lost))
          /\ w.cut \/ lost = <<>>
    BY <1>2, <2>2
  <2>4. Len(c.handed) <= Len(w.sent) /\ \A i \in 1..Len(c.handed) : c.handed[i] = w.sent[i].data
    BY <1>2, <2>1
  <2>5. QED
    BY <2>1, <2>3, <2>4 DEF CopiesFrames
<1>6. DataOf(<<>>) = <<>>
  BY <1>2, DataIs, EmptySeq
<1>7. CopiesBytes(w, c)
  BY <1>4, <1>6, FlattenEmpty DEF CopiesBytes
<1>8. QED
  BY <1>1, <1>5, <1>7 DEF CopyInv

\* A change of the copier's place and the length of its buffer alone.
LEMMA CopyGoes ==
    ASSUME NEW host, NEW w, NEW c, CopyInv(host, w, c),
           NEW pc \in {"off", "header", "frame", "write", "raw", "rawwrite", "eof", "failed"},
           NEW cap \in Nat,
           NEW d, d = [c EXCEPT !.pc = pc, !.cap = cap],
           host => /\ pc \in {"raw", "eof"} /\ c.buf = <<>>
                   /\ pc = "eof" => w.state # "open" /\ w.bytes = <<>>,
           ~host => /\ pc \notin {"raw", "rawwrite"}
                    /\ pc \in {"frame", "write"} => Len(c.buf) >= HeaderLen
                    /\ pc = "write" => Len(c.buf) >= HeaderLen + c.buf[HeaderLen]
                    /\ pc \in {"eof", "failed"} =>
                          BadStream(w.sent) \/ (w.state # "open" /\ (w.cut \/ Len(c.handed) = Len(w.sent)))
    PROVE  CopyInv(host, w, d)
<1>1. w \in Wire /\ c \in Copying
  BY DEF CopyInv
<1>2. d \in Copying /\ d.pc = pc /\ d.buf = c.buf /\ d.handed = c.handed
  BY <1>1 DEF Copying
<1>3. host => CopiesBytes(w, d)
  BY <1>2 DEF CopyInv, CopiesBytes
<1>4. ASSUME ~host PROVE CopiesFrames(w, d)
  <2>1. CopiesFrames(w, c)
    BY <1>4 DEF CopyInv
  <2>2. d.pc \in {"off", "header", "frame", "write", "eof", "failed"}
    BY <1>2, <1>4
  <2>3. QED
    BY <1>2, <1>4, <2>1, <2>2 DEF CopiesFrames
<1>5. QED
  BY <1>1, <1>2, <1>3, <1>4 DEF CopyInv

LEMMA ReadSomeCopies ==
    ASSUME NEW host, CopyInv(host, wire, copier), NEW n \in 1..Len(wire.bytes), ReadSome(n)
    PROVE  CopyInv(host, wire', copier')
<1>1. wire \in Wire /\ copier \in Copying
  BY DEF CopyInv
<1>2. copier.pc \in {"header", "frame"} /\ ~host
  BY DEF ReadSome, CopyInv, CopiesBytes
<1> DEFINE f == SubSeq(wire.bytes, 1, n)
           g == SubSeq(wire.bytes, n + 1, Len(wire.bytes))
           b == Cat(copier.buf, f)
<1>3. /\ wire.bytes \in Seq(Nat) /\ copier.buf \in Seq(Nat) /\ n \in 0..Len(wire.bytes)
      /\ Len(copier.buf) \in Nat
  BY <1>1, CopyFields
<1>4. f \in Seq(Nat) /\ g \in Seq(Nat)
  BY <1>3, Cut
<1>5. b \in Seq(Nat) /\ Len(b) = Len(copier.buf) + Len(f) /\ Len(f) \in Nat
      /\ \A i \in 1..(Len(copier.buf) + Len(f)) :
            b[i] = IF i <= Len(copier.buf) THEN copier.buf[i] ELSE f[i - Len(copier.buf)]
  <2> HIDE DEF f
  <2>1. QED
    BY <1>3, <1>4, CatIs
<1>6. ASSUME NEW z \in Seq(Nat)
      PROVE  Cat(b, Cat(g, z)) = Cat(copier.buf, Cat(wire.bytes, z))
  BY <1>3, MovedOver
<1>7. /\ copier' = [copier EXCEPT !.buf = b] /\ wire' = [wire EXCEPT !.bytes = g]
  BY DEF ReadSome, Cat
<1> HIDE DEF b, g
<1>8. /\ wire' \in Wire /\ wire'.bytes = g /\ wire'.state = wire.state /\ wire'.sent = wire.sent
      /\ wire'.cut = wire.cut
  BY <1>1, <1>4, <1>7 DEF Wire
<1>9. /\ copier' \in Copying /\ copier'.pc = copier.pc /\ copier'.buf = b
      /\ copier'.handed = copier.handed
  BY <1>1, <1>5, <1>7 DEF Copying
<1>10. CopiesFrames(wire, copier)
  BY <1>2 DEF CopyInv
<1>11. PICK lost \in Seq(Nat) :
          /\ Rest(wire.sent, Len(copier.handed)) = Cat(copier.buf, Cat(wire.bytes, lost))
          /\ wire.cut \/ lost = <<>>
  BY <1>10 DEF CopiesFrames
<1>12. Rest(wire.sent, Len(copier.handed)) = Cat(b, Cat(g, lost))
  BY <1>6, <1>11
<1>13. copier.pc = "frame" => Len(b) >= HeaderLen
  <2>1. copier.pc = "frame" => Len(copier.buf) >= HeaderLen
    BY <1>10 DEF CopiesFrames
  <2>2. HeaderLen \in Nat
    BY StdCopyAssumption
  <2>3. QED
    BY <1>3, <1>5, <2>1, <2>2
<1>14. CopiesFrames(wire', copier')
  <2>1. \E z \in Seq(Nat) :
          /\ Rest(wire'.sent, Len(copier'.handed)) = Cat(copier'.buf, Cat(wire'.bytes, z))
          /\ wire'.cut \/ z = <<>>
    BY <1>8, <1>9, <1>11, <1>12
  <2>2. QED
    BY <1>2, <1>8, <1>9, <1>10, <1>13, <2>1 DEF CopiesFrames
<1>15. QED
  BY <1>2, <1>8, <1>9, <1>14 DEF CopyInv

\* What the buffer shows of the next frame.
LEMMA NextFrame ==
    ASSUME NEW w, NEW c, CopyInv(FALSE, w, c), Len(c.buf) >= HeaderLen
    PROVE  LET k == Len(c.handed) n == c.buf[HeaderLen] IN
           /\ k < Len(w.sent) /\ k + 1 \in 1..Len(w.sent) /\ n \in Nat
           /\ c.buf[1] = w.sent[k + 1].stream /\ n = Len(w.sent[k + 1].data)
           /\ Len(c.buf) >= HeaderLen + n =>
                 /\ SubSeq(c.buf, HeaderLen + 1, HeaderLen + n) = w.sent[k + 1].data
                 /\ SubSeq(c.buf, HeaderLen + n + 1, Len(c.buf)) \in Seq(Nat)
                 /\ \E lost \in Seq(Nat) :
                       /\ Rest(w.sent, k + 1) = Cat(SubSeq(c.buf, HeaderLen + n + 1, Len(c.buf)),
                                                    Cat(w.bytes, lost))
                       /\ w.cut \/ lost = <<>>
<1> DEFINE k == Len(c.handed)
           n == c.buf[HeaderLen]
<1>1. w \in Wire /\ c \in Copying /\ CopiesFrames(w, c)
  BY DEF CopyInv
<1>2. /\ w.bytes \in Seq(Nat) /\ w.sent \in Seq(Chunk) /\ Len(w.sent) \in Nat
      /\ c.buf \in Seq(Nat) /\ k \in Nat /\ k <= Len(w.sent)
  BY <1>1, CopyFields DEF CopiesFrames
<1>3. k \in 0..Len(w.sent)
  BY <1>2
<1>4. PICK lost \in Seq(Nat) :
          /\ Rest(w.sent, k) = Cat(c.buf, Cat(w.bytes, lost))
          /\ w.cut \/ lost = <<>>
  BY <1>1 DEF CopiesFrames
<1> DEFINE y == Cat(w.bytes, lost)
           x == c.buf
           sent == w.sent
<1>5. y \in Seq(Nat) /\ x \in Seq(Nat) /\ sent \in Seq(Chunk)
  BY <1>2, CatIs
<1>6. Rest(sent, k) = Cat(x, y) /\ Len(x) >= HeaderLen
  BY <1>4
<1> HIDE DEF y, k
<1>7. /\ k < Len(sent) /\ k + 1 \in 0..Len(sent) /\ sent[k + 1] \in Chunk
      /\ x[1] = sent[k + 1].stream /\ x[HeaderLen] = Len(sent[k + 1].data)
      /\ Len(x) >= HeaderLen + x[HeaderLen] =>
            /\ SubSeq(x, HeaderLen + 1, HeaderLen + x[HeaderLen]) = sent[k + 1].data
            /\ SubSeq(x, HeaderLen + x[HeaderLen] + 1, Len(x)) \in Seq(Nat)
            /\ Rest(sent, k + 1) = Cat(SubSeq(x, HeaderLen + x[HeaderLen] + 1, Len(x)), y)
  <2> HIDE DEF x, sent
  <2>1. QED
    BY <1>3, <1>5, <1>6, FrontFrame DEF sent
<1>8. n \in Nat /\ k + 1 \in 1..Len(w.sent)
  <2>1. n = Len(sent[k + 1].data) /\ sent[k + 1] \in Chunk
    BY <1>7
  <2>2. QED
    BY <1>3, <1>7, <2>1, EncodeIs
<1>9. QED
  BY <1>4, <1>7, <1>8 DEF y, k

LEMMA ReadEndCopies ==
    ASSUME NEW host, CopyInv(host, wire, copier), ReadEnd
    PROVE  CopyInv(host, wire', copier')
<1>1. wire \in Wire /\ copier \in Copying
  BY DEF CopyInv
<1>2. copier.pc \in {"header", "frame"} /\ ~host /\ wire' = wire
  BY DEF ReadEnd, CopyInv, CopiesBytes
<1>3. CopyInv(FALSE, wire, copier) /\ CopiesFrames(wire, copier)
  BY <1>2 DEF CopyInv
<1> DEFINE k == Len(copier.handed)
<1>4. /\ Len(copier.buf) < Needed /\ wire.bytes = <<>> /\ wire.state # "open"
      /\ k \in 0..Len(wire.sent) /\ HeaderLen \in Nat /\ HeaderLen >= 2
      /\ Len(copier.buf) \in Nat /\ wire.sent \in Seq(Chunk) /\ copier.buf \in Seq(Nat)
      /\ Len(wire.sent) \in Nat
  <2>1. k \in Nat /\ Len(wire.sent) \in Nat /\ k <= Len(wire.sent)
    BY <1>1, <1>3, CopyFields DEF CopiesFrames
  <2>2. k \in 0..Len(wire.sent)
    BY <2>1
  <2>3. QED
    BY <1>1, <2>1, <2>2, CopyFields, StdCopyAssumption DEF ReadEnd
<1>5. ASSUME ~wire.cut, k # Len(wire.sent) PROVE FALSE
  <2>1. PICK lost \in Seq(Nat) :
          /\ Rest(wire.sent, k) = Cat(copier.buf, Cat(wire.bytes, lost))
          /\ wire.cut \/ lost = <<>>
    BY <1>3 DEF CopiesFrames
  <2>2. Cat(<<>>, <<>>) = <<>> /\ Cat(copier.buf, <<>>) = copier.buf
    <3>1. <<>> \in Seq(Nat)
      OBVIOUS
    <3>2. QED
      BY <1>4, <3>1, CatEmpty
  <2>3. Rest(wire.sent, k) = copier.buf
    BY <1>4, <1>5, <2>1, <2>2
  <2>4. k < Len(wire.sent)
    BY <1>4, <1>5
  <2> DEFINE c == wire.sent[k + 1]
             r == Rest(wire.sent, k + 1)
  <2>5. c \in Chunk /\ k + 1 \in 0..Len(wire.sent) /\ copier.buf = Cat(Encode(c), r)
    BY <1>4, <2>3, <2>4, RestFirst
  <2>6. r \in Seq(Nat)
    BY <1>4, <2>5, RestType
  <2> HIDE DEF c, r
  <2>7. Encode(c) \in Seq(Nat) /\ Len(Encode(c)) = HeaderLen + Len(c.data) /\ Len(c.data) \in Nat
    BY <2>5, EncodeIs
  <2>8. Len(copier.buf) = Len(Encode(c)) + Len(r) /\ Len(r) \in Nat
    BY <2>5, <2>6, <2>7, CatIs
  <2>9. Len(copier.buf) >= HeaderLen + Len(c.data)
    BY <1>4, <2>7, <2>8
  <2>10. FrameSize = Len(c.data)
    <3>1. Len(copier.buf) >= HeaderLen
      BY <1>4, <2>7, <2>9
    <3>2. QED
      BY <1>3, <3>1, NextFrame DEF FrameSize, c
  <2>11. QED
    BY <1>2, <1>4, <2>7, <2>9, <2>10 DEF Needed
<1> DEFINE end == IF wire.state = "eof" THEN "eof" ELSE "failed"
<1>6. copier' = [copier EXCEPT !.pc = end, !.cap = copier.cap]
  BY <1>1 DEF ReadEnd, Copying
<1>7. end \in {"eof", "failed"}
  OBVIOUS
<1> HIDE DEF end
<1>8. copier.cap \in Nat
  BY <1>1, CopyFields
<1>9. CopyInv(host, wire, copier')
  BY <1>2, <1>4, <1>5, <1>6, <1>7, <1>8, CopyGoes
<1>10. QED
  BY <1>2, <1>9

LEMMA HeaderDoneCopies ==
    ASSUME NEW host, CopyInv(host, wire, copier), HeaderDone
    PROVE  CopyInv(host, wire', copier')
<1>1. wire \in Wire /\ copier \in Copying
  BY DEF CopyInv
<1>2. copier.pc = "header" /\ ~host /\ wire' = wire /\ Len(copier.buf) >= HeaderLen
  BY DEF HeaderDone, Copies, CopyInv, CopiesBytes
<1>3. CopyInv(FALSE, wire, copier)
  BY <1>2 DEF CopyInv
<1> DEFINE k == Len(copier.handed)
<1>4. /\ k + 1 \in 1..Len(wire.sent) /\ copier.buf[1] = wire.sent[k + 1].stream
      /\ FrameSize \in Nat
  BY <1>2, <1>3, NextFrame DEF FrameSize
<1>5. copier.cap \in Nat /\ Extend(FrameSize) \in Nat
  BY <1>1, <1>4, CopyFields, StdCopyAssumption DEF Extend
<1>6. CASE copier.buf[1] \in Streams
  <2>1. copier' = [copier EXCEPT !.pc = "frame", !.cap = Extend(FrameSize)]
    BY <1>6 DEF HeaderDone
  <2>2. CopyInv(host, wire, copier')
    BY <1>2, <1>5, <2>1, CopyGoes
  <2>3. QED
    BY <1>2, <2>2
<1>7. CASE copier.buf[1] \notin Streams
  <2>1. copier' = [copier EXCEPT !.pc = "failed", !.cap = copier.cap]
    BY <1>1, <1>7 DEF HeaderDone, Copying
  <2>2. BadStream(wire.sent)
    BY <1>4, <1>7 DEF BadStream
  <2>3. CopyInv(host, wire, copier')
    BY <1>2, <1>5, <2>1, <2>2, CopyGoes
  <2>4. QED
    BY <1>2, <2>3
<1>8. QED
  BY <1>6, <1>7

LEMMA FrameDoneCopies ==
    ASSUME NEW host, CopyInv(host, wire, copier), FrameDone
    PROVE  CopyInv(host, wire', copier')
<1>1. wire \in Wire /\ copier \in Copying
  BY DEF CopyInv
<1>2. copier.pc = "frame" /\ ~host /\ wire' = wire
  BY DEF FrameDone, Copies, CopyInv, CopiesBytes
<1>3. CopyInv(FALSE, wire, copier) /\ Len(copier.buf) >= HeaderLen
  BY <1>2 DEF CopyInv, CopiesFrames
<1>4. Len(copier.buf) >= HeaderLen + copier.buf[HeaderLen]
  BY <1>2 DEF FrameDone, Needed, FrameSize
<1>5. copier' = [copier EXCEPT !.pc = "write", !.cap = copier.cap] /\ copier.cap \in Nat
  BY <1>1, CopyFields DEF FrameDone, Copying
<1>6. CopyInv(host, wire, copier')
  BY <1>2, <1>3, <1>4, <1>5, CopyGoes
<1>7. QED
  BY <1>2, <1>6

\* What is written is the payload of the next chunk.
LEMMA PayloadIs ==
    ASSUME NEW host, CopyInv(host, wire, copier), copier.pc = "write"
    PROVE  /\ ~host /\ Len(copier.handed) + 1 \in 1..Len(wire.sent)
           /\ Payload = wire.sent[Len(copier.handed) + 1].data
           /\ Payload \in Seq(Nat) /\ Len(Payload) = FrameSize
<1>1. ~host
  BY DEF CopyInv, CopiesBytes
<1>2. /\ CopyInv(FALSE, wire, copier) /\ wire \in Wire /\ copier \in Copying
      /\ CopiesFrames(wire, copier)
  BY <1>1 DEF CopyInv
<1>3. Len(copier.buf) >= HeaderLen /\ Len(copier.buf) >= HeaderLen + FrameSize
  BY <1>2 DEF CopiesFrames, FrameSize
<1> DEFINE c == wire.sent[Len(copier.handed) + 1]
<1>4. /\ Len(copier.handed) + 1 \in 1..Len(wire.sent) /\ FrameSize = Len(c.data)
      /\ Payload = c.data
  BY <1>2, <1>3, NextFrame DEF FrameSize, Payload
<1>5. c \in Chunk
  <2>1. wire.sent \in Seq(Chunk)
    BY <1>2, CopyFields
  <2>2. QED
    BY <1>4, <2>1, ElementOfSeq
<1>6. QED
  BY <1>1, <1>4, <1>5, EncodeIs

LEMMA FrameWrittenCopies ==
    ASSUME NEW host, CopyInv(host, wire, copier), FrameWritten(Len(Payload))
    PROVE  CopyInv(host, wire', copier')
<1>1. wire \in Wire /\ copier \in Copying
  BY DEF CopyInv
<1>2. copier.pc = "write" /\ wire' = wire
  BY DEF FrameWritten, Copies
<1> DEFINE k == Len(copier.handed)
           b == AfterFrame(copier.buf)
<1>3. /\ ~host /\ k + 1 \in 1..Len(wire.sent) /\ Payload = wire.sent[k + 1].data
      /\ Payload \in Seq(Nat) /\ Len(Payload) = FrameSize
  BY <1>2, PayloadIs
<1>4. CopyInv(FALSE, wire, copier) /\ CopiesFrames(wire, copier)
  BY <1>3 DEF CopyInv
<1>5. Len(copier.buf) >= HeaderLen /\ Len(copier.buf) >= HeaderLen + FrameSize
  BY <1>2, <1>4 DEF CopiesFrames, FrameSize
<1>6. /\ b \in Seq(Nat)
      /\ \E lost \in Seq(Nat) : /\ Rest(wire.sent, k + 1) = Cat(b, Cat(wire.bytes, lost))
                                /\ wire.cut \/ lost = <<>>
  BY <1>4, <1>5, NextFrame DEF FrameSize, AfterFrame
<1> DEFINE h == Append(copier.handed, Payload)
<1>7. copier' = [copier EXCEPT !.pc = "header", !.buf = b, !.handed = h]
  BY <1>3 DEF FrameWritten
<1>8. /\ k \in Nat /\ h \in Seq(Seq(Nat)) /\ Len(h) = k + 1 /\ h[k + 1] = Payload
      /\ \A i \in 1..k : h[i] = copier.handed[i]
  <2>1. copier.handed \in Seq(Seq(Nat))
    BY <1>1, CopyFields
  <2>2. QED
    BY <1>3, <2>1, AppendProperties, LenProperties
<1> HIDE DEF b, h
<1>9. copier' \in Copying /\ copier'.pc = "header" /\ copier'.buf = b /\ copier'.handed = h
  BY <1>1, <1>6, <1>7, <1>8 DEF Copying
<1>10. \A i \in 1..(k + 1) : h[i] = wire.sent[i].data
  <2> SUFFICES ASSUME NEW i \in 1..(k + 1) PROVE h[i] = wire.sent[i].data
    OBVIOUS
  <2>1. i = k + 1 \/ i \in 1..k
    BY <1>8
  <2>2. QED
    BY <1>3, <1>4, <1>8, <2>1 DEF CopiesFrames
<1>11. Len(h) <= Len(wire.sent)
  BY <1>3, <1>8
<1>12. CopiesFrames(wire, copier')
  <2> HIDE DEF k
  <2>1. QED
    BY <1>4, <1>6, <1>8, <1>9, <1>10, <1>11 DEF CopiesFrames
<1>13. QED
  BY <1>1, <1>2, <1>3, <1>9, <1>12 DEF CopyInv

-----------------------------------------------------------------------------
(* The copying of a process.                                                 *)

LEMMA RawReadCopies ==
    ASSUME NEW host, CopyInv(host, wire, copier), NEW n \in 1..Len(wire.bytes), RawRead(n)
    PROVE  CopyInv(host, wire', copier')
<1>1. wire \in Wire /\ copier \in Copying
  BY DEF CopyInv
<1>2. copier.pc = "raw" /\ host
  BY DEF RawRead, CopyInv, CopiesFrames
<1>3. CopiesBytes(wire, copier) /\ copier.buf = <<>>
  BY <1>2 DEF CopyInv, CopiesBytes
<1> DEFINE f == SubSeq(wire.bytes, 1, n)
           g == SubSeq(wire.bytes, n + 1, Len(wire.bytes))
<1>4. wire.bytes \in Seq(Nat) /\ n \in 0..Len(wire.bytes)
  BY <1>1, CopyFields
<1>5. f \in Seq(Nat) /\ g \in Seq(Nat) /\ Cat(f, g) = wire.bytes
  BY <1>4, Cut
<1>6. copier' = [copier EXCEPT !.pc = "rawwrite", !.buf = f] /\ wire' = [wire EXCEPT !.bytes = g]
  BY DEF RawRead
<1> HIDE DEF f, g
<1>7. /\ wire' \in Wire /\ wire'.bytes = g /\ wire'.state = wire.state /\ wire'.sent = wire.sent
      /\ wire'.cut = wire.cut
  BY <1>1, <1>5, <1>6 DEF Wire
<1>8. /\ copier' \in Copying /\ copier'.pc = "rawwrite" /\ copier'.buf = f
      /\ copier'.handed = copier.handed
  BY <1>1, <1>5, <1>6 DEF Copying
<1>9. Cat(<<>>, wire.bytes) = wire.bytes
  BY <1>4, CatEmpty
<1>10. CopiesBytes(wire', copier')
  BY <1>3, <1>5, <1>7, <1>8, <1>9 DEF CopiesBytes
<1>11. QED
  BY <1>2, <1>7, <1>8, <1>10 DEF CopyInv

LEMMA RawEndCopies ==
    ASSUME NEW host, CopyInv(host, wire, copier), RawEnd
    PROVE  CopyInv(host, wire', copier')
<1>1. wire \in Wire /\ copier \in Copying
  BY DEF CopyInv
<1>2. copier.pc = "raw" /\ host /\ wire' = wire
  BY DEF RawEnd, Copies, CopyInv, CopiesFrames
<1>3. copier.buf = <<>> /\ wire.state # "open" /\ wire.bytes = <<>>
  BY <1>2 DEF CopyInv, CopiesBytes, RawEnd
<1>4. copier' = [copier EXCEPT !.pc = "eof", !.cap = copier.cap] /\ copier.cap \in Nat
  BY <1>1, CopyFields DEF RawEnd, Copying
<1>5. CopyInv(host, wire, copier')
  BY <1>2, <1>3, <1>4, CopyGoes
<1>6. QED
  BY <1>2, <1>5

LEMMA RawWrittenCopies ==
    ASSUME NEW host, CopyInv(host, wire, copier), RawWritten
    PROVE  CopyInv(host, wire', copier')
<1>1. wire \in Wire /\ copier \in Copying
  BY DEF CopyInv
<1>2. copier.pc = "rawwrite" /\ host /\ wire' = wire
  BY DEF RawWritten, Copies, CopyInv, CopiesFrames
<1>3. CopiesBytes(wire, copier)
  BY <1>2 DEF CopyInv
<1> DEFINE h == Append(copier.handed, copier.buf)
<1>4. copier.handed \in Seq(Seq(Nat)) /\ copier.buf \in Seq(Nat) /\ wire.bytes \in Seq(Nat)
  BY <1>1, CopyFields
<1>5. h \in Seq(Seq(Nat)) /\ FlattenSeq(h) = Cat(FlattenSeq(copier.handed), copier.buf)
      /\ FlattenSeq(copier.handed) \in Seq(Nat)
  <2>1. FlattenSeq(h) = FlattenSeq(copier.handed) \o copier.buf
    BY <1>4, FlattenAppend
  <2>2. QED
    BY <1>4, <2>1, AppendProperties, FlattenType DEF Cat
<1>6. copier' = [copier EXCEPT !.pc = "raw", !.buf = <<>>, !.handed = h]
  BY DEF RawWritten
<1> HIDE DEF h
<1>7. copier' \in Copying /\ copier'.pc = "raw" /\ copier'.buf = <<>> /\ copier'.handed = h
  <2>1. <<>> \in Seq(Nat)
    OBVIOUS
  <2>2. QED
    BY <1>1, <1>5, <1>6, <2>1 DEF Copying
<1>8. Cat(FlattenSeq(h), Cat(<<>>, wire.bytes)) = Cat(FlattenSeq(copier.handed), Cat(copier.buf, wire.bytes))
  BY <1>4, <1>5, CatEmpty, CatAssociates
<1>9. CopiesBytes(wire, copier')
  BY <1>3, <1>7, <1>8 DEF CopiesBytes
<1>10. QED
  BY <1>1, <1>2, <1>7, <1>9 DEF CopyInv

-----------------------------------------------------------------------------
(* The other end of the connection.                                          *)

LEMMA TransmitCopies ==
    ASSUME NEW host \in BOOLEAN, CopyInv(host, wire, copier), NEW chunk \in Chunk,
           Transmit(chunk, ~host), host => copier.pc # "eof"
    PROVE  CopyInv(host, wire', copier')
<1>1. wire \in Wire /\ copier \in Copying /\ wire.state = "open" /\ copier' = copier
  BY DEF CopyInv, Transmit
<1>2. /\ wire.bytes \in Seq(Nat) /\ wire.sent \in Seq(Chunk) /\ Len(wire.sent) \in Nat
      /\ copier.buf \in Seq(Nat) /\ copier.handed \in Seq(Seq(Nat)) /\ Len(copier.handed) \in Nat
  BY <1>1, CopyFields
<1> DEFINE sent == Append(wire.sent, chunk)
           e == IF ~host THEN Encode(chunk) ELSE chunk.data
           bytes == Cat(wire.bytes, e)
<1>3. e \in Seq(Nat)
  BY EncodeIs
<1>4. wire' = [wire EXCEPT !.bytes = bytes, !.sent = sent]
  BY DEF Transmit, Cat
<1>5. bytes \in Seq(Nat)
  BY <1>2, <1>3, CatIs
<1>6. /\ sent \in Seq(Chunk) /\ Len(sent) = Len(wire.sent) + 1
      /\ \A i \in 1..Len(wire.sent) : sent[i] = wire.sent[i]
  BY <1>2, AppendProperties
<1> HIDE DEF sent, bytes, e
<1>7. /\ wire' \in Wire /\ wire'.bytes = bytes /\ wire'.sent = sent /\ wire'.cut = wire.cut
      /\ wire'.state = wire.state
  BY <1>1, <1>4, <1>5, <1>6 DEF Wire
<1>8. ASSUME host PROVE CopiesBytes(wire', copier)
  <2>1. CopiesBytes(wire, copier)
    BY <1>8 DEF CopyInv
  <2>2. FlattenSeq(DataOf(sent)) = Cat(FlattenSeq(DataOf(wire.sent)), e)
    BY <1>2, <1>8, DataAppend DEF sent, e
  <2> DEFINE h == FlattenSeq(copier.handed)
             d == FlattenSeq(DataOf(wire.sent))
             bb == Cat(copier.buf, wire.bytes)
  <2>3. h \in Seq(Nat) /\ bb \in Seq(Nat) /\ Cat(h, bb) = d
    BY <1>2, <2>1, FlattenType, CatIs DEF CopiesBytes
  <2>4. Cat(copier.buf, bytes) = Cat(bb, e)
    BY <1>2, <1>3, CatAssociates DEF bytes
  <2> HIDE DEF h, bb
  <2>5. Cat(h, Cat(bb, e)) = Cat(Cat(h, bb), e)
    BY <1>3, <2>3, CatAssociates
  <2>6. Cat(h, Cat(copier.buf, bytes)) = FlattenSeq(DataOf(sent))
    BY <2>2, <2>3, <2>4, <2>5
  <2>7. QED
    BY <1>7, <1>8, <2>1, <2>6 DEF CopiesBytes, h
<1>9. ASSUME ~host PROVE CopiesFrames(wire', copier)
  <2>1. CopiesFrames(wire, copier) /\ ~wire.cut
    BY <1>1, <1>9 DEF CopyInv, CopiesFrames
  <2>2. Len(copier.handed) \in 0..Len(wire.sent)
    BY <1>2, <2>1 DEF CopiesFrames
  <2>3. Rest(sent, Len(copier.handed)) = Cat(Rest(wire.sent, Len(copier.handed)), e)
    BY <1>2, <1>9, <2>2, RestAppend DEF sent, e
  <2>4. Rest(wire.sent, Len(copier.handed)) = Cat(copier.buf, wire.bytes)
    <3>1. PICK lost \in Seq(Nat) :
            /\ Rest(wire.sent, Len(copier.handed)) = Cat(copier.buf, Cat(wire.bytes, lost))
            /\ wire.cut \/ lost = <<>>
      BY <2>1 DEF CopiesFrames
    <3>2. lost = <<>> /\ Cat(wire.bytes, <<>>) = wire.bytes
      BY <1>2, <2>1, <3>1, CatEmpty
    <3>3. QED
      BY <3>1, <3>2
  <2>5. Cat(Cat(copier.buf, wire.bytes), e) = Cat(copier.buf, bytes)
    BY <1>2, <1>3, CatAssociates DEF bytes
  <2>6. <<>> \in Seq(Nat) /\ Cat(bytes, <<>>) = bytes
    BY <1>5, CatEmpty
  <2>7. Rest(sent, Len(copier.handed)) = Cat(copier.buf, Cat(bytes, <<>>))
    BY <2>3, <2>4, <2>5, <2>6
  <2>8. \E lost \in Seq(Nat) :
          /\ Rest(wire'.sent, Len(copier.handed)) = Cat(copier.buf, Cat(wire'.bytes, lost))
          /\ wire'.cut \/ lost = <<>>
    BY <1>7, <2>6, <2>7
  <2>9. BadStream(wire.sent) => BadStream(sent)
    <3>1. \A i \in 1..Len(wire.sent) : i \in 1..Len(sent)
      BY <1>2, <1>6
    <3>2. QED
      BY <1>6, <3>1 DEF BadStream
  <2>10. Len(copier.handed) <= Len(sent)
         /\ \A i \in 1..Len(copier.handed) : copier.handed[i] = sent[i].data
    <3>1. \A i \in 1..Len(copier.handed) : i \in 1..Len(wire.sent)
      BY <1>2, <2>2
    <3>2. Len(copier.handed) <= Len(sent)
      BY <1>2, <1>6, <2>2
    <3>3. QED
      BY <1>6, <2>1, <3>1, <3>2 DEF CopiesFrames
  <2>11. QED
    BY <1>1, <1>7, <2>1, <2>8, <2>9, <2>10 DEF CopiesFrames
<1>10. QED
  BY <1>1, <1>7, <1>8, <1>9 DEF CopyInv

LEMMA HangUpCopies ==
    ASSUME NEW host, CopyInv(host, wire, copier), NEW state \in {"eof", "broken"},
           NEW n \in 0..Len(wire.bytes), HangUp(state, n), host => n = 0
    PROVE  CopyInv(host, wire', copier')
<1>1. wire \in Wire /\ copier \in Copying /\ wire.state = "open" /\ copier' = copier
  BY DEF CopyInv, HangUp
<1>2. /\ wire.bytes \in Seq(Nat) /\ Len(wire.bytes) \in Nat /\ copier.buf \in Seq(Nat)
  BY <1>1, CopyFields
<1> DEFINE k == Len(wire.bytes) - n
           f == SubSeq(wire.bytes, 1, k)
           g == SubSeq(wire.bytes, k + 1, Len(wire.bytes))
           gone == n > 0
<1>3. k \in 0..Len(wire.bytes) /\ (n = 0 => k = Len(wire.bytes))
  BY <1>2
<1>4. f \in Seq(Nat) /\ g \in Seq(Nat) /\ Cat(f, g) = wire.bytes
  <2> HIDE DEF k
  <2>1. QED
    BY <1>2, <1>3, Cut
<1>5. n = 0 => f = wire.bytes
  BY <1>2, <1>3, SubSeqFull
<1>6. wire' = [wire EXCEPT !.state = state, !.bytes = f, !.cut = gone] /\ gone \in BOOLEAN
  BY DEF HangUp
<1>7. (n = 0 => ~gone) /\ (n > 0 => gone)
  OBVIOUS
<1> HIDE DEF f, g, k, gone
<1>10. /\ wire' \in Wire /\ wire'.bytes = f /\ wire'.sent = wire.sent /\ wire'.cut = gone
      /\ wire'.state = state
  BY <1>1, <1>4, <1>6 DEF Wire
<1>8. ASSUME host PROVE CopiesBytes(wire', copier)
  <2>1. wire'.bytes = wire.bytes /\ ~wire'.cut
    BY <1>5, <1>7, <1>8, <1>10
  <2>2. QED
    BY <1>1, <1>8, <1>10, <2>1 DEF CopyInv, CopiesBytes
<1>9. ASSUME ~host PROVE CopiesFrames(wire', copier)
  <2>1. CopiesFrames(wire, copier) /\ ~wire.cut
    BY <1>1, <1>9 DEF CopyInv, CopiesFrames
  <2>2. Rest(wire.sent, Len(copier.handed)) = Cat(copier.buf, wire.bytes)
    <3>1. PICK lost \in Seq(Nat) :
            /\ Rest(wire.sent, Len(copier.handed)) = Cat(copier.buf, Cat(wire.bytes, lost))
            /\ wire.cut \/ lost = <<>>
      BY <2>1 DEF CopiesFrames
    <3>2. lost = <<>> /\ Cat(wire.bytes, <<>>) = wire.bytes
      BY <1>2, <2>1, <3>1, CatEmpty
    <3>3. QED
      BY <3>1, <3>2
  <2>3. \E lost \in Seq(Nat) :
          /\ Rest(wire'.sent, Len(copier.handed)) = Cat(copier.buf, Cat(wire'.bytes, lost))
          /\ wire'.cut \/ lost = <<>>
    <3>1. CASE n > 0
      <4>1. Rest(wire'.sent, Len(copier.handed)) = Cat(copier.buf, Cat(wire'.bytes, g)) /\ wire'.cut
        BY <1>4, <1>7, <1>10, <2>2, <3>1
      <4>2. QED
        BY <1>4, <4>1
    <3>2. CASE n = 0
      <4>1. <<>> \in Seq(Nat) /\ Cat(wire.bytes, <<>>) = wire.bytes
        BY <1>2, CatEmpty
      <4>2. Rest(wire'.sent, Len(copier.handed)) = Cat(copier.buf, Cat(wire'.bytes, <<>>))
        BY <1>5, <1>10, <2>2, <3>2, <4>1
      <4>3. QED
        BY <4>1, <4>2
    <3>3. QED
      BY <3>1, <3>2
  <2>4. copier.pc \in {"eof", "failed"} => BadStream(wire.sent)
    BY <1>1, <2>1 DEF CopiesFrames
  <2>5. wire'.state # "open"
    BY <1>10
  <2>6. QED
    BY <1>10, <2>1, <2>3, <2>4, <2>5 DEF CopiesFrames
<1>11. QED
  BY <1>1, <1>8, <1>9, <1>10 DEF CopyInv

LEMMA StartCopies ==
    ASSUME NEW host, CopyInv(host, wire, copier), IF host THEN RawStart ELSE StdCopyStart
    PROVE  CopyInv(host, wire', copier')
<1>1. wire \in Wire /\ copier \in Copying /\ copier.pc = "off" /\ wire' = wire
  BY DEF CopyInv, RawStart, StdCopyStart, Copies
<1>2. copier.cap \in Nat /\ StartingBufLen \in Nat
  BY <1>1, CopyFields, StdCopyAssumption
<1>3. ASSUME host PROVE CopyInv(host, wire, copier')
  <2>1. copier' = [copier EXCEPT !.pc = "raw", !.cap = copier.cap] /\ copier.buf = <<>>
    BY <1>1, <1>3 DEF RawStart, Copying, CopyInv, CopiesBytes
  <2>2. QED
    BY <1>2, <1>3, <2>1, CopyGoes
<1>4. ASSUME ~host PROVE CopyInv(host, wire, copier')
  <2>1. copier' = [copier EXCEPT !.pc = "header", !.cap = StartingBufLen]
    BY <1>4 DEF StdCopyStart
  <2>2. QED
    BY <1>2, <1>4, <2>1, CopyGoes
<1>5. QED
  BY <1>1, <1>3, <1>4

\* What a step of the copier leaves as it is.
LEMMA CopierReadsCopies ==
    ASSUME NEW host, CopyInv(host, wire, copier), CopierReads
    PROVE  CopyInv(host, wire', copier')
<1>1. StdCopyStep \/ RawStep
  BY DEF CopierReads
<1>2. CASE \E n \in 1..Len(wire.bytes) : ReadSome(n)
  BY <1>2, ReadSomeCopies
<1>3. CASE ReadEnd
  BY <1>3, ReadEndCopies
<1>4. CASE HeaderDone
  BY <1>4, HeaderDoneCopies
<1>5. CASE FrameDone
  BY <1>5, FrameDoneCopies
<1>6. CASE RawEnd
  BY <1>6, RawEndCopies
<1>7. CASE \E n \in 1..Len(wire.bytes) : RawRead(n)
  BY <1>7, RawReadCopies
<1>8. QED
  BY <1>1, <1>2, <1>3, <1>4, <1>5, <1>6, <1>7 DEF StdCopyStep, RawStep

LEMMA CopierDoneCopies ==
    ASSUME NEW host, CopyInv(host, wire, copier), CopierDone(Len(Piece))
    PROVE  CopyInv(host, wire', copier')
<1>1. CASE copier.pc = "write"
  BY <1>1, FrameWrittenCopies DEF CopierDone, Piece
<1>2. CASE copier.pc # "write"
  BY <1>2, RawWrittenCopies DEF CopierDone
<1>3. QED
  BY <1>1, <1>2

\* What the copier writes is a sequence of bytes.
LEMMA PieceIs ==
    ASSUME NEW host, CopyInv(host, wire, copier), copier.pc \in {"write", "rawwrite"}
    PROVE  Piece \in Seq(Nat)
<1>1. CASE copier.pc = "write"
  BY <1>1, PayloadIs DEF Piece
<1>2. CASE copier.pc = "rawwrite"
  BY <1>2, CopyFields DEF Piece, CopyInv
<1>3. QED
  BY <1>1, <1>2

-----------------------------------------------------------------------------
(* The runner.                                                               *)

Places == {"start", "idle", "print", "running", "exited", "remark", "collect", "done", "panic"}

AllPrograms == UNION {Programs(req, n) : req \in Requests, n \in 1..MaxRuns}

\* What the engine can return: nothing yet, or the state of a step that has ended.
Returned == {Pending} \cup [state : Ended, err : {<<>>}]

RunRecord ==
    [pc : Places, n : 1..MaxRuns, req : Requests, program : AllPrograms, todo : Seq(Seq(Nat)),
     parts : {Parts(req.secrets) : req \in Requests}, res : Returned, through : BOOLEAN]

RunTyped == run \in RunRecord

\* The runner holds the mutex of the log only while it has something to print.
PrintHeld ==
    stepLog.holder = "runner" =>
        run.pc \in {"print", "remark"} /\ run.todo # <<>> /\ run.req.drone

LEMMA ProgramIs ==
    ASSUME NEW p \in AllPrograms
    PROVE  IsProgram(p)
BY StepRunAssumption DEF AllPrograms

LEMMA RequestIs ==
    ASSUME NEW req \in Requests
    PROVE  /\ req \in Request /\ req.command \in Seq(Seq(Nat)) /\ req.host \in BOOLEAN
           /\ req.drone \in BOOLEAN /\ req.secrets \in Seq(Seq(Nat)) /\ req.dotenv \in BOOLEAN
           /\ req.outputs \in Seq(Declaration) /\ req.outputVars \in Seq(STRING)
           /\ req.kind \in {"Run", "RunTest", "RunTestsV2"}
BY StepRunAssumption DEF Request

LEMMA DeclaredIs ==
    ASSUME NEW req \in Requests
    PROVE  DeclaredOf(req) \in Seq(Declaration)
<1>1. req.outputs \in Seq(Declaration) /\ req.outputVars \in Seq(STRING)
  BY RequestIs
<1> DEFINE v == req.outputVars
           n == Len(v)
<1>2. n \in Nat /\ DOMAIN v = 1..n /\ \A i \in 1..n : v[i] \in STRING
  BY <1>1, LenProperties, ElementOfSeq
<1>3. AsDeclared(v) \in [1..n -> Declaration]
  <2>1. ASSUME NEW i \in 1..n
        PROVE  [Key |-> v[i], Value |-> v[i], Type |-> "STRING"] \in Declaration
    <3>1. v[i] \in STRING
      BY <1>2
    <3>2. QED
      BY <3>1 DEF Declaration
  <2>2. QED
    BY <1>2, <2>1 DEF AsDeclared
<1>4. AsDeclared(v) \in Seq(Declaration)
  BY <1>2, <1>3, FunctionIsSeq
<1>5. QED
  BY <1>1, <1>4 DEF DeclaredOf

LEMMA PrintedIs ==
    ASSUME run.req \in Requests
    PROVE  Printed \in Seq(Seq(Nat))
<1>1. Req.command \in Seq(Seq(Nat)) /\ DeclaredOf(Req) \in Seq(Declaration)
  BY RequestIs, DeclaredIs DEF Req
<1>2. <<Remark>> \in Seq(Nat)
  BY StepRunAssumption
<1> DEFINE n == Len(DeclaredOf(Req))
           more == [i \in DOMAIN DeclaredOf(Req) |-> <<Remark>>]
<1>3. n \in Nat /\ DOMAIN DeclaredOf(Req) = 1..n
  BY <1>1, LenProperties
<1>4. more \in [1..n -> Seq(Nat)]
  BY <1>2, <1>3
<1>5. more \in Seq(Seq(Nat))
  BY <1>3, <1>4, FunctionIsSeq
<1> HIDE DEF more
<1>6. Req.command \o more \in Seq(Seq(Nat))
  BY <1>1, <1>5, ConcatProperties
<1>7. <<<<Remark>>>> \in Seq(Seq(Nat)) /\ <<>> \in Seq(Seq(Nat))
  BY <1>2
<1>8. ActualCommand \in Seq(Seq(Nat))
  BY <1>6, <1>7 DEF ActualCommand, more
<1>9. <<<<Remark>>>> \o ActualCommand \in Seq(Seq(Nat))
  BY <1>7, <1>8, ConcatProperties
<1>10. QED
  BY <1>7, <1>9 DEF Printed

\* A move of the runner changes its place alone.
LEMMA RunsMoves ==
    ASSUME RunTyped, NEW from, NEW to \in Places, Runs(from, to)
    PROVE  /\ run' \in RunRecord /\ run'.req = run.req /\ run'.n = run.n /\ run'.pc = to
           /\ run'.res = run.res /\ run'.todo = run.todo /\ run'.program = run.program
           /\ run'.parts = run.parts
BY DEF RunTyped, RunRecord, Runs

LEMMA ExitRecord ==
    ASSUME RunTyped, NEW code, NEW oom, NEW reached,
           [code |-> code, oom |-> oom, reached |-> reached] \in run.program.ends,
           Exit(code, oom, reached)
    PROVE  /\ run' \in RunRecord /\ run'.req = run.req /\ run'.n = run.n /\ run'.pc = "exited"
           /\ run'.program = run.program /\ run'.todo = run.todo /\ run'.parts = run.parts
<1>1. IsProgram(run.program)
  BY ProgramIs DEF RunTyped, RunRecord
<1>2. [code |-> code, oom |-> oom, reached |-> reached] \in [code : ExitCodes, oom : BOOLEAN, reached : BOOLEAN]
  BY <1>1 DEF IsProgram
<1>3. code \in ExitCodes /\ oom \in BOOLEAN /\ reached \in BOOLEAN
  BY <1>2
<1> DEFINE s == [Exited |-> TRUE, ExitCode |-> code, OOMKilled |-> oom]
           r == [state |-> s, err |-> <<>>]
<1>4. s \in Ended
  BY <1>3 DEF Ended, State
<1> HIDE DEF s
<1>5. r \in Returned
  BY <1>4 DEF Returned
<1>6. run' = [run EXCEPT !.pc = "exited", !.through = reached, !.res = r]
  BY DEF Exit, s
<1> HIDE DEF r
<1>7. QED
  BY <1>3, <1>5, <1>6 DEF RunTyped, RunRecord, Places

\* The engine has nothing more to do with the run.
EngineBack == EngineFails \/ WaitFails \/ EngineReturns \/ CmdWaitFails

\* It leaves the place of the runner, what is to be written, and perhaps no result.
LEMMA EngineMoves ==
    ASSUME RunTyped, EngineBack
    PROVE  /\ run' \in RunRecord /\ run'.req = run.req /\ run'.n = run.n /\ run'.pc = "remark"
           /\ run'.program = run.program /\ run'.parts = run.parts /\ run'.through = run.through
           /\ \/ run.pc \in {"print", "running"} /\ run'.res = Pending
              \/ run.pc = "exited" /\ run'.res = Pending
              \/ run.pc = "exited" /\ run'.res = run.res /\ (run.req.host => copier.pc = "eof")
           /\ run.pc = "print" => run.todo = <<>>
           /\ UNCHANGED <<files, sink, results, stdCopyVars, stepLogVars>>
<1>1. PICK from \in {"print", "running", "exited"}, res \in {Pending, run.res} :
         /\ EngineGives(from, res)
         /\ from # "exited" => res = Pending
         /\ from = "exited" /\ res # Pending => (run.req.host => copier.pc = "eof")
         /\ from = "print" => run.todo = <<>>
  BY DEF EngineBack, EngineFails, WaitFails, EngineReturns, CmdWaitFails, Req
<1>2. run \in RunRecord /\ run.res \in Returned
  BY DEF RunTyped, RunRecord
<1>3. Pending \in Returned
  BY DEF Returned
<1>4. res \in Returned
  BY <1>2, <1>3
<1>5. <<<<Remark>>>> \in Seq(Seq(Nat)) /\ <<>> \in Seq(Seq(Nat))
  <2>1. <<Remark>> \in Seq(Nat)
    BY StepRunAssumption
  <2>2. QED
    BY <2>1
<1>6. PICK remarks \in Seq(Seq(Nat)) :
         run' = [run EXCEPT !.pc = "remark", !.todo = remarks, !.res = res]
  BY <1>1, <1>5 DEF EngineGives
<1>7. /\ run' \in RunRecord /\ run'.req = run.req /\ run'.n = run.n /\ run'.pc = "remark"
      /\ run'.program = run.program /\ run'.parts = run.parts /\ run'.through = run.through
      /\ run'.res = res
  BY <1>2, <1>4, <1>6 DEF RunRecord, Places
<1>8. run.pc = from /\ UNCHANGED <<files, sink, results, stdCopyVars, stepLogVars>>
  BY <1>1 DEF EngineGives
<1>9. QED
  BY <1>1, <1>7, <1>8

\* The record of the runner, by the action.
LEMMA RunStep ==
    ASSUME RunTyped, PrintHeld, [Next]_vars
    PROVE  run' \in RunRecord /\ run'.req = run.req /\ run'.parts = run.parts
<1>1. CASE UNCHANGED vars
  BY <1>1 DEF RunTyped, vars
<1>2. CASE UNCHANGED run
  BY <1>2 DEF RunTyped
<1>3. ASSUME NEW from, NEW to \in Places, Runs(from, to)
      PROVE  run' \in RunRecord /\ run'.req = run.req /\ run'.parts = run.parts
  BY <1>3, RunsMoves
<1>4. /\ run.todo \in Seq(Seq(Nat)) /\ run.req \in Requests /\ run.n \in 1..MaxRuns
      /\ run.pc \in Places /\ run.program \in AllPrograms
  BY DEF RunTyped, RunRecord
<1>5. CASE Prepare
  <2>1. Printed \in Seq(Seq(Nat))
    BY <1>4, PrintedIs
  <2>2. QED
    BY <1>5, <2>1 DEF Prepare, RunTyped, RunRecord, Places
<1>6. CASE PrintMasked
  <2>1. <<>> \in Seq(Seq(Nat))
    OBVIOUS
  <2>2. QED
    BY <1>6, <2>1 DEF PrintMasked, RunTyped, RunRecord
<1>7. CASE PrintUnlock
  <2>1. run.todo # <<>>
    BY <1>7 DEF PrintUnlock, WriteUnlock, PrintHeld
  <2>2. Tail(run.todo) \in Seq(Seq(Nat))
    BY <1>4, <2>1, HeadTailProperties
  <2>3. QED
    BY <1>7, <2>2 DEF PrintUnlock, RunTyped, RunRecord
<1>8. CASE EngineBack
  BY <1>8, EngineMoves
<1>9. CASE StepExits
  <2>1. PICK end \in run.program.ends : Exit(end.code, end.oom, end.reached)
    BY <1>9 DEF StepExits
  <2>2. IsProgram(run.program)
    BY <1>4, ProgramIs
  <2>3. end \in [code : ExitCodes, oom : BOOLEAN, reached : BOOLEAN]
    BY <2>2 DEF IsProgram
  <2>4. [code |-> end.code, oom |-> end.oom, reached |-> end.reached] = end
    BY <2>3
  <2>5. QED
    BY <2>1, <2>4, ExitRecord
<1>10. CASE RunAgain
  <2>1. PICK program \in Programs(Req, run.n + 1) :
          run' = [run EXCEPT !.pc = "idle", !.n = @ + 1, !.program = program,
                             !.res = Pending, !.through = FALSE]
    BY <1>10 DEF RunAgain
  <2>2. run.n + 1 \in 1..MaxRuns
    BY <1>4, <1>10, StepRunAssumption DEF RunAgain
  <2>3. program \in AllPrograms
    BY <1>4, <2>2 DEF AllPrograms, Req
  <2>4. Pending \in Returned
    BY DEF Returned
  <2>5. QED
    BY <2>1, <2>2, <2>3, <2>4 DEF RunTyped, RunRecord, Places
<1>11. CASE Runner
  <2>1. /\ "idle" \in Places /\ "done" \in Places /\ "panic" \in Places /\ "collect" \in Places
        /\ "running" \in Places
    BY DEF Places
  <2>2. CASE PrintLock
    BY <1>2, <2>2 DEF PrintLock, stepVars
  <2>3. QED
    BY <1>3, <1>5, <1>6, <1>7, <1>8, <1>11, <2>1, <2>2
       DEF Runner, EngineBack, MakeLog, SetupFails, Reject, PanicUnprepared, EngineStarts,
           RemarkMade, Collect, PanicCollect
<1>12. CASE Step
  BY <1>2, <1>8, <1>9, <1>10, <1>12 DEF Step, EngineBack, Output, OutputEnds, Expire, stepVars
<1>13. CASE Copier \/ (\E w \in LogWriters : SendOn(w))
            \/ (\E s \in Subscribers : Stream(s) \/ ClientLeaves(s))
  BY <1>2, <1>13 DEF Copier, CopierReads, CopyMasked, CopyLock, CopyUnlock, SendOn, Stream,
                     ClientLeaves, stepVars
<1>14. QED
  BY <1>1, <1>11, <1>12, <1>13 DEF Next

-----------------------------------------------------------------------------
(* The log of a drone step and its subscribers.                              *)

\* What a step of the whole does to the log.
LogMove ==
    \/ UNCHANGED stepLogVars
    \/ NewStepLog
    \/ Cancel
    \/ \E w \in LogWriters, data \in Seq(Nat) : WriteLock(w, data)
    \/ \E w \in LogWriters : WriteUnlock(w) \/ WriteStep(w)
    \/ \E s \in Subscribers : StreamOutput(s) \/ Leave(s)

Copied == CopyInv(run.req.host, wire, copier)

LEMMA LogMoves ==
    ASSUME RunTyped, Copied, [Next]_vars
    PROVE  LogMove
<1>1. CASE UNCHANGED vars
  BY <1>1 DEF vars, LogMove, stepLogVars
<1>2. "runner" \in LogWriters /\ "copier" \in LogWriters
  BY DEF LogWriters
<1>3. ASSUME NEW result, Return(result)
      PROVE  LogMove
  BY <1>3 DEF Return, LogMove
<1>4. CASE Reject
  BY <1>3, <1>4 DEF Reject
<1>5. CASE Collect
  BY <1>3, <1>5 DEF Collect
<1>6. CASE PrintLock
  <2>1. run.todo \in Seq(Seq(Nat)) /\ run.todo # <<>> /\ WriteLock("runner", Head(run.todo))
    BY <1>6 DEF RunTyped, RunRecord, PrintLock
  <2>2. Head(run.todo) \in Seq(Nat)
    BY <2>1, HeadTailProperties
  <2>3. QED
    BY <1>2, <2>1, <2>2 DEF LogMove
<1>7. CASE CopyLock
  <2>1. copier.pc \in {"write", "rawwrite"} /\ WriteLock("copier", Piece)
    BY <1>7 DEF CopyLock, CopierWrites
  <2>2. Piece \in Seq(Nat)
    BY <2>1, PieceIs DEF Copied
  <2>3. QED
    BY <1>2, <2>1, <2>2 DEF LogMove
<1>8. CASE Runner
  <2>1. CASE EngineBack
    BY <2>1, EngineMoves DEF LogMove
  <2>2. QED
    BY <1>2, <1>4, <1>5, <1>6, <1>8, <2>1
       DEF Runner, EngineBack, MakeLog, SetupFails, PanicUnprepared, Prepare, PrintMasked,
           PrintUnlock, EngineStarts, RemarkMade, PanicCollect, LogMove
<1>9. CASE Step
  <2>1. CASE WaitFails
    BY <2>1, EngineMoves DEF EngineBack, LogMove
  <2>2. QED
    BY <1>9, <2>1 DEF Step, Output, OutputEnds, StepExits, Exit, Expire, RunAgain, LogMove
<1>10. CASE Copier
  BY <1>2, <1>7, <1>10 DEF Copier, CopierReads, CopyMasked, CopyUnlock, LogMove
<1>11. CASE (\E w \in LogWriters : SendOn(w)) \/ \E s \in Subscribers : Stream(s) \/ ClientLeaves(s)
  BY <1>11 DEF SendOn, Stream, ClientLeaves, LogMove
<1>12. QED
  BY <1>1, <1>8, <1>9, <1>10, <1>11 DEF Next

\* What a write that holds the mutex still owes to a subscriber.
Owed(s) == IF s \in stepLog.pending \cup {stepLog.to} THEN Len(stepLog.data) ELSE 0

\* Who follows is registered and has all but what it is owed.
Follows(s) ==
    sub[s].pc = "on" =>
        /\ s \in stepLog.subscribers
        /\ sub[s].offset <= Len(stepLog.full) - Owed(s)
        /\ sub[s].got = SubSeq(stepLog.full, sub[s].offset + 1, Len(stepLog.full) - Owed(s))

(* Outside a write nothing is owed, and the bytes of a write are the last of *)
(* the output.                                                               *)
LogInv ==
    /\ StepLogTypeOK
    /\ stepLog.holder = NoOne =>
          stepLog.pending = {} /\ stepLog.to = NoOne /\ stepLog.data = <<>>
    /\ stepLog.to \notin stepLog.pending
    /\ \E before \in Seq(Nat) : stepLog.full = Cat(before, stepLog.data)
    /\ \A s \in Subscribers : Follows(s)

\* A part of a sequence.
LEMMA PartOf ==
    ASSUME NEW S, NEW s \in Seq(S), NEW o \in Nat, NEW k \in Nat, o <= k, k <= Len(s)
    PROVE  /\ SubSeq(s, o + 1, k) \in Seq(S) /\ Len(SubSeq(s, o + 1, k)) = k - o
           /\ \A i \in 1..(k - o) : SubSeq(s, o + 1, k)[i] = s[o + i]
<1>1. Len(s) \in Nat
  BY LenProperties
<1>2. ASSUME NEW i \in (o + 1)..k PROVE s[i] \in S
  <2>1. i \in 1..Len(s)
    BY <1>1
  <2>2. QED
    BY <2>1, ElementOfSeq
<1>3. SubSeq(s, o + 1, k) \in Seq(S)
  BY <1>2, SubSeqProperties
<1>4. Len(SubSeq(s, o + 1, k)) = k - o
  BY <1>1
<1>5. ASSUME NEW i \in 1..(k - o) PROVE SubSeq(s, o + 1, k)[i] = s[o + i]
  BY <1>1
<1>6. QED
  BY <1>3, <1>4, <1>5

\* The output from an offset on, before and after more of it.
LEMMA MoreOutput ==
    ASSUME NEW a \in Seq(Nat), NEW b \in Seq(Nat), NEW o \in 0..Len(a)
    PROVE  /\ SubSeq(Cat(a, b), o + 1, Len(a)) = SubSeq(a, o + 1, Len(a))
           /\ SubSeq(Cat(a, b), o + 1, Len(a) + Len(b)) = Cat(SubSeq(a, o + 1, Len(a)), b)
           /\ SubSeq(a, o + 1, Len(a)) \in Seq(Nat)
<1> DEFINE c == Cat(a, b)
           m == Len(a)
           n == Len(b)
           p == SubSeq(a, o + 1, m)
           q == SubSeq(c, o + 1, m)
           r == SubSeq(c, o + 1, m + n)
           d == Cat(p, b)
<1>1. m \in Nat /\ n \in Nat /\ c \in Seq(Nat) /\ Len(c) = m + n
      /\ \A i \in 1..(m + n) : c[i] = IF i <= m THEN a[i] ELSE b[i - m]
  BY CatIs
<1> HIDE DEF c
<1>2. o \in Nat /\ o <= m /\ m <= Len(c) /\ o <= m + n /\ m + n <= Len(c) /\ m + n \in Nat
      /\ m - o \in Nat
  BY <1>1
<1>3. p \in Seq(Nat) /\ Len(p) = m - o /\ \A i \in 1..(m - o) : p[i] = a[o + i]
  <2>1. m <= Len(a)
    BY <1>1
  <2> HIDE DEF m
  <2>2. QED
    BY <1>1, <1>2, <2>1, PartOf
<1> HIDE DEF m, n, p
<1>4. q \in Seq(Nat) /\ Len(q) = m - o /\ \A i \in 1..(m - o) : q[i] = c[o + i]
  BY <1>1, <1>2, PartOf
<1>5. r \in Seq(Nat) /\ Len(r) = m + n - o /\ \A i \in 1..(m + n - o) : r[i] = c[o + i]
  BY <1>1, <1>2, PartOf
<1> HIDE DEF q, r
<1>6. q = p
  <2>1. ASSUME NEW i \in 1..(m - o) PROVE q[i] = p[i]
    <3>1. o + i \in 1..(m + n) /\ o + i <= m
      BY <1>1, <1>2
    <3>2. QED
      BY <1>1, <1>3, <1>4, <3>1
  <2>2. QED
    BY <1>3, <1>4, <2>1, SeqEqual
<1>7. d \in Seq(Nat) /\ Len(d) = (m - o) + n
      /\ \A i \in 1..((m - o) + n) : d[i] = IF i <= m - o THEN p[i] ELSE b[i - (m - o)]
  <2>1. Len(b) = n
    BY DEF n
  <2>2. d \in Seq(Nat) /\ Len(d) = Len(p) + Len(b)
        /\ \A i \in 1..(Len(p) + Len(b)) : d[i] = IF i <= Len(p) THEN p[i] ELSE b[i - Len(p)]
    BY <1>3, CatIs
  <2> HIDE DEF d
  <2>3. QED
    BY <1>3, <2>1, <2>2
<1> HIDE DEF d
<1>8. r = d
  <2>1. ASSUME NEW i \in 1..(m + n - o) PROVE r[i] = d[i]
    <3>1. o + i \in 1..(m + n) /\ i \in 1..((m - o) + n) /\ i \in Nat
      BY <1>1, <1>2
    <3>2. r[i] = IF o + i <= m THEN a[o + i] ELSE b[o + i - m]
      <4>1. r[i] = c[o + i]
        BY <1>5
      <4>2. c[o + i] = IF o + i <= m THEN a[o + i] ELSE b[o + i - m]
        BY <1>1, <3>1
      <4>3. QED
        BY <4>1, <4>2
    <3>3. CASE i <= m - o
      <4>1. o + i <= m /\ i \in 1..(m - o)
        BY <1>1, <1>2, <3>1, <3>3
      <4>2. QED
        BY <1>3, <1>7, <3>1, <3>2, <3>3, <4>1
    <3>4. CASE ~(i <= m - o)
      <4>1. o + i - m = i - (m - o) /\ ~(o + i <= m)
        BY <1>1, <1>2, <3>1, <3>4
      <4>2. r[i] = b[i - (m - o)]
        BY <3>2, <4>1
      <4>3. QED
        BY <1>7, <3>1, <3>4, <4>2
    <3>5. QED
      BY <3>3, <3>4
  <2>2. Len(r) = Len(d)
    BY <1>1, <1>2, <1>5, <1>7
  <2>3. \A i \in 1..Len(r) : r[i] = d[i]
    BY <1>5, <2>1
  <2>4. QED
    BY <1>5, <1>7, <2>2, <2>3, SeqEqual
<1>9. QED
  BY <1>3, <1>6, <1>8 DEF p, q, r, d, m, n, c

LEMMA LogFields ==
    ASSUME StepLogTypeOK
    PROVE  /\ stepLog.full \in Seq(Nat) /\ Len(stepLog.full) \in Nat
           /\ stepLog.data \in Seq(Nat) /\ Len(stepLog.data) \in Nat
           /\ stepLog.subscribers \subseteq Subscribers /\ stepLog.pending \subseteq Subscribers
           /\ stepLog.to \in Subscribers \cup {NoOne} /\ NoOne \notin Subscribers
           /\ stepLog.holder \in LogWriters \cup {NoOne} /\ NoOne \notin LogWriters
           /\ \A s \in Subscribers : sub[s].offset \in Nat /\ sub[s].got \in Seq(Nat)
BY LenProperties, StepLogAssumption DEF StepLogTypeOK

\* A step that changes neither the output nor what is owed.
LEMMA LogSame ==
    ASSUME LogInv, StepLogTypeOK',
           stepLog'.full = stepLog.full, stepLog'.data = stepLog.data,
           stepLog'.pending = stepLog.pending, stepLog'.to = stepLog.to,
           stepLog'.holder = stepLog.holder,
           \A s \in Subscribers :
               sub'[s].pc = "on" =>
                   /\ sub[s].pc = "on" /\ sub'[s].offset = sub[s].offset /\ sub'[s].got = sub[s].got
                   /\ s \in stepLog.subscribers => s \in stepLog'.subscribers
    PROVE  LogInv'
<1>1. ASSUME NEW s \in Subscribers PROVE Follows(s)'
  BY DEF LogInv, Follows, Owed
<1>2. QED
  BY <1>1 DEF LogInv

LEMMA WriteLockLog ==
    ASSUME LogInv, NEW w \in LogWriters, NEW data \in Seq(Nat), WriteLock(w, data)
    PROVE  LogInv'
<1> DEFINE full == Cat(stepLog.full, data)
<1>1. StepLogTypeOK
  BY DEF LogInv
<1>2. /\ stepLog.full \in Seq(Nat) /\ Len(stepLog.full) \in Nat /\ stepLog.pending = {}
      /\ stepLog.to = NoOne /\ stepLog.subscribers \subseteq Subscribers /\ NoOne \notin Subscribers
      /\ Len(data) \in Nat /\ w # NoOne /\ stepLog.data = <<>>
  BY <1>1, LogFields, LenProperties DEF LogInv, WriteLock
<1>3. /\ full \in Seq(Nat) /\ Len(full) = Len(stepLog.full) + Len(data)
  BY <1>2, CatIs
<1>4. stepLog' = [stepLog EXCEPT !.holder = w, !.full = full, !.data = data,
                    !.pending = stepLog.subscribers]
      /\ sub' = sub
  BY DEF WriteLock, Cat
<1> HIDE DEF full
<1>5. /\ stepLog'.full = full /\ stepLog'.data = data /\ stepLog'.to = NoOne
      /\ stepLog'.pending = stepLog.subscribers /\ stepLog'.holder = w
      /\ stepLog'.subscribers = stepLog.subscribers
      /\ StepLogTypeOK'
  BY <1>1, <1>2, <1>3, <1>4 DEF StepLogTypeOK
<1>6. ASSUME NEW s \in Subscribers PROVE Follows(s)'
  <2>1. SUFFICES ASSUME sub[s].pc = "on"
                 PROVE  /\ s \in stepLog'.subscribers
                        /\ sub[s].offset <= Len(full) - Owed(s)'
                        /\ sub[s].got = SubSeq(full, sub[s].offset + 1, Len(full) - Owed(s)')
    BY <1>4, <1>5 DEF Follows
  <2>2. /\ s \in stepLog.subscribers /\ Owed(s) = 0
        /\ sub[s].offset <= Len(stepLog.full) - Owed(s)
        /\ sub[s].got = SubSeq(stepLog.full, sub[s].offset + 1, Len(stepLog.full) - Owed(s))
    BY <1>2, <2>1 DEF LogInv, Follows, Owed
  <2>3. Owed(s)' = Len(data)
    BY <1>5, <2>2 DEF Owed
  <2>4. sub[s].offset \in 0..Len(stepLog.full)
    BY <1>1, <1>2, <2>2, LogFields
  <2>5. Len(full) - Owed(s)' = Len(stepLog.full) /\ Len(stepLog.full) - Owed(s) = Len(stepLog.full)
    BY <1>2, <1>3, <2>2, <2>3
  <2>6. SubSeq(full, sub[s].offset + 1, Len(stepLog.full))
          = SubSeq(stepLog.full, sub[s].offset + 1, Len(stepLog.full))
    BY <1>2, <2>4, MoreOutput DEF full
  <2>7. sub[s].got = SubSeq(stepLog.full, sub[s].offset + 1, Len(stepLog.full))
    BY <2>2, <2>5
  <2>8. sub[s].offset <= Len(full) - Owed(s)'
    BY <2>4, <2>5
  <2>9. QED
    BY <1>5, <2>2, <2>5, <2>6, <2>7, <2>8
<1>7. \E before \in Seq(Nat) : stepLog'.full = Cat(before, stepLog'.data)
  BY <1>2, <1>5 DEF full
<1>8. QED
  BY <1>2, <1>5, <1>6, <1>7 DEF LogInv

LEMMA WriteUnlockLog ==
    ASSUME LogInv, NEW w \in LogWriters, WriteUnlock(w)
    PROVE  LogInv'
<1>1. StepLogTypeOK
  BY DEF LogInv
<1>2. stepLog.to = NoOne /\ stepLog.pending = {} /\ stepLog.full \in Seq(Nat) /\ NoOne \notin Subscribers
  BY <1>1, LogFields DEF WriteUnlock
<1>3. stepLog' = [stepLog EXCEPT !.holder = NoOne, !.data = <<>>] /\ sub' = sub /\ <<>> \in Seq(Nat)
  BY DEF WriteUnlock
<1>4. /\ stepLog'.full = stepLog.full /\ stepLog'.data = <<>> /\ stepLog'.to = NoOne
      /\ stepLog'.pending = {} /\ stepLog'.subscribers = stepLog.subscribers
      /\ StepLogTypeOK'
  BY <1>1, <1>2, <1>3 DEF StepLogTypeOK
<1>5. ASSUME NEW s \in Subscribers PROVE Follows(s)'
  <2>1. Owed(s) = 0 /\ Owed(s)' = 0
    BY <1>2, <1>4 DEF Owed
  <2>2. Follows(s)
    BY DEF LogInv
  <2>3. QED
    BY <1>3, <1>4, <2>1, <2>2 DEF Follows
<1>6. stepLog'.full = Cat(stepLog'.full, stepLog'.data)
  BY <1>2, <1>4, CatEmpty
<1>7. QED
  BY <1>2, <1>4, <1>5, <1>6 DEF LogInv

LEMMA WritePickLog ==
    ASSUME LogInv, NEW w \in LogWriters, NEW s \in Subscribers, WritePick(w, s)
    PROVE  LogInv'
<1>1. StepLogTypeOK
  BY DEF LogInv
<1>2. s \in stepLog.pending /\ stepLog.to = NoOne /\ NoOne \notin Subscribers /\ stepLog.holder # NoOne
  BY <1>1, LogFields DEF WritePick
<1>3. stepLog' = [stepLog EXCEPT !.to = s, !.pending = @ \ {s}] /\ sub' = sub
  BY DEF WritePick
<1>4. /\ stepLog'.full = stepLog.full /\ stepLog'.data = stepLog.data /\ stepLog'.to = s
      /\ stepLog'.pending = stepLog.pending \ {s} /\ stepLog'.subscribers = stepLog.subscribers
      /\ stepLog'.holder = stepLog.holder
      /\ StepLogTypeOK'
  BY <1>1, <1>3 DEF StepLogTypeOK
<1>5. ASSUME NEW t \in Subscribers PROVE Follows(t)'
  <2>1. t \in stepLog.pending \cup {stepLog.to} <=> t \in stepLog'.pending \cup {stepLog'.to}
    BY <1>2, <1>4
  <2>2. Owed(t)' = Owed(t)
    BY <1>4, <2>1 DEF Owed
  <2>3. Follows(t)
    BY DEF LogInv
  <2>4. QED
    BY <1>3, <1>4, <2>2, <2>3 DEF Follows
<1>6. QED
  BY <1>2, <1>4, <1>5 DEF LogInv

LEMMA WriteSendLog ==
    ASSUME LogInv, NEW w \in LogWriters, WriteSend(w)
    PROVE  LogInv'
<1> DEFINE s == stepLog.to
           more == Cat(sub[s].got, stepLog.data)
<1>1. StepLogTypeOK
  BY DEF LogInv
<1>2. /\ s \in Subscribers /\ s # NoOne /\ sub[s].pc = "on" /\ stepLog.holder # NoOne
      /\ NoOne \notin Subscribers /\ stepLog.full \in Seq(Nat) /\ stepLog.data \in Seq(Nat)
      /\ Len(stepLog.full) \in Nat /\ Len(stepLog.data) \in Nat
      /\ sub[s].got \in Seq(Nat) /\ sub[s].offset \in Nat
  BY <1>1, LogFields DEF WriteSend
<1>3. more \in Seq(Nat)
  BY <1>2, CatIs
<1>4. sub' = [sub EXCEPT ![s].got = more] /\ stepLog' = [stepLog EXCEPT !.to = NoOne]
  BY DEF WriteSend, Cat
<1> HIDE DEF more
<1>5. /\ stepLog'.full = stepLog.full /\ stepLog'.data = stepLog.data /\ stepLog'.to = NoOne
      /\ stepLog'.pending = stepLog.pending /\ stepLog'.subscribers = stepLog.subscribers
      /\ stepLog'.holder = stepLog.holder
      /\ StepLogTypeOK'
  BY <1>1, <1>2, <1>3, <1>4 DEF StepLogTypeOK
<1>6. /\ sub'[s].pc = "on" /\ sub'[s].offset = sub[s].offset /\ sub'[s].got = more
      /\ \A t \in Subscribers \ {s} : sub'[t] = sub[t]
  BY <1>1, <1>2, <1>4 DEF StepLogTypeOK
<1>7. ASSUME NEW t \in Subscribers, t = s PROVE Follows(t)'
  <2>1. PICK before \in Seq(Nat) : stepLog.full = Cat(before, stepLog.data)
    BY DEF LogInv
  <2>2. Owed(t) = Len(stepLog.data) /\ t \notin stepLog.pending
    BY <1>7 DEF Owed, LogInv
  <2>3. /\ Len(before) \in Nat /\ Len(stepLog.full) = Len(before) + Len(stepLog.data)
    BY <1>2, <2>1, CatIs
  <2>4. Len(stepLog.full) - Owed(t) = Len(before)
    BY <1>2, <2>2, <2>3
  <2>5. /\ t \in stepLog.subscribers /\ sub[t].offset <= Len(before)
        /\ sub[t].got = SubSeq(stepLog.full, sub[t].offset + 1, Len(before))
    BY <1>2, <1>7, <2>4 DEF LogInv, Follows
  <2>6. sub[t].offset \in 0..Len(before)
    BY <1>2, <1>7, <2>3, <2>5
  <2>7. /\ SubSeq(stepLog.full, sub[t].offset + 1, Len(before)) = SubSeq(before, sub[t].offset + 1, Len(before))
        /\ SubSeq(stepLog.full, sub[t].offset + 1, Len(before) + Len(stepLog.data))
             = Cat(SubSeq(before, sub[t].offset + 1, Len(before)), stepLog.data)
    <3> DEFINE o == sub[t].offset
               d == stepLog.data
    <3>1. d \in Seq(Nat) /\ o \in 0..Len(before) /\ stepLog.full = Cat(before, d)
      BY <1>2, <2>1, <2>6
    <3> HIDE DEF o, d
    <3>2. /\ SubSeq(Cat(before, d), o + 1, Len(before)) = SubSeq(before, o + 1, Len(before))
          /\ SubSeq(Cat(before, d), o + 1, Len(before) + Len(d))
               = Cat(SubSeq(before, o + 1, Len(before)), d)
      BY <3>1, MoreOutput
    <3>3. QED
      BY <3>1, <3>2 DEF o, d
  <2>8. more = SubSeq(stepLog.full, sub[t].offset + 1, Len(stepLog.full))
    BY <1>7, <2>3, <2>5, <2>7 DEF more
  <2>9. Owed(t)' = 0
    BY <1>2, <1>5, <2>2 DEF Owed
  <2>10. sub[t].offset <= Len(stepLog.full) - 0 /\ Len(stepLog.full) - 0 = Len(stepLog.full)
    BY <1>2, <2>3, <2>6
  <2>11. sub'[t].offset = sub[t].offset /\ sub'[t].got = more
    BY <1>6, <1>7
  <2>12. QED
    BY <1>5, <2>5, <2>8, <2>9, <2>10, <2>11 DEF Follows
<1>8. ASSUME NEW t \in Subscribers, t # s PROVE Follows(t)'
  <2>1. Owed(t)' = Owed(t)
    BY <1>2, <1>5, <1>8 DEF Owed
  <2>2. Follows(t) /\ sub'[t] = sub[t]
    BY <1>6, <1>8 DEF LogInv
  <2>3. QED
    BY <1>5, <2>1, <2>2 DEF Follows
<1>9. NoOne \notin stepLog.pending
  BY <1>1, LogFields
<1>10. QED
  BY <1>2, <1>5, <1>7, <1>8, <1>9 DEF LogInv

LEMMA SubscribeLog ==
    ASSUME LogInv, NEW s \in Subscribers, Subscribe(s)
    PROVE  LogInv'
<1> DEFINE got == SubSeq(stepLog.full, sub[s].offset + 1, Len(stepLog.full))
           pc == IF sub[s].offset > Len(stepLog.full) THEN "refused" ELSE "on"
<1>1. StepLogTypeOK
  BY DEF LogInv
<1>2. /\ stepLog.full \in Seq(Nat) /\ Len(stepLog.full) \in Nat /\ sub[s].offset \in Nat
      /\ stepLog.pending = {} /\ stepLog.to = NoOne /\ NoOne \notin Subscribers
  BY <1>1, LogFields DEF Subscribe, LogInv
<1>3. got \in Seq(Nat)
  <2>1. ASSUME NEW i \in (sub[s].offset + 1)..Len(stepLog.full) PROVE stepLog.full[i] \in Nat
    <3>1. i \in 1..Len(stepLog.full)
      BY <1>2
    <3>2. QED
      BY <1>2, <3>1, ElementOfSeq
  <2>2. sub[s].offset + 1 \in Int /\ Len(stepLog.full) \in Int
    BY <1>2
  <2>3. QED
    BY <2>1, <2>2, SubSeqProperties
<1>4. /\ stepLog' = [stepLog EXCEPT !.subscribers = @ \cup {s}]
      /\ sub' = [sub EXCEPT ![s].pc = pc, ![s].got = got]
  BY DEF Subscribe
<1>5. pc \in {"refused", "on"} /\ (pc = "on" => sub[s].offset <= Len(stepLog.full))
  BY <1>2
<1> HIDE DEF got, pc
<1>6. /\ stepLog'.full = stepLog.full /\ stepLog'.data = stepLog.data /\ stepLog'.to = NoOne
      /\ stepLog'.pending = {} /\ stepLog'.subscribers = stepLog.subscribers \cup {s}
      /\ stepLog'.holder = stepLog.holder
      /\ StepLogTypeOK'
  BY <1>1, <1>2, <1>3, <1>4, <1>5 DEF StepLogTypeOK
<1>7. /\ sub'[s].pc = pc /\ sub'[s].offset = sub[s].offset /\ sub'[s].got = got
      /\ \A t \in Subscribers \ {s} : sub'[t] = sub[t]
  BY <1>1, <1>4 DEF StepLogTypeOK
<1>8. ASSUME NEW t \in Subscribers PROVE Follows(t)'
  <2>1. Owed(t) = 0 /\ Owed(t)' = 0
    BY <1>2, <1>6 DEF Owed
  <2>2. CASE t = s
    <3>1. Len(stepLog.full) - 0 = Len(stepLog.full)
      BY <1>2
    <3>2. QED
      BY <1>5, <1>6, <1>7, <2>1, <2>2, <3>1 DEF Follows, got
  <2>3. CASE t # s
    <3>1. Follows(t) /\ sub'[t] = sub[t]
      BY <1>7, <2>3 DEF LogInv
    <3>2. QED
      BY <1>6, <2>1, <3>1 DEF Follows
  <2>4. QED
    BY <2>2, <2>3
<1>9. QED
  BY <1>2, <1>6, <1>8 DEF LogInv

\* A subscriber goes on, and nothing of the log but who is registered changes.
LEMMA SubscriberMoves ==
    ASSUME LogInv, NEW s \in Subscribers,
           LookTimeout(s) \/ CloseChannel(s) \/ Unsubscribe(s) \/ Leave(s)
    PROVE  LogInv'
<1>1. StepLogTypeOK
  BY DEF LogInv
<1>2. CASE LookTimeout(s) \/ CloseChannel(s)
  <2>1. PICK pc \in {"off", "closed"} : sub' = [sub EXCEPT ![s].pc = pc]
    BY <1>2 DEF LookTimeout, CloseChannel
  <2>2. stepLog' = stepLog
    BY <1>2 DEF LookTimeout, CloseChannel
  <2>3. StepLogTypeOK'
    BY <1>1, <2>1, <2>2 DEF StepLogTypeOK
  <2>4. /\ sub'[s].pc # "on" /\ \A t \in Subscribers \ {s} : sub'[t] = sub[t]
    BY <1>1, <2>1 DEF StepLogTypeOK
  <2>5. QED
    BY <2>2, <2>3, <2>4, LogSame
<1>3. CASE Unsubscribe(s)
  <2>1. sub' = [sub EXCEPT ![s].pc = "off"] /\ stepLog' = [stepLog EXCEPT !.subscribers = @ \ {s}]
    BY <1>3 DEF Unsubscribe
  <2>2. /\ stepLog'.full = stepLog.full /\ stepLog'.data = stepLog.data /\ stepLog'.to = stepLog.to
        /\ stepLog'.pending = stepLog.pending /\ stepLog'.subscribers = stepLog.subscribers \ {s}
        /\ stepLog'.holder = stepLog.holder
        /\ StepLogTypeOK'
    BY <1>1, <2>1 DEF StepLogTypeOK
  <2>3. /\ sub'[s].pc # "on" /\ \A t \in Subscribers \ {s} : sub'[t] = sub[t]
    BY <1>1, <2>1 DEF StepLogTypeOK
  <2>4. QED
    BY <2>2, <2>3, LogSame
<1>4. CASE Leave(s)
  <2>1. sub' = [sub EXCEPT ![s].left = TRUE] /\ stepLog' = stepLog
    BY <1>4 DEF Leave
  <2>2. /\ StepLogTypeOK'
        /\ \A t \in Subscribers : /\ sub'[t].pc = sub[t].pc /\ sub'[t].offset = sub[t].offset
                                  /\ sub'[t].got = sub[t].got
    BY <1>1, <2>1 DEF StepLogTypeOK
  <2>3. QED
    BY <2>1, <2>2, LogSame
<1>5. QED
  BY <1>2, <1>3, <1>4

\* The log is made, the context of the step is cancelled, a write panics.
LEMMA LogFlags ==
    ASSUME LogInv, NewStepLog \/ Cancel \/ \E w \in LogWriters : WritePanic(w)
    PROVE  LogInv'
<1>1. StepLogTypeOK
  BY DEF LogInv
<1>2. sub' = sub
  BY DEF NewStepLog, Cancel, WritePanic
<1>3. \/ stepLog' = [stepLog EXCEPT !.made = TRUE]
      \/ stepLog' = [stepLog EXCEPT !.done = TRUE]
      \/ stepLog' = [stepLog EXCEPT !.panicked = TRUE]
  BY DEF NewStepLog, Cancel, WritePanic
<1>4. /\ stepLog'.full = stepLog.full /\ stepLog'.data = stepLog.data /\ stepLog'.to = stepLog.to
      /\ stepLog'.pending = stepLog.pending /\ stepLog'.subscribers = stepLog.subscribers
      /\ stepLog'.holder = stepLog.holder
      /\ StepLogTypeOK'
  BY <1>1, <1>2, <1>3 DEF StepLogTypeOK
<1>5. QED
  BY <1>2, <1>4, LogSame

LEMMA LogInvStep ==
    ASSUME LogInv, LogMove
    PROVE  LogInv'
<1>1. CASE UNCHANGED stepLogVars
  <2>1. StepLogTypeOK'
    BY <1>1 DEF LogInv, StepLogTypeOK, stepLogVars
  <2>2. QED
    BY <1>1, <2>1, LogSame DEF stepLogVars
<1>2. CASE NewStepLog \/ Cancel \/ \E w \in LogWriters : WritePanic(w)
  BY <1>2, LogFlags
<1>3. CASE \E w \in LogWriters, data \in Seq(Nat) : WriteLock(w, data)
  BY <1>3, WriteLockLog
<1>4. CASE \E w \in LogWriters : WriteUnlock(w)
  BY <1>4, WriteUnlockLog
<1>5. CASE \E w \in LogWriters, s \in Subscribers : WritePick(w, s)
  BY <1>5, WritePickLog
<1>6. CASE \E w \in LogWriters : WriteSend(w)
  BY <1>6, WriteSendLog
<1>7. CASE \E s \in Subscribers : Subscribe(s)
  BY <1>7, SubscribeLog
<1>8. CASE \E s \in Subscribers : LookTimeout(s) \/ CloseChannel(s) \/ Unsubscribe(s) \/ Leave(s)
  BY <1>8, SubscriberMoves
<1>9. QED
  BY <1>1, <1>2, <1>3, <1>4, <1>5, <1>6, <1>7, <1>8 DEF LogMove, WriteStep, StreamOutput

\* Only the runner's write of what it has to print gives it the mutex.
LEMMA HolderIs ==
    ASSUME StepLogTypeOK, [Next]_vars, stepLog'.holder = "runner"
    PROVE  stepLog.holder = "runner" \/ PrintLock
<1>1. CASE stepLog'.holder = stepLog.holder
  BY <1>1
<1>2. ASSUME NewStepLog \/ Cancel \/ (\E w \in LogWriters : WriteStep(w))
             \/ \E s \in Subscribers : StreamOutput(s) \/ Leave(s)
      PROVE  stepLog'.holder = stepLog.holder
  BY <1>2 DEF StepLogTypeOK, NewStepLog, Cancel, WriteStep, WritePick, WriteSend, WritePanic,
              StreamOutput, LookTimeout, Subscribe, CloseChannel, Unsubscribe, Leave
<1>3. ASSUME NEW w \in LogWriters, WriteUnlock(w)
      PROVE  stepLog'.holder # "runner"
  <2>1. NoOne # "runner"
    BY StepLogAssumption DEF LogWriters
  <2>2. QED
    BY <1>3, <2>1 DEF StepLogTypeOK, WriteUnlock
<1>4. ASSUME NEW data, WriteLock("copier", data)
      PROVE  stepLog'.holder # "runner"
  BY <1>4 DEF StepLogTypeOK, WriteLock
<1>5. "runner" \in LogWriters /\ "copier" \in LogWriters
  BY DEF LogWriters
<1>6. CASE UNCHANGED vars
  BY <1>1, <1>6 DEF vars, stepLogVars
<1>7. ASSUME NEW result, Return(result)
      PROVE  stepLog'.holder = stepLog.holder
  BY <1>2, <1>7 DEF Return, stepLogVars
<1>8. CASE Runner
  BY <1>1, <1>2, <1>3, <1>5, <1>7, <1>8
     DEF Runner, MakeLog, SetupFails, Reject, PanicUnprepared, Prepare, PrintMasked, PrintUnlock,
         EngineFails, EngineStarts, EngineReturns, CmdWaitFails, EngineGives, RemarkMade, Collect,
         PanicCollect, stepLogVars
<1>9. CASE Step
  BY <1>1, <1>2, <1>9 DEF Step, Output, OutputEnds, StepExits, Exit, WaitFails, EngineGives, Expire,
                          RunAgain, stepLogVars
<1>10. CASE Copier
  BY <1>1, <1>3, <1>4, <1>5, <1>10 DEF Copier, CopierReads, CopyMasked, CopyLock, CopyUnlock,
                                       stepLogVars
<1>11. CASE (\E w \in LogWriters : SendOn(w)) \/ \E s \in Subscribers : Stream(s) \/ ClientLeaves(s)
  BY <1>1, <1>2, <1>11 DEF SendOn, Stream, ClientLeaves
<1>12. QED
  BY <1>6, <1>8, <1>9, <1>10, <1>11 DEF Next

LEMMA PrintHeldStep ==
    ASSUME RunTyped, StepLogTypeOK, PrintHeld, [Next]_vars
    PROVE  PrintHeld'
<1>1. SUFFICES ASSUME stepLog'.holder = "runner"
               PROVE  run'.pc \in {"print", "remark"} /\ run'.todo # <<>> /\ run'.req.drone
  BY DEF PrintHeld
<1>2. CASE PrintLock
  <2>1. run' = run /\ run.pc \in {"print", "remark"} /\ run.todo # <<>> /\ run.req.drone
    BY <1>2 DEF PrintLock, stepVars, Req
  <2>2. QED
    BY <2>1
<1>3. CASE stepLog.holder = "runner"
  <2>1. run.pc \in {"print", "remark"} /\ run.todo # <<>> /\ run.req.drone
    BY <1>3 DEF PrintHeld
  <2>2. SUFFICES run' = run
    BY <2>1
  <2>3. ~PrintUnlock
    <3>1. NoOne # "runner"
      BY StepLogAssumption DEF LogWriters
    <3>2. QED
      BY <1>1, <3>1 DEF PrintUnlock, WriteUnlock, StepLogTypeOK
  <2>4. CASE UNCHANGED vars
    BY <2>4 DEF vars
  <2>5. CASE Runner
    BY <2>1, <2>3, <2>5
       DEF Runner, MakeLog, SetupFails, Reject, PanicUnprepared, Prepare, PrintMasked, PrintLock,
           EngineFails, EngineStarts, EngineReturns, CmdWaitFails, EngineGives, RemarkMade, Collect,
           PanicCollect, Runs, Req, stepVars
  <2>6. CASE Step
    BY <2>1, <2>6 DEF Step, Output, OutputEnds, StepExits, Exit, WaitFails, EngineGives, Expire,
                      RunAgain, Runs, stepVars
  <2>7. CASE Copier \/ (\E w \in LogWriters : SendOn(w))
             \/ \E s \in Subscribers : Stream(s) \/ ClientLeaves(s)
    BY <2>7 DEF Copier, CopierReads, CopyMasked, CopyLock, CopyUnlock, SendOn, Stream, ClientLeaves,
                stepVars
  <2>8. QED
    BY <2>4, <2>5, <2>6, <2>7 DEF Next
<1>4. QED
  BY <1>1, <1>2, <1>3, HolderIs

-----------------------------------------------------------------------------
(* The output.                                                               *)

LEMMA CopiedStep ==
    ASSUME RunTyped, PrintHeld, Copied, [Next]_vars
    PROVE  Copied'
<1> DEFINE host == run.req.host
<1>1. run'.req.host = host /\ host \in BOOLEAN
  BY RunStep, RequestIs DEF RunTyped, RunRecord
<1>2. SUFFICES CopyInv(host, wire', copier')
  BY <1>1 DEF Copied
<1>3. CopyInv(host, wire, copier)
  BY DEF Copied
<1>4. CASE UNCHANGED stdCopyVars
  BY <1>3, <1>4 DEF stdCopyVars
<1>5. CASE UNCHANGED vars
  BY <1>3, <1>5 DEF vars
<1>6. CASE EngineStarts
  BY <1>3, <1>6, StartCopies DEF EngineStarts, Req
<1>7. CASE Output
  <2>1. PICK chunk \in Chunk : Transmit(chunk, ~host)
    <3> DEFINE n == Len(wire.sent) + 1
               chunks == run.program.chunks
    <3>1. chunks \in Seq(Chunk) /\ Len(wire.sent) \in Nat /\ Len(wire.sent) < Len(chunks)
      BY <1>3, <1>7, ProgramIs, CopyFields DEF RunTyped, RunRecord, IsProgram, CopyInv, Output
    <3>2. n \in 1..Len(chunks)
      BY <3>1, LenProperties
    <3>3. chunks[n] \in Chunk
      BY <3>1, <3>2, ElementOfSeq
    <3>4. QED
      BY <1>7, <3>3 DEF Output, Req
  <2>2. host => copier.pc # "eof"
    BY <1>3, <2>1 DEF Transmit, CopyInv, CopiesBytes
  <2>3. QED
    BY <1>1, <1>3, <2>1, <2>2, TransmitCopies
<1>8. CASE OutputEnds
  <2>1. Len(wire.bytes) \in Nat
    BY <1>3, CopyFields DEF CopyInv
  <2>2. \E state \in {"eof", "broken"}, n \in 0..Len(wire.bytes) : HangUp(state, n) /\ (host => n = 0)
    BY <1>8, <2>1 DEF OutputEnds, Req
  <2>3. QED
    BY <1>3, <2>2, HangUpCopies
<1>9. CASE CopierReads
  BY <1>3, <1>9, CopierReadsCopies
<1>10. CASE CopyMasked
  BY <1>3, <1>10, CopierDoneCopies DEF CopyMasked, WriteReturn
<1>11. CASE CopyUnlock
  BY <1>3, <1>11, CopierDoneCopies DEF CopyUnlock
<1>12. CASE RunAgain
  BY <1>12, CopyBegins DEF RunAgain
<1>13. CASE Runner
  BY <1>4, <1>6, <1>13
     DEF Runner, MakeLog, SetupFails, Reject, PanicUnprepared, Prepare, PrintMasked, PrintLock,
         PrintUnlock, EngineFails, EngineReturns, CmdWaitFails, EngineGives, RemarkMade, Collect,
         PanicCollect
<1>14. CASE Step
  BY <1>4, <1>7, <1>8, <1>12, <1>14 DEF Step, StepExits, Exit, WaitFails, EngineGives, Expire
<1>15. CASE Copier
  BY <1>4, <1>9, <1>10, <1>11, <1>15 DEF Copier, CopyLock
<1>16. CASE (\E w \in LogWriters : SendOn(w)) \/ \E s \in Subscribers : Stream(s) \/ ClientLeaves(s)
  BY <1>4, <1>16 DEF SendOn, Stream, ClientLeaves
<1>17. QED
  BY <1>5, <1>13, <1>14, <1>15, <1>16 DEF Next

LEMMA SentIs ==
    ASSUME wire \in Wire
    PROVE  /\ Sent = DataOf(wire.sent) /\ Sent \in Seq(Seq(Nat)) /\ Len(Sent) = Len(wire.sent)
           /\ \A i \in 1..Len(wire.sent) : Sent[i] = wire.sent[i].data
<1>1. wire.sent \in Seq(Chunk) /\ DOMAIN wire.sent = 1..Len(wire.sent)
  BY LenProperties DEF Wire
<1>2. Sent = DataOf(wire.sent)
  BY <1>1 DEF Sent, DataOf
<1>3. QED
  BY <1>1, <1>2, DataIs

\* The first part of a concatenation is a prefix of it.
LEMMA PrefixOfCat ==
    ASSUME NEW s \in Seq(Nat), NEW t \in Seq(Nat)
    PROVE  IsPrefix(s, Cat(s, t))
<1> DEFINE c == Cat(s, t)
           n == Len(s)
<1>1. c \in Seq(Nat) /\ Len(c) = n + Len(t) /\ n \in Nat /\ Len(t) \in Nat
      /\ \A i \in 1..(n + Len(t)) : c[i] = IF i <= n THEN s[i] ELSE t[i - n]
  BY CatIs
<1> HIDE DEF c
<1>2. n <= Len(s) /\ n <= Len(c)
  BY <1>1
<1>3. SubSeq(s, 1, n) \in Seq(Nat) /\ Len(SubSeq(s, 1, n)) = n
      /\ \A i \in 1..n : SubSeq(s, 1, n)[i] = s[i]
  <2> HIDE DEF n
  <2>1. QED
    BY <1>1, <1>2, FirstOfSeq
<1>4. SubSeq(c, 1, n) \in Seq(Nat) /\ Len(SubSeq(c, 1, n)) = n
      /\ \A i \in 1..n : SubSeq(c, 1, n)[i] = c[i]
  <2> HIDE DEF n
  <2>1. QED
    BY <1>1, <1>2, FirstOfSeq
<1> HIDE DEF n
<1>5. SubSeq(s, 1, n) = SubSeq(c, 1, n)
  <2>1. ASSUME NEW i \in 1..n PROVE SubSeq(s, 1, n)[i] = SubSeq(c, 1, n)[i]
    <3>1. i \in 1..(n + Len(t)) /\ i <= n
      BY <1>1
    <3>2. c[i] = s[i]
      BY <1>1, <3>1
    <3>3. QED
      BY <1>3, <1>4, <3>2
  <2>2. QED
    BY <1>3, <1>4, <2>1, SeqEqual
<1>6. QED
  BY <1>2, <1>5 DEF IsPrefix, c, n

\* A sequence that agrees with the beginning of another is a prefix of it.
LEMMA PrefixByElements ==
    ASSUME NEW S, NEW s \in Seq(S), NEW t \in Seq(S), Len(s) <= Len(t),
           \A i \in 1..Len(s) : s[i] = t[i]
    PROVE  IsPrefix(s, t)
<1> DEFINE n == Len(s)
<1>1. n \in Nat /\ n <= Len(s) /\ n <= Len(t)
  BY LenProperties
<1> HIDE DEF n
<1>2. SubSeq(s, 1, n) \in Seq(S) /\ Len(SubSeq(s, 1, n)) = n
      /\ \A i \in 1..n : SubSeq(s, 1, n)[i] = s[i]
  BY <1>1, FirstOfSeq
<1>3. SubSeq(t, 1, n) \in Seq(S) /\ Len(SubSeq(t, 1, n)) = n
      /\ \A i \in 1..n : SubSeq(t, 1, n)[i] = t[i]
  BY <1>1, FirstOfSeq
<1>4. \A i \in 1..n : SubSeq(s, 1, n)[i] = SubSeq(t, 1, n)[i]
  BY <1>2, <1>3 DEF n
<1>5. SubSeq(s, 1, n) = SubSeq(t, 1, n)
  BY <1>2, <1>3, <1>4, SeqEqual
<1>6. QED
  BY <1>1, <1>5 DEF IsPrefix, n

\* The copying of a process that has come to the end of the pipe.
LEMMA ProcessCopied ==
    ASSUME Copied, run.req.host, copier.pc = "eof"
    PROVE  wire.bytes = <<>> /\ FlattenSeq(copier.handed) = FlattenSeq(Sent)
<1>1. wire \in Wire /\ copier \in Copying /\ CopiesBytes(wire, copier)
  BY DEF Copied, CopyInv
<1>2. wire.bytes = <<>> /\ copier.buf = <<>>
  BY <1>1 DEF CopiesBytes
<1>3. FlattenSeq(copier.handed) \in Seq(Nat) /\ <<>> \in Seq(Nat)
  BY <1>1, CopyFields, FlattenType
<1>4. Cat(<<>>, <<>>) = <<>> /\ Cat(FlattenSeq(copier.handed), <<>>) = FlattenSeq(copier.handed)
  BY <1>3, CatEmpty
<1>5. Cat(FlattenSeq(copier.handed), Cat(<<>>, <<>>)) = FlattenSeq(DataOf(wire.sent))
  BY <1>1, <1>2 DEF CopiesBytes
<1>6. QED
  BY <1>1, <1>2, <1>4, <1>5, SentIs

LEMMA CopiedIsCopied ==
    ASSUME Copied, run.req.host \in BOOLEAN
    PROVE  OutputIsCopied
<1>1. wire \in Wire /\ copier \in Copying
  BY DEF Copied, CopyInv
<1>2. /\ wire.bytes \in Seq(Nat) /\ wire.sent \in Seq(Chunk) /\ Len(wire.sent) \in Nat
      /\ copier.buf \in Seq(Nat) /\ copier.handed \in Seq(Seq(Nat)) /\ Len(copier.handed) \in Nat
      /\ DOMAIN wire.sent = 1..Len(wire.sent)
  BY <1>1, CopyFields, LenProperties
<1> DEFINE h == FlattenSeq(copier.handed)
           d == FlattenSeq(Sent)
           whole == /\ copier.pc \in {"eof", "failed"} /\ wire.state # "open" /\ ~wire.cut
                    /\ \A i \in DOMAIN wire.sent : wire.sent[i].stream \in Streams
<1>3. CASE run.req.host
  <2>1. CopiesBytes(wire, copier)
    BY <1>3 DEF Copied, CopyInv
  <2>2. h \in Seq(Nat) /\ Cat(copier.buf, wire.bytes) \in Seq(Nat)
        /\ Cat(h, Cat(copier.buf, wire.bytes)) = d
    BY <1>1, <1>2, <2>1, FlattenType, CatIs, SentIs DEF CopiesBytes
  <2> HIDE DEF h, d
  <2>3. IsPrefix(h, d)
    BY <2>2, PrefixOfCat
  <2>4. whole => h = d
    BY <1>3, <2>1, ProcessCopied DEF CopiesBytes, h, d
  <2>5. QED
    BY <1>3, <2>3, <2>4 DEF OutputIsCopied, Req, h, d
<1>4. CASE ~run.req.host
  <2>1. CopiesFrames(wire, copier)
    BY <1>4 DEF Copied, CopyInv
  <2>2. /\ Sent \in Seq(Seq(Nat)) /\ Len(Sent) = Len(wire.sent)
        /\ \A i \in 1..Len(wire.sent) : Sent[i] = wire.sent[i].data
    BY <1>1, SentIs
  <2>3. Len(copier.handed) <= Len(Sent) /\ \A i \in 1..Len(copier.handed) : i \in 1..Len(wire.sent)
    BY <1>2, <2>1, <2>2 DEF CopiesFrames
  <2>4. \A i \in 1..Len(copier.handed) : copier.handed[i] = Sent[i]
    BY <2>1, <2>2, <2>3 DEF CopiesFrames
  <2>5. IsPrefix(copier.handed, Sent)
    BY <1>2, <2>2, <2>3, <2>4, PrefixByElements
  <2>6. ASSUME whole PROVE h = d
    <3>1. ~BadStream(wire.sent)
      BY <1>2, <2>6 DEF BadStream
    <3>2. Len(copier.handed) = Len(Sent)
      BY <2>1, <2>2, <2>6, <3>1 DEF CopiesFrames
    <3>3. copier.handed = Sent
      BY <1>2, <2>2, <2>4, <3>2, SeqEqual
    <3>4. QED
      BY <3>3
  <2>7. QED
    BY <1>4, <2>5, <2>6 DEF OutputIsCopied, Req
<1>5. QED
  BY <1>3, <1>4

-----------------------------------------------------------------------------
(* The end of a run.                                                         *)

(* Nothing is returned before the step has ended, and after a process has    *)
(* been run its pipe has been read to the end.                               *)
Ran ==
    /\ run.pc \in {"start", "idle", "print", "running"} => run.res = Pending
    /\ run.req.host /\ run.pc \in {"remark", "collect", "done"} /\ run.res.state # NoState =>
          copier.pc = "eof"

LEMMA PendingIs == Pending.state = NoState /\ Pending = [state |-> NoState, err |-> <<"run failed">>]
BY DEF Pending, Failure

LEMMA RanStep ==
    ASSUME RunTyped, PrintHeld, Ran, [Next]_vars
    PROVE  Ran'
<1>1. run'.req = run.req /\ run' \in RunRecord
  BY RunStep
<1>2. CASE UNCHANGED vars
  BY <1>2 DEF vars, stdCopyVars, Ran
<1>3. ASSUME copier' = copier \/ copier.pc # "eof", UNCHANGED run
      PROVE  Ran'
  BY <1>3 DEF Ran
<1> DEFINE Before == {"start", "idle", "print", "running"}
           After  == {"remark", "collect", "done"}
<1>4. ASSUME NEW from, NEW to \in Places, Runs(from, to), copier' = copier,
             from \in Before \/ (to \notin Before /\ (from \in After \/ to \notin After))
      PROVE  Ran'
  <2>1. run'.pc = to /\ run'.res = run.res /\ run.pc = from
    BY <1>4, RunsMoves DEF Runs
  <2>2. QED
    BY <1>1, <1>4, <2>1, PendingIs DEF Ran
<1>5. ASSUME run'.pc = run.pc, run'.res = run.res, copier' = copier
      PROVE  Ran'
  BY <1>1, <1>5 DEF Ran
<1>6. /\ "idle" \in Places /\ "done" \in Places /\ "panic" \in Places /\ "collect" \in Places
      /\ "running" \in Places
  BY DEF Places
<1>7. CASE EngineStarts
  <2>1. run'.pc = "running" /\ run'.res = run.res /\ run.pc = "print"
    BY <1>6, <1>7, RunsMoves DEF EngineStarts, Runs
  <2>2. QED
    BY <2>1 DEF Ran
<1>8. CASE Prepare
  <2>1. run'.pc = "print" /\ run'.res = run.res /\ run.pc = "idle"
    BY <1>8 DEF Prepare, RunTyped, RunRecord
  <2>2. QED
    BY <2>1 DEF Ran
<1>9. CASE PrintMasked
  <2>1. run'.pc = run.pc /\ run'.res = run.res /\ copier' = copier
    BY <1>9 DEF PrintMasked, RunTyped, RunRecord, stdCopyVars
  <2>2. QED
    BY <1>5, <2>1
<1>10. CASE PrintUnlock
  <2>1. run'.pc = run.pc /\ run'.res = run.res /\ copier' = copier
    BY <1>10 DEF PrintUnlock, RunTyped, RunRecord, stdCopyVars
  <2>2. QED
    BY <1>5, <2>1
<1>11. CASE EngineBack
  <2>1. /\ run'.pc = "remark" /\ copier' = copier
        /\ run'.res = Pending \/ (run.req.host => copier.pc = "eof")
    BY <1>11, EngineMoves DEF stdCopyVars
  <2>2. QED
    BY <1>1, <2>1, PendingIs DEF Ran
<1>12. CASE StepExits
  <2>1. run'.pc = "exited"
    BY <1>12 DEF StepExits, Exit, RunTyped, RunRecord
  <2>2. QED
    BY <2>1 DEF Ran
<1>13. CASE RunAgain
  <2>1. run'.pc = "idle" /\ run'.res = Pending
    BY <1>13 DEF RunAgain, RunTyped, RunRecord
  <2>2. QED
    BY <2>1 DEF Ran
<1>14. CASE Runner
  <2>1. CASE MakeLog \/ SetupFails \/ Reject \/ PanicUnprepared \/ RemarkMade \/ Collect
             \/ PanicCollect
    BY <1>4, <1>6, <2>1 DEF MakeLog, SetupFails, Reject, PanicUnprepared, RemarkMade, Collect,
                            PanicCollect, stdCopyVars
  <2>2. CASE PrintLock
    BY <1>5, <2>2 DEF PrintLock, stepVars, stdCopyVars
  <2>3. QED
    BY <1>7, <1>8, <1>9, <1>10, <1>11, <1>14, <2>1, <2>2 DEF Runner, EngineBack
<1>15. CASE Step
  <2>1. CASE WaitFails
    BY <1>11, <2>1 DEF EngineBack
  <2>2. CASE Output \/ OutputEnds \/ Expire
    BY <1>5, <2>2 DEF Output, OutputEnds, Expire, Transmit, HangUp, stepVars, stdCopyVars
  <2>3. QED
    BY <1>12, <1>13, <1>15, <2>1, <2>2 DEF Step
<1>16. CASE Copier
  <2>1. CASE CopierReads
    BY <1>3, <2>1 DEF CopierReads, StdCopyStep, RawStep, ReadSome, ReadEnd, HeaderDone, FrameDone,
                      RawEnd, RawRead, Copies, stepVars
  <2>2. ASSUME NEW n, CopierDone(n), UNCHANGED run
        PROVE  Ran'
    BY <1>3, <2>2 DEF CopierDone, FrameWritten, RawWritten, Copies
  <2>3. CASE CopyMasked
    BY <2>2, <2>3 DEF CopyMasked
  <2>4. CASE CopyUnlock
    BY <2>2, <2>4 DEF CopyUnlock, stepVars
  <2>5. CASE CopyLock
    BY <1>5, <2>5 DEF CopyLock, stepVars, stdCopyVars
  <2>6. QED
    BY <1>16, <2>1, <2>3, <2>4, <2>5 DEF Copier
<1>17. CASE (\E w \in LogWriters : SendOn(w)) \/ \E s \in Subscribers : Stream(s) \/ ClientLeaves(s)
  BY <1>5, <1>17 DEF SendOn, Stream, ClientLeaves, stepVars, stdCopyVars
<1>18. QED
  BY <1>2, <1>14, <1>15, <1>16, <1>17 DEF Next

-----------------------------------------------------------------------------
(* The results.                                                              *)

\* The state and the error of a result.
Outcome(result) == [state |-> result.state, err |-> result.err]

LEMMA UnreadIs ==
    ASSUME NEW res \in Returned, Success(res.state), NEW failed \in BOOLEAN
    PROVE  Outcome(WithErr(res, failed)) \in RunResult
<1>1. NoState \notin State
  BY NoStateAssumption
<1>2. res.state \in Ended /\ res.state.ExitCode = 0 /\ res \in [state : Ended, err : {<<>>}]
  BY PendingIs DEF Returned, Success
<1>3. CASE failed
  <2>1. WithErr(res, failed).state = res.state /\ WithErr(res, failed).err = <<"outputs unreadable">>
    BY <1>2, <1>3 DEF WithErr
  <2>2. QED
    BY <1>2, <2>1 DEF Outcome, RunResult
<1>4. CASE ~failed
  BY <1>2, <1>4 DEF WithErr, Outcome, RunResult
<1>5. QED
  BY <1>3, <1>4

LEMMA ReturnedIs ==
    ASSUME NEW res \in Returned
    PROVE  Outcome(res) \in RunResult
<1>1. CASE res = Pending
  <2>1. res.state = NoState /\ res.err = <<"run failed">>
    BY <1>1 DEF Pending, Failure
  <2>2. QED
    BY <2>1 DEF Outcome, RunResult
<1>2. CASE res \in [state : Ended, err : {<<>>}]
  <2>1. res.state \in Ended /\ res.err = <<>>
    BY <1>2
  <2>2. QED
    BY <2>1 DEF Outcome, RunResult
<1>3. QED
  BY <1>1, <1>2 DEF Returned

LEMMA UnrunIs == Outcome(Unrun) \in RunResult
BY DEF Unrun, Result, Failure, Outcome, RunResult

LEMMA ResultOutcome ==
    ASSUME NEW res, NEW vars2, NEW v2
    PROVE  Outcome(Result(res, vars2, v2)) = Outcome(res)
BY DEF Result, Outcome

LEMMA ReadVarsErr ==
    ASSUME NEW req, NEW fs
    PROVE  ReadVars(req, fs).err \in BOOLEAN
<1>1. ASSUME NEW file, NEW delim
      PROVE  fetchOutputVariables(file, delim).err \in BOOLEAN
  BY DEF fetchOutputVariables
<1>2. QED
  BY <1>1 DEF ReadVars, fetchExportedVarsFromEnvFile, Godotenv

LEMMA ResultOfOutcome ==
    ASSUME NEW req \in Requests, NEW res \in Returned, NEW fs, NEW sum
    PROVE  Outcome(ResultOf(req, res, fs, sum)) \in RunResult
<1>1. CASE ~ReadsOutputs(req, res)
  BY <1>1, ReturnedIs, ResultOutcome DEF ResultOf, SummaryResult
<1>2. CASE ReadsOutputs(req, res)
  <2>1. Success(res.state)
    BY <1>2 DEF ReadsOutputs
  <2>2. \A failed \in BOOLEAN : Outcome(WithErr(res, failed)) \in RunResult
    BY <2>1, UnreadIs
  <2>3. ReadVars(req, fs).err \in BOOLEAN
    BY ReadVarsErr
  <2>4. Outcome(TestResult(req, res, fs, sum)) \in RunResult
    BY <2>2, <2>3, ResultOutcome DEF TestResult
  <2>5. Outcome(DotEnvResult(req, res, fs, sum)) \in RunResult
    BY <2>2, <2>3, ResultOutcome DEF DotEnvResult
  <2>6. Outcome(PlainRunResult(req, res, fs, sum)) \in RunResult
    <3> DEFINE v2 == SummaryV2(AsOutput(req, sum))
               read == ReadVars(req, fs)
               own == Reported(req.outputs, read.vars) \cup v2
    <3>1. \/ PlainRunResult(req, res, fs, sum) = Result(WithErr(res, TRUE), NoVars, {})
          \/ PlainRunResult(req, res, fs, sum) = Result(res, read.vars, own)
          \/ PlainRunResult(req, res, fs, sum) = Result(res, sum, v2)
          \/ PlainRunResult(req, res, fs, sum) = Result(res, read.vars, {})
      <4> HIDE DEF v2, read
      <4>1. QED
        BY Zenon DEF PlainRunResult, v2, read
    <3> HIDE DEF v2, read, own
    <3>2. \A x, y : Outcome(Result(WithErr(res, TRUE), x, y)) \in RunResult
      BY <2>2, ResultOutcome
    <3>3. \A x, y : Outcome(Result(res, x, y)) \in RunResult
      BY ReturnedIs, ResultOutcome
    <3>4. QED
      BY <3>1, <3>2, <3>3
  <2>7. Outcome(PlainTestsV2Result(req, res, fs, sum)) \in RunResult
    <3>1. Outcome(Failure("outputs unreadable")) \in RunResult
      BY DEF Failure, Outcome, RunResult
    <3> DEFINE v2 == SummaryV2(AsOutput(req, sum))
               read == ReadVars(req, fs)
               own == Reported(req.outputs, read.vars) \cup v2
               tests == IF req.outputVars # <<>> THEN {} ELSE v2
    <3>2. \/ PlainTestsV2Result(req, res, fs, sum) = Result(Failure("outputs unreadable"), NoVars, {})
          \/ PlainTestsV2Result(req, res, fs, sum) = Result(res, read.vars, own)
          \/ PlainTestsV2Result(req, res, fs, sum) = Result(res, sum, v2)
          \/ PlainTestsV2Result(req, res, fs, sum) = Result(res, read.vars, tests)
      <4>1. QED
        BY Zenon DEF PlainTestsV2Result
    <3> HIDE DEF v2, read, own, tests
    <3>3. \A x, y : Outcome(Result(Failure("outputs unreadable"), x, y)) \in RunResult
      BY <3>1, ResultOutcome
    <3>4. \A x, y : Outcome(Result(res, x, y)) \in RunResult
      BY ReturnedIs, ResultOutcome
    <3>5. QED
      BY <3>2, <3>3, <3>4
  <2>8. QED
    BY <1>2, <2>4, <2>5, <2>6, <2>7, RequestIs DEF ResultOf
<1>3. QED
  BY <1>1, <1>2

-----------------------------------------------------------------------------
(* The files.                                                                *)

Line == [text : Text, by : 1..MaxRuns]
File == [there : {"absent", "locked", "present"}, lines : Seq(Line)]

LEMMA RangeOfConcat ==
    ASSUME NEW S, NEW s \in Seq(S), NEW t \in Seq(S), NEW x \in Range(s \o t)
    PROVE  x \in Range(s) \/ x \in Range(t)
<1> DEFINE c == Cat(s, t)
<1>1. c \in Seq(S) /\ Len(c) = Len(s) + Len(t) /\ Len(s) \in Nat /\ Len(t) \in Nat
      /\ \A i \in 1..(Len(s) + Len(t)) : c[i] = IF i <= Len(s) THEN s[i] ELSE t[i - Len(s)]
  BY CatIs
<1>2. x \in Range(c)
  BY DEF Cat
<1> HIDE DEF c
<1>3. DOMAIN c = 1..Len(c) /\ DOMAIN s = 1..Len(s) /\ DOMAIN t = 1..Len(t)
  BY <1>1, LenProperties
<1>4. PICK i \in 1..Len(c) : x = c[i]
  BY <1>2, <1>3 DEF Range
<1>5. CASE i <= Len(s)
  <2>1. i \in DOMAIN s /\ x = s[i]
    BY <1>1, <1>3, <1>4, <1>5
  <2>2. QED
    BY <2>1 DEF Range
<1>6. CASE ~(i <= Len(s))
  <2>1. i - Len(s) \in DOMAIN t /\ x = t[i - Len(s)]
    BY <1>1, <1>3, <1>4, <1>6
  <2>2. QED
    BY <2>1 DEF Range
<1>7. QED
  BY <1>5, <1>6

LEMMA LineToIs ==
    ASSUME NEW text \in Text, NEW i \in 1..(Len(text) + 1)
    PROVE  LineTo(text, i) \in Seq(Text)
<1> DEFINE starts == {j \in 1..i : j = 1 \/ text[j - 1] = Break}
           m == Max(starts)
           part == SubSeq(text, m, i - 1)
<1>1. text \in Seq(Token) /\ Len(text) \in Nat /\ i \in Nat
  BY LenProperties DEF Text
<1>2. m \in 1..i
  <2>1. 1 \in starts /\ starts \subseteq 0..i
    BY <1>1
  <2> HIDE DEF starts
  <2>2. Max(starts) \in starts
    BY <1>1, <2>1, GreatestOf
  <2>3. QED
    BY <2>2 DEF starts
<1> HIDE DEF m
<1>3. part \in Text
  <2>1. ASSUME NEW k \in m..(i - 1) PROVE text[k] \in Token
    <3>1. k \in 1..Len(text)
      BY <1>1, <1>2
    <3>2. QED
      BY <1>1, <3>1, ElementOfSeq
  <2>2. m \in Int /\ i - 1 \in Int
    BY <1>1, <1>2
  <2>3. QED
    BY <2>1, <2>2, SubSeqProperties DEF Text
<1> HIDE DEF part
<1>4. <<part>> \in Seq(Text) /\ <<>> \in Seq(Text)
  BY <1>3, OneElement
<1>5. LineTo(text, i) = <<part>> \/ LineTo(text, i) = <<>>
  BY DEF LineTo, part, m, starts
<1>6. QED
  BY <1>4, <1>5

LEMMA LinesInIs ==
    ASSUME NEW text \in Text
    PROVE  LinesIn(text) \in Seq(Text)
<1> DEFINE n == Len(text) + 1
           lines == [i \in 1..n |-> LineTo(text, i)]
<1>1. n \in Nat
  BY LenProperties DEF Text
<1>2. \A i \in 1..n : LineTo(text, i) \in Seq(Text)
  BY LineToIs
<1> HIDE DEF n
<1>3. lines \in [1..n -> Seq(Text)]
  BY <1>2
<1>4. lines \in Seq(Seq(Text))
  BY <1>1, <1>3, FunctionIsSeq
<1> HIDE DEF lines
<1>5. FlattenSeq(lines) \in Seq(Text)
  BY <1>4, FlattenType
<1>6. QED
  BY <1>5 DEF LinesIn, lines, n

LEMMA DeclaredLinesIs ==
    ASSUME NEW decl \in Seq(Declaration), NEW env, \A var \in DOMAIN env : env[var] \in Text,
           NEW delim \in {Blank, Equals}
    PROVE  DeclaredLines(decl, env, delim) \in Seq(Text)
<1> DEFINE n == Len(decl)
           text == [i \in DOMAIN decl |-> LinesIn(DeclaredText(decl[i], env, delim))]
<1>1. n \in Nat /\ DOMAIN decl = 1..n /\ \A i \in 1..n : decl[i] \in Declaration
  BY LenProperties, ElementOfSeq
<1>2. ASSUME NEW d \in Declaration PROVE DeclaredText(d, env, delim) \in Text
  <2>1. d.Key \in Token /\ delim \in Token
    BY DEF Declaration, Token
  <2>2. <<d.Key, delim>> \in Seq(Token)
    BY <2>1
  <2>3. EnvValue(env, d.Value) \in Seq(Token)
    BY DEF EnvValue, Text
  <2>4. QED
    BY <2>2, <2>3, ConcatProperties DEF DeclaredText, Text
<1>3. ASSUME NEW i \in 1..n PROVE LinesIn(DeclaredText(decl[i], env, delim)) \in Seq(Text)
  BY <1>1, <1>2, LinesInIs
<1> HIDE DEF n
<1>4. text \in [1..n -> Seq(Text)]
  BY <1>1, <1>3
<1>5. text \in Seq(Seq(Text))
  BY <1>1, <1>4, FunctionIsSeq
<1> HIDE DEF text
<1>6. FlattenSeq(text) \in Seq(Text)
  BY <1>5, FlattenType
<1>7. QED
  BY <1>6 DEF DeclaredLines, text

LEMMA WritableIs ==
    ASSUME NEW decl \in Seq(Declaration), NEW env, NEW shell
    PROVE  Writable(decl, env, shell) \in 0..Len(decl)
<1> DEFINE unset == {i \in DOMAIN decl : decl[i].Value \notin DOMAIN env}
<1>1. Len(decl) \in Nat /\ DOMAIN decl = 1..Len(decl)
  BY LenProperties
<1>2. unset \subseteq 1..Len(decl)
  BY <1>1
<1> HIDE DEF unset
<1>3. ASSUME unset # {} PROVE Min(unset) - 1 \in 0..Len(decl)
  <2>1. unset \subseteq Nat
    BY <1>1, <1>2
  <2>2. Min(unset) \in unset
    BY <1>3, <2>1, SmallestOf
  <2> DEFINE m == Min(unset)
  <2>3. m \in 1..Len(decl)
    BY <1>2, <2>2
  <2> HIDE DEF m
  <2>4. m - 1 \in 0..Len(decl)
    BY <1>1, <2>3
  <2>5. QED
    BY <2>4 DEF m
<1>4. QED
  BY <1>1, <1>3 DEF Writable, unset

\* What a step has written to a file is of its run.
LEMMA WroteIs ==
    ASSUME NEW file \in File, NEW texts \in Seq(Text), run.n \in 1..MaxRuns
    PROVE  /\ Wrote(file, texts) \in File
           /\ \A line \in Range(Wrote(file, texts).lines) : line \in Range(file.lines) \/ line.by = run.n
<1> DEFINE m == Len(texts)
           new == [i \in DOMAIN texts |-> [text |-> texts[i], by |-> run.n]]
           there == IF file.there = "absent" THEN "present" ELSE file.there
           lines == file.lines \o new
<1>1. m \in Nat /\ DOMAIN texts = 1..m /\ \A i \in 1..m : texts[i] \in Text
  BY LenProperties, ElementOfSeq
<1>2. file.lines \in Seq(Line) /\ file.there \in {"absent", "locked", "present"}
  BY DEF File
<1>3. ASSUME NEW i \in 1..m PROVE [text |-> texts[i], by |-> run.n] \in Line
  BY <1>1 DEF Line
<1> HIDE DEF m
<1>4. new \in [1..m -> Line]
  BY <1>1, <1>3
<1>5. new \in Seq(Line)
  BY <1>1, <1>4, FunctionIsSeq
<1>6. \A line \in Range(new) : line.by = run.n
  BY DEF Range
<1> HIDE DEF new
<1>7. lines \in Seq(Line)
  BY <1>2, <1>5, ConcatProperties
<1>8. \A line \in Range(lines) : line \in Range(file.lines) \/ line.by = run.n
  BY <1>2, <1>5, <1>6, RangeOfConcat
<1>9. there \in {"locked", "present"}
  BY <1>2
<1> DEFINE made == AppendLines(file, texts, run.n)
<1>10. made = [there |-> there, lines |-> lines]
  BY DEF AppendLines, new
<1> HIDE DEF lines, there
<1>11. made \in File /\ made.lines = lines
  BY <1>7, <1>9, <1>10 DEF File
<1> HIDE DEF made
<1>12. Shut(made) \in File /\ Shut(made).lines = lines
  BY <1>7, <1>11 DEF Shut, File
<1>13. Wrote(file, texts) = file \/ Wrote(file, texts) = Shut(made)
  BY DEF Wrote, made
<1>14. QED
  BY <1>8, <1>12, <1>13

LEMMA WrittenIs ==
    ASSUME RunTyped, files \in [Files -> File], NEW k \in 0..Len(run.program.own),
           NEW reached \in BOOLEAN
    PROVE  /\ Written(k, reached) \in [Files -> File]
           /\ \A f \in Files : \A line \in Range(Written(k, reached)[f].lines) :
                 line \in Range(files[f].lines) \/ line.by = run.n
<1> DEFINE own  == SubSeq(run.program.own, 1, k)
           decl == SubSeq(DeclaredOf(Req), 1, Writable(DeclaredOf(Req), run.program.env, Req.shell))
           tail == IF reached THEN DeclaredLines(decl, run.program.env, Delimiter(Req.dotenv))
                   ELSE <<>>
           out == own \o tail
           text == [f \in Files |-> CASE f = "out"      -> out
                                      [] f = "secret"   -> run.program.secretLines
                                      [] f = "artifact" -> run.program.artifact]
<1>1. /\ run.n \in 1..MaxRuns /\ IsProgram(run.program) /\ run.req \in Requests
  BY ProgramIs DEF RunTyped, RunRecord
<1>2. own \in Seq(Text)
  <2> DEFINE o == run.program.own
  <2>1. o \in Seq(Text) /\ Len(o) \in Nat
    BY <1>1, LenProperties DEF IsProgram
  <2>2. k \in Nat /\ k <= Len(o)
    BY <2>1
  <2> HIDE DEF o
  <2>3. SubSeq(o, 1, k) \in Seq(Text)
    BY <2>1, <2>2, FirstOfSeq
  <2>4. QED
    BY <2>3 DEF o
<1>3. decl \in Seq(Declaration)
  <2> DEFINE d == DeclaredOf(Req)
             w == Writable(d, run.program.env, Req.shell)
  <2>1. d \in Seq(Declaration) /\ Len(d) \in Nat
    BY <1>1, DeclaredIs, LenProperties DEF Req
  <2> HIDE DEF d
  <2>2. w \in 0..Len(d)
    BY <2>1, WritableIs
  <2> HIDE DEF w
  <2>3. w \in Nat /\ w <= Len(d)
    BY <2>1, <2>2
  <2>4. SubSeq(d, 1, w) \in Seq(Declaration)
    BY <2>1, <2>3, FirstOfSeq
  <2>5. QED
    BY <2>4 DEF d, w
<1> HIDE DEF own, decl
<1>4. tail \in Seq(Text)
  <2>1. Delimiter(Req.dotenv) \in {Blank, Equals}
    BY DEF Delimiter
  <2>2. \A var \in DOMAIN run.program.env : run.program.env[var] \in Text
    BY <1>1 DEF IsProgram
  <2>3. DeclaredLines(decl, run.program.env, Delimiter(Req.dotenv)) \in Seq(Text)
    BY <1>3, <2>1, <2>2, DeclaredLinesIs
  <2>4. <<>> \in Seq(Text)
    OBVIOUS
  <2>5. QED
    BY <2>3, <2>4
<1> HIDE DEF tail
<1>5. out \in Seq(Text)
  BY <1>2, <1>4, ConcatProperties
<1> HIDE DEF out
<1>6. text \in [Files -> Seq(Text)]
  BY <1>1, <1>5 DEF Files, IsProgram
<1>7. Written(k, reached) = [f \in Files |-> Wrote(files[f], text[f])]
  BY DEF Written, text, out, own, decl, tail
<1> HIDE DEF text
<1>8. ASSUME NEW f \in Files
      PROVE  /\ Wrote(files[f], text[f]) \in File
             /\ \A line \in Range(Wrote(files[f], text[f]).lines) :
                   line \in Range(files[f].lines) \/ line.by = run.n
  BY <1>1, <1>6, WroteIs
<1>9. QED
  BY <1>7, <1>8

-----------------------------------------------------------------------------
(* What is reported.                                                         *)

\* The files that a run of the step may read.
Sources == IF run.req.dotenv THEN {"out", "secret"} ELSE {"out"}

\* The lines that are there are of no later run.
FilesInv ==
    /\ files \in [Files -> File]
    /\ \A f \in Files : \A line \in Range(files[f].lines) : line.by <= run.n

\* One result for every run that has returned.
Counted ==
    /\ \E S : results \in Seq(S)
    /\ Len(results) = IF run.pc = "done" THEN run.n ELSE run.n - 1

OutcomesInv == \A i \in 1..Len(results) : Outcome(results[i]) \in RunResult

(* What a run has reported, and removed, is of that run or an earlier one    *)
(* and in none of the files any more.                                        *)
Gone(result, i) ==
    result.kept = {} /\ run.req.kind # "RunTest" =>
        \A line \in result.from :
            line.by <= i /\ \A f \in Sources : line \notin Range(files[f].lines)

GoneInv == \A i \in 1..Len(results) : Gone(results[i], i)

ResultsInv == FilesInv /\ Counted /\ OutcomesInv /\ GoneInv /\ ReportedOnce

LEMMA OneMore ==
    ASSUME NEW S, NEW s \in Seq(S), NEW x
    PROVE  /\ Append(s, x) \in Seq(S \cup {x}) /\ Len(Append(s, x)) = Len(s) + 1
           /\ Append(s, x)[Len(s) + 1] = x /\ \A i \in 1..Len(s) : Append(s, x)[i] = s[i]
           /\ Len(s) \in Nat /\ DOMAIN s = 1..Len(s) /\ DOMAIN Append(s, x) = 1..(Len(s) + 1)
<1> DEFINE T == S \cup {x}
<1>1. Len(s) \in Nat /\ DOMAIN s = 1..Len(s) /\ \A i \in 1..Len(s) : s[i] \in S
  BY LenProperties, ElementOfSeq
<1>2. s \in [1..Len(s) -> T]
  BY <1>1, LenProperties
<1>3. s \in Seq(T) /\ x \in T
  <2> DEFINE n == Len(s)
  <2> HIDE DEF n, T
  <2>1. n \in Nat /\ s \in [1..n -> T]
    BY <1>1, <1>2 DEF n
  <2>2. s \in Seq(T)
    BY <2>1, FunctionIsSeq
  <2>3. QED
    BY <2>2 DEF T
<1> HIDE DEF T
<1>4. QED
  <2>1. Append(s, x) \in Seq(T) /\ Len(Append(s, x)) = Len(s) + 1
        /\ Append(s, x)[Len(s) + 1] = x /\ \A i \in 1..Len(s) : Append(s, x)[i] = s[i]
    BY <1>3, AppendProperties
  <2>2. QED
    BY <1>1, <2>1, LenProperties DEF T

\* A result is returned.
LEMMA Returns ==
    ASSUME RunTyped, ResultsInv, NEW r, results' = Append(results, r), run' \in RunRecord,
           run'.req = run.req, run'.n = run.n, run'.pc = "done", run.pc # "done",
           FilesInv', \A f \in Sources : Range(files'[f].lines) \subseteq Range(files[f].lines),
           Outcome(r) \in RunResult,
           r.kept = {} /\ run.req.kind # "RunTest" =>
              \A line \in r.from :
                  line.by <= run.n /\ \A f \in Sources : line \notin Range(files'[f].lines),
           \A line \in r.from : \E f \in Sources : line \in Range(files[f].lines)
    PROVE  ResultsInv'
<1>1. PICK S : results \in Seq(S)
  BY DEF ResultsInv, Counted
<1> DEFINE m == Len(results)
<1>2. /\ results' \in Seq(S \cup {r}) /\ Len(results') = m + 1 /\ results'[m + 1] = r
      /\ \A i \in 1..m : results'[i] = results[i]
      /\ m \in Nat /\ DOMAIN results = 1..m /\ DOMAIN results' = 1..(m + 1)
  BY <1>1, OneMore
<1>3. run.n \in Nat /\ m = run.n - 1
  BY DEF ResultsInv, Counted, RunTyped, RunRecord
<1> HIDE DEF m
<1>4. m + 1 = run.n /\ \A i \in 1..(m + 1) : i = m + 1 \/ i \in 1..m
  BY <1>2, <1>3
<1>5. Counted'
  BY <1>2, <1>4 DEF Counted
<1>6. OutcomesInv'
  BY <1>2, <1>4 DEF OutcomesInv, ResultsInv
<1>7. Sources' = Sources
  BY DEF Sources
<1>8. GoneInv'
  <2>1. ASSUME NEW i \in 1..(m + 1) PROVE Gone(results[i], i)'
    <3>1. CASE i = m + 1
      BY <1>2, <1>4, <1>7, <3>1 DEF Gone
    <3>2. CASE i \in 1..m
      <4>1. Gone(results[i], i) /\ results'[i] = results[i]
        BY <1>2, <3>2 DEF ResultsInv, GoneInv, m
      <4>2. QED
        BY <1>7, <4>1 DEF Gone
    <3>3. QED
      BY <1>4, <3>1, <3>2
  <2>2. QED
    BY <1>2, <2>1 DEF GoneInv
<1>9. ReportedOnce'
  <2>1. SUFFICES ASSUME NEW i \in 1..(m + 1), NEW j \in 1..(m + 1), i < j,
                        results'[i].kept = {}, run.req.kind # "RunTest"
                 PROVE  results'[i].from \cap results'[j].from = {}
    BY <1>2 DEF ReportedOnce, Req
  <2>2. i \in 1..m /\ results'[i] = results[i] /\ Gone(results[i], i)
    BY <1>2, <1>4, <2>1 DEF ResultsInv, GoneInv, m
  <2>3. CASE j \in 1..m
    BY <1>2, <2>1, <2>2, <2>3 DEF ResultsInv, ReportedOnce, Req
  <2>4. CASE j = m + 1
    <3>1. \A line \in results[i].from : \A f \in Sources : line \notin Range(files[f].lines)
      BY <2>1, <2>2 DEF Gone
    <3>2. QED
      BY <1>2, <2>2, <2>4, <3>1
  <2>5. QED
    BY <1>4, <2>3, <2>4
<1>10. QED
  BY <1>5, <1>6, <1>8, <1>9 DEF ResultsInv

\* A step that returns no result.
LEMMA GoesOn ==
    ASSUME RunTyped, ResultsInv, results' = results, run'.req = run.req, run' \in RunRecord,
           \/ run'.n = run.n /\ (run'.pc = "done" <=> run.pc = "done")
           \/ run'.n = run.n + 1 /\ run.pc = "done" /\ run'.pc # "done",
           files' \in [Files -> File],
           \A f \in Files : \A line \in Range(files'[f].lines) :
               line \in Range(files[f].lines) \/ (run.pc # "done" /\ line.by = run.n)
    PROVE  ResultsInv'
<1>1. run.n \in Nat /\ run'.n \in Nat
  BY DEF RunTyped, RunRecord
<1>2. Counted'
  BY <1>1 DEF ResultsInv, Counted
<1>3. FilesInv'
  <2>1. ASSUME NEW f \in Files, NEW line \in Range(files'[f].lines) PROVE line.by <= run'.n
    <3>1. line.by = run.n \/ line \in Range(files[f].lines)
      OBVIOUS
    <3>2. CASE line.by = run.n
      BY <1>1, <3>2
    <3>3. CASE line \in Range(files[f].lines)
      <4>1. line.by <= run.n
        BY <3>3 DEF ResultsInv, FilesInv
      <4>2. line.by \in Nat
        <5>1. files[f].lines \in Seq(Line)
          BY DEF ResultsInv, FilesInv, File
        <5>2. line \in Line
          BY <3>3, <5>1, RangeInSet
        <5>3. QED
          BY <5>2 DEF Line
      <4>3. QED
        BY <1>1, <4>1, <4>2
    <3>4. QED
      BY <3>1, <3>2, <3>3
  <2>2. QED
    BY <2>1 DEF FilesInv
<1>4. OutcomesInv' /\ ReportedOnce' /\ Sources' = Sources
  BY DEF ResultsInv, OutcomesInv, ReportedOnce, Sources, Req
<1>5. ASSUME NEW i \in 1..Len(results) PROVE Gone(results[i], i)'
  <2>1. Gone(results[i], i)
    BY DEF ResultsInv, GoneInv
  <2>2. run.pc # "done" => i < run.n
    BY <1>1 DEF ResultsInv, Counted
  <2>3. SUFFICES ASSUME results[i].kept = {}, run.req.kind # "RunTest",
                        NEW line \in results[i].from
                 PROVE  line.by <= i /\ \A f \in Sources : line \notin Range(files'[f].lines)
    BY <1>4 DEF Gone
  <2>4. line.by <= i /\ \A f \in Sources : line \notin Range(files[f].lines)
    BY <2>1, <2>3 DEF Gone
  <2>5. run.pc # "done" => line.by # run.n
    BY <1>1, <2>2, <2>4
  <2>6. Sources \subseteq Files
    BY DEF Sources, Files
  <2>7. QED
    BY <2>4, <2>5, <2>6
<1>6. QED
  BY <1>2, <1>3, <1>4, <1>5 DEF ResultsInv, GoneInv

\* Every result is made by Result.
LEMMA ResultOfForm ==
    ASSUME NEW req \in Requests, NEW res, NEW fs, NEW sum
    PROVE  \E x, v, w : ResultOf(req, res, fs, sum) = Result(x, v, w)
<1>1. \E x, v, w : SummaryResult(req, res, sum) = Result(x, v, w)
  BY DEF SummaryResult
<1>2. \E x, v, w : TestResult(req, res, fs, sum) = Result(x, v, w)
  BY DEF TestResult
<1>3. \E x, v, w : DotEnvResult(req, res, fs, sum) = Result(x, v, w)
  BY DEF DotEnvResult
<1>4. \E x, v, w : PlainRunResult(req, res, fs, sum) = Result(x, v, w)
  BY Zenon DEF PlainRunResult
<1>5. \E x, v, w : PlainTestsV2Result(req, res, fs, sum) = Result(x, v, w)
  BY Zenon DEF PlainTestsV2Result
<1>6. QED
  BY <1>1, <1>2, <1>3, <1>4, <1>5, RequestIs DEF ResultOf

Annotated(result, a, l, k) == [result EXCEPT !.artifact = a, !.from = l, !.kept = k]

LEMMA AnnotatedIs ==
    ASSUME NEW req \in Requests, NEW res \in Returned, NEW fs, NEW sum, NEW a, NEW l, NEW k
    PROVE  LET r == Annotated(ResultOf(req, res, fs, sum), a, l, k)
           IN  Outcome(r) \in RunResult /\ r.from = l /\ r.kept = k
<1> DEFINE q == ResultOf(req, res, fs, sum)
           r == Annotated(ResultOf(req, res, fs, sum), a, l, k)
<1>1. PICK x, v, w : q = Result(x, v, w)
  BY ResultOfForm
<1>2. Outcome(q) \in RunResult
  BY ResultOfOutcome
<1>3. r = [q EXCEPT !.artifact = a, !.from = l, !.kept = k]
  BY DEF Annotated
<1> HIDE DEF q, r
<1> DEFINE state == x.state
           err == x.err
<1>4. q = [state |-> state, err |-> err, outputs |-> v, outputsV2 |-> w,
           artifact |-> <<>>, from |-> {}, kept |-> {}]
  BY <1>1 DEF Result
<1> HIDE DEF state, err
<1>5. r.state = state /\ r.err = err /\ r.from = l /\ r.kept = k
  BY <1>3, <1>4
<1>6. q.state = state /\ q.err = err
  BY <1>4
<1>7. Outcome(r) = Outcome(q)
  BY <1>5, <1>6 DEF Outcome
<1>8. QED
  BY <1>2, <1>5, <1>7 DEF r

\* What is read is in the files that may be read, and those that are removed are empty.
LEMMA ReadIs ==
    ASSUME RunTyped
    PROVE  /\ \A line \in LinesRead : \E f \in Sources : line \in Range(files[f].lines)
           /\ Cleaned(Req, run.res, files) \subseteq Files
           /\ run.req.kind # "RunTest" /\ LinesRead # {} =>
                 Sources \subseteq Cleaned(Req, run.res, files)
<1>1. Req.dotenv \in BOOLEAN /\ Req = run.req
  BY RequestIs DEF RunTyped, RunRecord, Req
<1>2. ReadVars(Req, files).err \in BOOLEAN
  BY ReadVarsErr
<1>3. ASSUME NEW line \in LinesRead PROVE \E f \in Sources : line \in Range(files[f].lines)
  BY <1>1, <1>2, <1>3 DEF LinesRead, Sources
<1>4. Cleaned(Req, run.res, files) \subseteq Files
  BY DEF Cleaned, Files
<1>5. ASSUME run.req.kind # "RunTest", LinesRead # {}
      PROVE  Sources \subseteq Cleaned(Req, run.res, files)
  BY <1>1, <1>2, <1>5 DEF LinesRead, Cleaned, Sources
<1>6. QED
  BY <1>3, <1>4, <1>5

LEMMA RemovedIs ==
    ASSUME FilesInv, run' = [run EXCEPT !.pc = "done"], run \in RunRecord,
           NEW names, files' = Removed(names)
    PROVE  /\ FilesInv' /\ files' \in [Files -> File]
           /\ \A f \in Files : Range(files'[f].lines) \subseteq Range(files[f].lines)
           /\ \A f \in Files : f \in names => Range(files'[f].lines) = {}
<1>1. NoFile \in File /\ NoFile.lines = <<>> /\ Range(<<>>) = {}
  BY RangeOfEmpty DEF NoFile, File
<1>2. files \in [Files -> File] /\ run'.n = run.n
  BY DEF FilesInv, RunRecord
<1>3. files' = [f \in Files |-> IF f \in names THEN NoFile ELSE files[f]]
  BY DEF Removed
<1>4. files' \in [Files -> File]
  BY <1>1, <1>2, <1>3
<1>5. ASSUME NEW f \in Files
      PROVE  /\ Range(files'[f].lines) \subseteq Range(files[f].lines)
             /\ f \in names => Range(files'[f].lines) = {}
  BY <1>1, <1>3
<1>6. FilesInv'
  BY <1>2, <1>4, <1>5 DEF FilesInv
<1>7. QED
  BY <1>4, <1>5, <1>6

LEMMA CollectReturns ==
    ASSUME RunTyped, ResultsInv, Collect
    PROVE  ResultsInv'
<1> DEFINE cleaned == Cleaned(Req, run.res, files)
<1>1. PICK tested \in BOOLEAN, kept \in SUBSET cleaned :
          /\ files' = Removed(cleaned \ kept)
          /\ Return([ResultOf(Req, run.res, files, SummaryOf(Req, tested)) EXCEPT
                       !.artifact = ArtifactOf(Req, run.res, files),
                       !.from = LinesRead, !.kept = kept])
  BY DEF Collect
<1> DEFINE r == [ResultOf(Req, run.res, files, SummaryOf(Req, tested)) EXCEPT
                   !.artifact = ArtifactOf(Req, run.res, files),
                   !.from = LinesRead, !.kept = kept]
<1>2. results' = Append(results, r)
  BY <1>1 DEF Return
<1>3. Outcome(r) \in RunResult /\ r.from = LinesRead /\ r.kept = kept
  <2>1. Req \in Requests /\ run.res \in Returned
    BY DEF RunTyped, RunRecord, Req
  <2>2. r = Annotated(ResultOf(Req, run.res, files, SummaryOf(Req, tested)),
                      ArtifactOf(Req, run.res, files), LinesRead, kept)
    BY DEF Annotated
  <2> HIDE DEF r
  <2>3. QED
    BY <2>1, <2>2, AnnotatedIs
<1> HIDE DEF r
<1>4. "done" \in Places
  BY DEF Places
<1>5. /\ run' \in RunRecord /\ run'.req = run.req /\ run'.n = run.n /\ run'.pc = "done"
      /\ run.pc = "collect" /\ run' = [run EXCEPT !.pc = "done"] /\ run \in RunRecord
  BY <1>4, RunsMoves DEF Collect, Runs, RunTyped
<1>6. /\ FilesInv' /\ \A f \in Files : Range(files'[f].lines) \subseteq Range(files[f].lines)
      /\ \A f \in Files : f \in cleaned \ kept => Range(files'[f].lines) = {}
  <2>1. FilesInv
    BY DEF ResultsInv
  <2> HIDE DEF cleaned
  <2>2. QED
    BY <1>1, <1>5, <2>1, RemovedIs
<1>7. Sources \subseteq Files
  BY DEF Sources, Files
<1>8. ASSUME r.kept = {}, run.req.kind # "RunTest", NEW line \in r.from
      PROVE  line.by <= run.n /\ \A f \in Sources : line \notin Range(files'[f].lines)
  <2>1. line \in LinesRead /\ kept = {} /\ Sources \subseteq cleaned
    BY <1>3, <1>8, ReadIs
  <2>2. PICK f \in Sources : line \in Range(files[f].lines)
    BY <2>1, ReadIs
  <2>3. line.by <= run.n
    BY <1>7, <2>2 DEF ResultsInv, FilesInv
  <2> HIDE DEF cleaned
  <2>4. \A g \in Sources : Range(files'[g].lines) = {}
    BY <1>6, <1>7, <2>1
  <2>5. QED
    BY <2>3, <2>4
<1>9. \A line \in r.from : \E f \in Sources : line \in Range(files[f].lines)
  BY <1>3, ReadIs
<1>10. \A f \in Sources : Range(files'[f].lines) \subseteq Range(files[f].lines)
  BY <1>6, <1>7
<1>11. run.pc # "done"
  BY <1>5
<1>12. QED
  BY <1>2, <1>3, <1>5, <1>6, <1>8, <1>9, <1>10, <1>11, Returns

\* A step that was not run reports nothing.
LEMMA UnrunReturns ==
    ASSUME RunTyped, ResultsInv, SetupFails \/ Reject
    PROVE  ResultsInv'
<1>1. results' = Append(results, Unrun) /\ files' = files /\ Runs("idle", "done")
  BY DEF SetupFails, Reject, Return
<1>2. "done" \in Places
  BY DEF Places
<1>3. /\ run' \in RunRecord /\ run'.req = run.req /\ run'.n = run.n /\ run'.pc = "done"
      /\ run.pc # "done"
  BY <1>1, <1>2, RunsMoves DEF Runs
<1>4. Unrun.from = {} /\ Unrun.kept = {}
  BY DEF Unrun, Result
<1>5. FilesInv'
  BY <1>1, <1>3 DEF ResultsInv, FilesInv
<1>6. \A f \in Sources : Range(files'[f].lines) \subseteq Range(files[f].lines)
  BY <1>1
<1>7. QED
  BY <1>1, <1>3, <1>4, <1>5, <1>6, UnrunIs, Returns

LEMMA ExitGoesOn ==
    ASSUME RunTyped, ResultsInv, StepExits
    PROVE  ResultsInv'
<1>1. PICK end \in run.program.ends : Exit(end.code, end.oom, end.reached)
  BY DEF StepExits
<1>2. IsProgram(run.program)
  BY ProgramIs DEF RunTyped, RunRecord
<1>3. end \in [code : ExitCodes, oom : BOOLEAN, reached : BOOLEAN]
  BY <1>2 DEF IsProgram
<1>4. end.reached \in BOOLEAN /\ [code |-> end.code, oom |-> end.oom, reached |-> end.reached] = end
  BY <1>3
<1>5. /\ run' \in RunRecord /\ run'.req = run.req /\ run'.n = run.n /\ run'.pc = "exited"
      /\ run.pc = "running" /\ results' = results
  <2>1. /\ run' \in RunRecord /\ run'.req = run.req /\ run'.n = run.n /\ run'.pc = "exited"
    BY <1>1, <1>4, ExitRecord
  <2>2. run.pc = "running" /\ results' = results
    BY <1>1 DEF Exit
  <2>3. QED
    BY <2>1, <2>2
<1>6. \E k \in 0..Len(run.program.own) : files' = Written(k, end.reached)
  <2>1. Len(run.program.own) \in 0..Len(run.program.own)
    BY <1>2, LenProperties DEF IsProgram
  <2>2. QED
    BY <1>1, <2>1 DEF Exit
<1>7. files \in [Files -> File]
  BY DEF ResultsInv, FilesInv
<1>8. /\ files' \in [Files -> File]
      /\ \A f \in Files : \A line \in Range(files'[f].lines) :
            line \in Range(files[f].lines) \/ line.by = run.n
  BY <1>4, <1>6, <1>7, WrittenIs
<1>9. QED
  BY <1>5, <1>8, GoesOn

LEMMA ResultsStep ==
    ASSUME RunTyped, PrintHeld, ResultsInv, [Next]_vars
    PROVE  ResultsInv'
<1>1. run' \in RunRecord /\ run'.req = run.req
  BY RunStep
<1>2. ASSUME UNCHANGED <<files, results>>, run'.n = run.n, run'.pc = "done" <=> run.pc = "done"
      PROVE  ResultsInv'
  <2>1. files' \in [Files -> File]
    BY <1>2 DEF ResultsInv, FilesInv
  <2>2. QED
    BY <1>1, <1>2, <2>1, GoesOn
<1>3. ASSUME NEW from, NEW to \in Places, Runs(from, to), from # "done", to # "done",
             UNCHANGED <<files, results>>
      PROVE  ResultsInv'
  BY <1>2, <1>3, RunsMoves DEF Runs
<1>4. /\ "idle" \in Places /\ "panic" \in Places /\ "collect" \in Places /\ "running" \in Places
  BY DEF Places
<1>5. CASE UNCHANGED vars
  BY <1>2, <1>5 DEF vars
<1>6. CASE Prepare \/ PrintMasked \/ PrintUnlock \/ EngineBack
  <2>1. /\ run'.n = run.n /\ (run'.pc = "done" <=> run.pc = "done") /\ UNCHANGED <<files, results>>
    BY <1>6, EngineMoves DEF Prepare, PrintMasked, PrintUnlock, RunTyped, RunRecord
  <2>2. QED
    BY <1>2, <2>1
<1>7. CASE RunAgain
  <2>1. /\ run'.n = run.n + 1 /\ run.pc = "done" /\ run'.pc # "done" /\ files' = files
        /\ results' = results
    BY <1>7 DEF RunAgain, RunTyped, RunRecord
  <2>2. files' \in [Files -> File]
    BY <2>1 DEF ResultsInv, FilesInv
  <2>3. QED
    BY <1>1, <2>1, <2>2, GoesOn
<1>8. CASE Runner
  <2>1. CASE MakeLog \/ PanicUnprepared \/ EngineStarts \/ RemarkMade \/ PanicCollect
    BY <1>3, <1>4, <2>1 DEF MakeLog, PanicUnprepared, EngineStarts, RemarkMade, PanicCollect
  <2>2. CASE PrintLock
    BY <1>2, <2>2 DEF PrintLock, stepVars
  <2>3. QED
    BY <1>6, <1>8, <2>1, <2>2, UnrunReturns, CollectReturns DEF Runner, EngineBack
<1>9. CASE Step
  <2>1. CASE WaitFails
    BY <1>6, <2>1 DEF EngineBack
  <2>2. CASE Output \/ OutputEnds \/ Expire
    BY <1>2, <2>2 DEF Output, OutputEnds, Expire, stepVars
  <2>3. QED
    BY <1>7, <1>9, <2>1, <2>2, ExitGoesOn DEF Step
<1>10. CASE Copier \/ (\E w \in LogWriters : SendOn(w))
            \/ \E s \in Subscribers : Stream(s) \/ ClientLeaves(s)
  BY <1>2, <1>10 DEF Copier, CopierReads, CopyMasked, CopyLock, CopyUnlock, SendOn, Stream,
                     ClientLeaves, stepVars
<1>11. QED
  BY <1>5, <1>8, <1>9, <1>10 DEF Next

-----------------------------------------------------------------------------
(* The whole.                                                                *)

IInv == RunTyped /\ PrintHeld /\ Copied /\ LogInv /\ Ran /\ ResultsInv

LEMMA Begins == ASSUME StepRunInit PROVE IInv
<1>1. PICK req \in Requests : \E program \in Programs(req, 1) :
        run = [pc |-> IF req.drone THEN "start" ELSE "idle", n |-> 1, req |-> req,
               program |-> program, todo |-> <<>>, parts |-> Parts(req.secrets),
               res |-> Pending, through |-> FALSE]
  BY DEF StepRunInit
<1>2. 1 \in 1..MaxRuns /\ <<>> \in Seq(Seq(Nat)) /\ Pending \in Returned
  BY StepRunAssumption DEF Returned
<1>3. RunTyped
  <2>1. \A program \in Programs(req, 1) : program \in AllPrograms
    BY <1>1, <1>2 DEF AllPrograms
  <2>2. run.pc \in Places
    BY <1>1 DEF Places
  <2>3. QED
    BY <1>1, <1>2, <2>1, <2>2 DEF RunTyped, RunRecord
<1>4. run.pc \in {"start", "idle"} /\ run.n = 1 /\ run.res = Pending
  BY <1>1
<1>5. PrintHeld
  <2>1. stepLog.holder # "runner"
    BY StepLogAssumption DEF StepRunInit, StepLogInit, LogWriters
  <2>2. QED
    BY <2>1 DEF PrintHeld
<1>6. Copied
  BY CopyBegins DEF StepRunInit, StdCopyInit, Copied
<1>7. LogInv
  <2>1. stepLog = [made |-> FALSE, full |-> <<>>, done |-> FALSE, subscribers |-> {},
                   holder |-> NoOne, data |-> <<>>, pending |-> {}, to |-> NoOne,
                   panicked |-> FALSE]
        /\ sub \in [Subscribers -> [pc : {"looking"}, offset : Offsets, got : {<<>>}, left : {FALSE}]]
    BY DEF StepRunInit, StepLogInit
  <2>2. <<>> \in Seq(Nat) /\ Cat(<<>>, <<>>) = <<>>
    <3>1. <<>> \in Seq(Nat)
      OBVIOUS
    <3>2. Cat(<<>>, <<>>) = <<>>
      BY <3>1, CatEmpty
    <3>3. QED
      BY <3>1, <3>2
  <2>3. StepLogTypeOK
    BY <2>1, <2>2 DEF StepLogTypeOK
  <2>4. \A s \in Subscribers : Follows(s)
    BY <2>1 DEF Follows
  <2>5. \E before \in Seq(Nat) : stepLog.full = Cat(before, stepLog.data)
    BY <2>1, <2>2
  <2>6. QED
    BY <2>1, <2>3, <2>4, <2>5 DEF LogInv
<1>8. Ran
  BY <1>4 DEF Ran
<1>9. ResultsInv
  <2>1. results = <<>> /\ files = [f \in Files |-> NoFile]
    BY DEF StepRunInit
  <2>2. Len(results) = 0 /\ DOMAIN results = {} /\ \E S : results \in Seq(S)
    BY <1>2, <2>1
  <2>3. NoFile \in File /\ Range(NoFile.lines) = {}
    BY RangeOfEmpty DEF NoFile, File
  <2>4. FilesInv
    BY <2>1, <2>3 DEF FilesInv
  <2>5. QED
    BY <1>4, <2>2, <2>4 DEF ResultsInv, Counted, OutcomesInv, GoneInv, ReportedOnce
<1>10. QED
  BY <1>3, <1>5, <1>6, <1>7, <1>8, <1>9 DEF IInv

LEMMA Inductive == ASSUME IInv, [Next]_vars PROVE IInv'
<1>1. RunTyped'
  BY RunStep DEF IInv, RunTyped
<1>2. PrintHeld'
  BY PrintHeldStep DEF IInv, LogInv
<1>3. Copied'
  BY CopiedStep DEF IInv
<1>4. LogInv'
  BY LogMoves, LogInvStep DEF IInv
<1>5. Ran'
  BY RanStep DEF IInv
<1>6. ResultsInv'
  BY ResultsStep DEF IInv
<1>7. QED
  BY <1>1, <1>2, <1>3, <1>4, <1>5, <1>6 DEF IInv

(* In every state the runner and the log keep their types and the parts of   *)
(* the inductive invariant hold.                                             *)
THEOREM Invariant == Spec => []IInv
BY Begins, Inductive, PTL DEF Spec

(* What the copier hands to the log is the output of the step, whatever the  *)
(* requests, the programs and the length of the copier's buffer.             *)
THEOREM OutputIsCopiedAlways == Spec => []OutputIsCopied
<1>1. ASSUME IInv PROVE OutputIsCopied
  BY <1>1, RequestIs, CopiedIsCopied DEF IInv, RunTyped, RunRecord
<1>2. QED
  BY <1>1, Invariant, PTL

(* When a process of the host has been run, all its output is in the log     *)
(* before the run returns.                                                   *)
THEOREM ProcessOutputCompleteAlways == Spec => []ProcessOutputComplete
<1>1. ASSUME IInv PROVE ProcessOutputComplete
  BY <1>1, ProcessCopied DEF IInv, Ran, ProcessOutputComplete, Req
<1>2. QED
  BY <1>1, Invariant, PTL

(* Every client that follows a drone step has, without a gap or a repeat,    *)
(* what the log holds but for what a write under way owes it; for any number *)
(* of clients and offsets.                                                   *)
THEOREM SubscriberUpToDateAlways == Spec => []SubscriberUpToDate
<1>1. ASSUME IInv PROVE SubscriberUpToDate
  BY <1>1 DEF IInv, LogInv, Follows, Owed, SubscriberUpToDate
<1>2. QED
  BY <1>1, Invariant, PTL

(* Every result is one that executeStep was written for.                     *)
THEOREM ResultIsRunResultAlways == Spec => []ResultIsRunResult
<1>1. ASSUME IInv PROVE ResultIsRunResult
  <2>1. PICK S : results \in Seq(S)
    BY <1>1 DEF IInv, ResultsInv, Counted
  <2>2. DOMAIN results = 1..Len(results)
    BY <2>1, LenProperties
  <2>3. QED
    BY <1>1, <2>2 DEF IInv, ResultsInv, OutcomesInv, Outcome, ResultIsRunResult
<1>2. QED
  BY <1>1, Invariant, PTL

(* No run reports what an earlier run of the step has reported, however      *)
(* often the step is run again, unless files could not be removed.           *)
THEOREM ReportedOnceAlways == Spec => []ReportedOnce
<1>1. IInv => ReportedOnce
  BY DEF IInv, ResultsInv
<1>2. QED
  BY <1>1, Invariant, PTL

-----------------------------------------------------------------------------
(* The masking.  Byte is what a secret is made of, a part is a line of one   *)
(* that is looked for.                                                       *)
Byte == Nat \ {Masked}
Part == {part \in Seq(Byte) : Len(part) >= 2}

LEMMA RangeInConcat ==
    ASSUME NEW S, NEW s \in Seq(S), NEW t \in Seq(S)
    PROVE  Range(s) \subseteq Range(s \o t) /\ Range(t) \subseteq Range(s \o t)
<1> DEFINE c == Cat(s, t)
<1>1. c \in Seq(S) /\ Len(c) = Len(s) + Len(t) /\ Len(s) \in Nat /\ Len(t) \in Nat
      /\ \A i \in 1..(Len(s) + Len(t)) : c[i] = IF i <= Len(s) THEN s[i] ELSE t[i - Len(s)]
  BY CatIs
<1>2. c = s \o t
  BY DEF Cat
<1> HIDE DEF c
<1>3. DOMAIN c = 1..Len(c) /\ DOMAIN s = 1..Len(s) /\ DOMAIN t = 1..Len(t)
  BY <1>1, LenProperties
<1>4. ASSUME NEW x \in Range(s) PROVE x \in Range(c)
  <2>1. PICK i \in 1..Len(s) : x = s[i]
    BY <1>3 DEF Range
  <2>2. i \in 1..(Len(s) + Len(t)) /\ i <= Len(s)
    BY <1>1
  <2>3. i \in DOMAIN c /\ c[i] = x
    BY <1>1, <1>3, <2>1, <2>2
  <2>4. QED
    BY <2>3 DEF Range
<1>5. ASSUME NEW x \in Range(t) PROVE x \in Range(c)
  <2>1. PICK i \in 1..Len(t) : x = t[i]
    BY <1>3 DEF Range
  <2> DEFINE j == Len(s) + i
  <2>2. j \in 1..(Len(s) + Len(t)) /\ ~(j <= Len(s)) /\ j - Len(s) = i
    BY <1>1
  <2> HIDE DEF j
  <2>3. j \in DOMAIN c /\ c[j] = x
    BY <1>1, <1>3, <2>1, <2>2
  <2>4. QED
    BY <2>3 DEF Range
<1>6. QED
  BY <1>2, <1>4, <1>5

\* What a piece has, the whole has.
LEMMA RangeOfPieces ==
    ASSUME NEW S, NEW s \in Seq(Seq(S)), NEW i \in 1..Len(s)
    PROVE  Range(s[i]) \subseteq Range(FlattenSeq(s))
<1> DEFINE T == {t \in Seq(Seq(S)) : \A j \in 1..Len(t) : Range(t[j]) \subseteq Range(FlattenSeq(t))}
<1>1. <<>> \in T
  OBVIOUS
<1>2. ASSUME NEW t \in Seq(Seq(S)), NEW x \in Seq(S), t \in T
      PROVE  Append(t, x) \in T
  <2> DEFINE u == Append(t, x)
             n == Len(t)
  <2>1. u \in Seq(Seq(S)) /\ Len(u) = n + 1 /\ u[n + 1] = x /\ \A j \in 1..n : u[j] = t[j]
    BY AppendProperties
  <2>2. FlattenSeq(u) = FlattenSeq(t) \o x
    BY FlattenAppend
  <2>3. FlattenSeq(t) \in Seq(S) /\ n \in Nat
    BY FlattenType, LenProperties
  <2>4. Range(FlattenSeq(t)) \subseteq Range(FlattenSeq(u)) /\ Range(x) \subseteq Range(FlattenSeq(u))
    <3> DEFINE f == FlattenSeq(t)
               g == FlattenSeq(u)
    <3>1. f \in Seq(S) /\ g = f \o x
      BY <2>2, <2>3
    <3> HIDE DEF f, g
    <3>2. Range(f) \subseteq Range(f \o x) /\ Range(x) \subseteq Range(f \o x)
      BY <3>1, RangeInConcat
    <3>3. Range(f) \subseteq Range(g) /\ Range(x) \subseteq Range(g)
      BY <3>1, <3>2
    <3>4. QED
      BY <3>3 DEF f, g
  <2>5. \A j \in 1..n : Range(t[j]) \subseteq Range(FlattenSeq(t))
    BY <1>2
  <2> HIDE DEF u, T
  <2>6. ASSUME NEW j \in 1..Len(u) PROVE Range(u[j]) \subseteq Range(FlattenSeq(u))
    <3>1. CASE j = n + 1
      BY <2>1, <2>4, <3>1
    <3>2. CASE j # n + 1
      <4>1. j \in 1..n
        BY <2>1, <2>3, <3>2
      <4>2. QED
        BY <2>1, <2>4, <2>5, <4>1
    <3>3. QED
      BY <3>1, <3>2
  <2>7. QED
    BY <2>1, <2>6 DEF T, u
<1> HIDE DEF T
<1>3. s \in T
  BY <1>1, <1>2, EverySeq
<1>4. QED
  BY <1>3 DEF T

LEMMA TrimSpaceIs ==
    ASSUME NEW S, NEW text \in Seq(S)
    PROVE  TrimSpace(text) \in Seq(S)
<1> DEFINE inked == {i \in DOMAIN text : text[i] # Space}
<1>1. Len(text) \in Nat /\ DOMAIN text = 1..Len(text)
  BY LenProperties
<1>2. CASE inked = {}
  <2>1. <<>> \in Seq(S)
    OBVIOUS
  <2>2. QED
    BY <1>2, <2>1 DEF TrimSpace
<1>3. CASE inked # {}
  <2>1. inked \subseteq 1..Len(text) /\ inked \subseteq Nat /\ inked \subseteq 0..Len(text)
    BY <1>1
  <2> HIDE DEF inked
  <2>2. Min(inked) \in 1..Len(text) /\ Max(inked) \in 1..Len(text)
    BY <1>1, <1>3, <2>1, SmallestOf, GreatestOf
  <2> DEFINE a == Min(inked)
             b == Max(inked)
  <2> HIDE DEF a, b
  <2>3. a \in 1..Len(text) /\ b \in 1..Len(text)
    BY <2>2 DEF a, b
  <2>4. SubSeq(text, a, b) \in Seq(S)
    <3>1. \A i \in a..b : text[i] \in S
      BY <1>1, <2>3, ElementOfSeq
    <3>2. QED
      BY <2>3, <3>1, SubSeqProperties
  <2>5. QED
    BY <1>3, <2>4 DEF TrimSpace, inked, a, b
<1>4. QED
  BY <1>2, <1>3

LEMMA PartToIs ==
    ASSUME NEW secret \in Seq(Byte), NEW i \in 1..(Len(secret) + 1)
    PROVE  PartTo(secret, i) \in Seq(Part)
<1> DEFINE starts == {j \in 1..i : j = 1 \/ secret[j - 1] = NewLine}
           m == Max(starts)
           line == SubSeq(secret, m, i - 1)
           part == TrimSpace(line)
<1>1. Len(secret) \in Nat /\ i \in Nat
  BY LenProperties
<1>2. m \in 1..i
  <2>1. 1 \in starts /\ starts \subseteq 0..i
    BY <1>1
  <2> HIDE DEF starts
  <2>2. Max(starts) \in starts
    BY <1>1, <2>1, GreatestOf
  <2>3. QED
    BY <2>2 DEF starts
<1> HIDE DEF m
<1>3. line \in Seq(Byte)
  <2>1. ASSUME NEW k \in m..(i - 1) PROVE secret[k] \in Byte
    <3>1. k \in 1..Len(secret)
      BY <1>1, <1>2
    <3>2. QED
      BY <1>1, <3>1, ElementOfSeq
  <2>2. m \in Int /\ i - 1 \in Int
    BY <1>1, <1>2
  <2>3. QED
    BY <2>1, <2>2, SubSeqProperties
<1> HIDE DEF line
<1>4. part \in Seq(Byte)
  BY <1>3, TrimSpaceIs
<1> HIDE DEF part
<1>5. Len(part) >= 2 => <<part>> \in Seq(Part)
  BY <1>4, OneElement DEF Part
<1>6. <<>> \in Seq(Part)
  OBVIOUS
<1>7. (PartTo(secret, i) = <<part>> /\ Len(part) >= 2) \/ PartTo(secret, i) = <<>>
  BY DEF PartTo, part, line, m, starts
<1>8. QED
  BY <1>5, <1>6, <1>7

\* The pieces Parts is put together of, and those of PartsOf.
LEMMA PartsOfIs ==
    ASSUME NEW secret \in Seq(Byte)
    PROVE  /\ PartsOf(secret) \in Seq(Part)
           /\ \A i \in 1..(Len(secret) + 1) : Range(PartTo(secret, i)) \subseteq Range(PartsOf(secret))
<1> DEFINE n == Len(secret) + 1
           parts == [i \in 1..n |-> PartTo(secret, i)]
<1>1. n \in Nat
  BY LenProperties
<1>2. \A i \in 1..n : PartTo(secret, i) \in Seq(Part)
  BY PartToIs
<1>3. PartsOf(secret) = FlattenSeq(parts)
  BY DEF PartsOf
<1>4. parts \in [1..n -> Seq(Part)] /\ \A i \in 1..n : parts[i] = PartTo(secret, i)
  <2> HIDE DEF n
  <2>1. QED
    BY <1>2
<1> HIDE DEF parts
<1>5. parts \in Seq(Seq(Part)) /\ Len(parts) = n
  <2> HIDE DEF n
  <2>1. QED
    BY <1>1, <1>4, FunctionIsSeq
<1>6. FlattenSeq(parts) \in Seq(Part)
  BY <1>5, FlattenType
<1>7. \A i \in 1..n : Range(parts[i]) \subseteq Range(FlattenSeq(parts))
  <2> HIDE DEF n
  <2>1. QED
    BY <1>5, RangeOfPieces
<1>8. QED
  BY <1>3, <1>4, <1>6, <1>7

LEMMA PartsIs ==
    ASSUME NEW secrets \in Seq(Seq(Byte))
    PROVE  /\ Parts(secrets) \in Seq(Part)
           /\ \A k \in 1..Len(secrets) : Range(PartsOf(secrets[k])) \subseteq Range(Parts(secrets))
<1> DEFINE n == Len(secrets)
           parts == [k \in DOMAIN secrets |-> PartsOf(secrets[k])]
<1>1. n \in Nat /\ DOMAIN secrets = 1..n /\ \A k \in 1..n : secrets[k] \in Seq(Byte)
  BY LenProperties, ElementOfSeq
<1>2. \A k \in 1..n : PartsOf(secrets[k]) \in Seq(Part)
  <2> HIDE DEF n
  <2>1. QED
    BY <1>1, PartsOfIs
<1>3. Parts(secrets) = FlattenSeq(parts)
  BY DEF Parts
<1>4. parts \in [1..n -> Seq(Part)] /\ \A k \in 1..n : parts[k] = PartsOf(secrets[k])
  <2> HIDE DEF n
  <2>1. QED
    BY <1>1, <1>2
<1> HIDE DEF parts
<1>5. parts \in Seq(Seq(Part)) /\ Len(parts) = n
  <2> HIDE DEF n
  <2>1. QED
    BY <1>1, <1>4, FunctionIsSeq
<1>6. FlattenSeq(parts) \in Seq(Part)
  BY <1>5, FlattenType
<1>7. \A k \in 1..n : Range(parts[k]) \subseteq Range(FlattenSeq(parts))
  <2> HIDE DEF n
  <2>1. QED
    BY <1>5, RangeOfPieces
<1>8. QED
  BY <1>3, <1>4, <1>6, <1>7

\* Every line of a secret that is more than a byte is a part.
LEMMA LineIsPart ==
    ASSUME NEW secrets \in Seq(Seq(Byte)), NEW k \in 1..Len(secrets),
           NEW line \in SecretLines(secrets[k])
    PROVE  line \in Range(Parts(secrets)) /\ line \in Part
<1> DEFINE secret == secrets[k]
<1>1. secret \in Seq(Byte) /\ Len(secret) \in Nat /\ DOMAIN secret = 1..Len(secret)
  BY ElementOfSeq, LenProperties
<1> HIDE DEF secret
<1>2. PICK a \in DOMAIN secret, b \in DOMAIN secret :
        /\ NewLine \notin Range(SubSeq(secret, a, b))
        /\ a = 1 \/ secret[a - 1] = NewLine
        /\ b = Len(secret) \/ secret[b + 1] = NewLine
        /\ line = TrimSpace(SubSeq(secret, a, b))
        /\ Len(line) >= 2
  BY DEF SecretLines, secret
<1>3. a \in 1..Len(secret) /\ b \in 1..Len(secret)
  BY <1>1, <1>2
<1>4. a <= b
  <2> SUFFICES ASSUME ~(a <= b) PROVE FALSE
    OBVIOUS
  <2>1. SubSeq(secret, a, b) = <<>>
    BY <1>3, SubSeqEmpty
  <2>2. TrimSpace(<<>>) = <<>>
    BY DEF TrimSpace
  <2>3. Len(<<>>) = 0
    OBVIOUS
  <2>4. QED
    BY <1>2, <2>1, <2>2, <2>3
<1> DEFINE i == b + 1
           starts == {j \in 1..i : j = 1 \/ secret[j - 1] = NewLine}
<1>5. i \in 1..(Len(secret) + 1) /\ i - 1 = b /\ i \in Nat
  BY <1>1, <1>3
<1>6. \A j \in a..b : secret[j] # NewLine
  <2> SUFFICES ASSUME NEW j \in a..b PROVE secret[j] # NewLine
    OBVIOUS
  <2> DEFINE s == SubSeq(secret, a, b)
  <2>1. \A c \in a..b : secret[c] \in Byte
    BY <1>1, <1>3, ElementOfSeq
  <2>2. s \in Seq(Byte) /\ Len(s) = b - a + 1 /\ \A c \in 1..(b - a + 1) : s[c] = secret[a + c - 1]
    BY <1>3, <1>4, <2>1, SubSeqProperties
  <2> DEFINE c == j - a + 1
  <2>3. c \in 1..(b - a + 1) /\ a + c - 1 = j
    BY <1>3
  <2>4. DOMAIN s = 1..Len(s)
    BY <2>2, LenProperties
  <2> HIDE DEF s, c
  <2>5. s[c] = secret[j] /\ s[c] \in Range(s)
    BY <2>2, <2>3, <2>4 DEF Range
  <2>6. QED
    BY <1>2, <2>5 DEF s
<1>7. Max(starts) = a
  <2>1. a \in starts /\ starts \subseteq 0..i
    BY <1>2, <1>3, <1>4, <1>5
  <2>2. \A j \in starts : j <= a
    <3> SUFFICES ASSUME NEW j \in starts, ~(j <= a) PROVE FALSE
      OBVIOUS
    <3>1. j \in 1..i /\ j # 1 /\ secret[j - 1] = NewLine /\ j - 1 \in a..b
      BY <1>3, <1>5
    <3>2. QED
      BY <1>6, <3>1
  <2> HIDE DEF starts, i
  <2>3. Max(starts) \in starts /\ \A j \in starts : j <= Max(starts)
    BY <1>5, <2>1, GreatestOf
  <2>4. Max(starts) \in 0..i
    BY <2>1, <2>3
  <2>5. QED
    BY <1>3, <1>5, <2>1, <2>2, <2>3, <2>4
<1>8. i > Len(secret) \/ secret[i] = NewLine
  BY <1>2, <1>3
<1>9. PartTo(secret, i) = <<line>>
  <2> HIDE DEF i
  <2>1. TrimSpace(SubSeq(secret, Max(starts), i - 1)) = line
    BY <1>2, <1>5, <1>7
  <2>2. QED
    BY <1>2, <1>8, <2>1 DEF PartTo
<1> HIDE DEF i
<1>10. line \in Range(PartTo(secret, i))
  BY <1>9 DEF Range
<1>11. line \in Range(PartsOf(secret)) /\ PartsOf(secret) \in Seq(Part)
  BY <1>1, <1>5, <1>10, PartsOfIs
<1>12. line \in Part
  BY <1>11, RangeInSet
<1>13. QED
  BY <1>11, <1>12, PartsIs DEF secret

\* What holds of the last place, and of a place when it holds of all behind it, holds of all.
LEMMA DownTo ==
    ASSUME NEW n \in Nat, NEW T, n + 1 \in T,
           \A i \in 1..n : (\A j \in (i + 1)..(n + 1) : j \in T) => i \in T
    PROVE  \A i \in 1..(n + 1) : i \in T
<1> DEFINE U == {i \in 1..(n + 1) : i \notin T}
<1> SUFFICES ASSUME NEW u \in U PROVE FALSE
  OBVIOUS
<1>1. U \subseteq 0..(n + 1) /\ U # {} /\ n + 1 \in Nat
  OBVIOUS
<1> DEFINE m == Max(U)
<1>2. m \in U /\ \A k \in U : k <= m
  <2> HIDE DEF U
  <2>1. QED
    BY <1>1, GreatestOf
<1> HIDE DEF m
<1>3. m \in 1..n
  BY <1>2
<1>4. \A j \in (m + 1)..(n + 1) : j \in T
  <2> SUFFICES ASSUME NEW j \in (m + 1)..(n + 1), j \notin T PROVE FALSE
    OBVIOUS
  <2>1. j \in U /\ ~(j <= m)
    BY <1>3
  <2> HIDE DEF U
  <2>2. QED
    BY <1>2, <2>1
<1>5. m \in T
  BY <1>3, <1>4
<1>6. QED
  BY <1>2, <1>5

\* A walk through n places: a byte for each it stops at, and the place it goes on to.
Walks(f, n, byte, onward) ==
    f = [i \in 1..(n + 1) |-> IF i > n THEN <<>> ELSE <<byte[i]>> \o f[onward[i]]]

LEMMA WalkExists ==
    ASSUME NEW n \in Nat, NEW S, NEW byte \in [1..n -> S], NEW onward \in [1..n -> 1..(n + 1)],
           \A i \in 1..n : onward[i] > i
    PROVE  \E f \in [1..(n + 1) -> Seq(S)] : Walks(f, n, byte, onward)
<1> DEFINE At(f, i) == f[i] = IF i > n THEN <<>> ELSE <<byte[i]>> \o f[onward[i]]
           T == {k \in 1..(n + 1) : \E f \in [k..(n + 1) -> Seq(S)] : \A i \in k..(n + 1) : At(f, i)}
<1>1. n + 1 \in T
  <2> DEFINE f == [i \in (n + 1)..(n + 1) |-> <<>>]
  <2>1. f \in [(n + 1)..(n + 1) -> Seq(S)] /\ \A i \in (n + 1)..(n + 1) : At(f, i)
    OBVIOUS
  <2>2. n + 1 \in 1..(n + 1)
    OBVIOUS
  <2>3. QED
    BY <2>1, <2>2
<1>2. ASSUME NEW k \in 1..n, \A j \in (k + 1)..(n + 1) : j \in T
      PROVE  k \in T
  <2>1. k + 1 \in T
    <3> HIDE DEF T
    <3>1. k + 1 \in (k + 1)..(n + 1)
      OBVIOUS
    <3>2. QED
      BY <1>2, <3>1
  <2>2. PICK f \in [(k + 1)..(n + 1) -> Seq(S)] : \A i \in (k + 1)..(n + 1) : At(f, i)
    BY <2>1
  <2> DEFINE first == <<byte[k]>> \o f[onward[k]]
             g == [i \in k..(n + 1) |-> IF i = k THEN first ELSE f[i]]
  <2>3. onward[k] \in (k + 1)..(n + 1)
    OBVIOUS
  <2>4. first \in Seq(S)
    <3>1. <<byte[k]>> \in Seq(S) /\ f[onward[k]] \in Seq(S)
      BY <2>3, OneElement
    <3>2. QED
      BY <3>1, ConcatProperties
  <2>5. \A i \in k..(n + 1) : i # k => i \in (k + 1)..(n + 1)
    OBVIOUS
  <2>6. g \in [k..(n + 1) -> Seq(S)]
    <3> HIDE DEF first
    <3>1. QED
      BY <2>4, <2>5
  <2>7. ASSUME NEW i \in k..(n + 1) PROVE At(g, i)
    <3>1. CASE i = k
      <4>1. g[i] = first /\ g[onward[i]] = f[onward[i]]
        <5> HIDE DEF first
        <5>1. onward[i] \in k..(n + 1) /\ onward[i] # k
          BY <2>3, <3>1
        <5>2. QED
          BY <3>1, <5>1
      <4>2. QED
        BY <3>1, <4>1
    <3>2. CASE i # k
      <4>1. i \in (k + 1)..(n + 1) /\ (~(i > n) => i \in 1..n)
        BY <2>5, <3>2
      <4>2. ~(i > n) => onward[i] \in (k + 1)..(n + 1) /\ onward[i] # k /\ onward[i] \in k..(n + 1)
        BY <4>1
      <4>3. g[i] = f[i] /\ (~(i > n) => g[onward[i]] = f[onward[i]])
        <5> HIDE DEF first
        <5>1. QED
          BY <3>2, <4>2
      <4>4. At(f, i)
        BY <2>2, <4>1
      <4>5. QED
        BY <4>3, <4>4
    <3>3. QED
      BY <3>1, <3>2
  <2> HIDE DEF g, At
  <2>8. \E h \in [k..(n + 1) -> Seq(S)] : \A i \in k..(n + 1) : At(h, i)
    BY <2>6, <2>7
  <2>9. k \in 1..(n + 1)
    OBVIOUS
  <2>10. QED
    BY <2>8, <2>9
<1> HIDE DEF T
<1>3. \A k \in 1..(n + 1) : k \in T
  BY <1>1, <1>2, DownTo
<1>4. 1 \in T
  BY <1>3
<1>5. QED
  BY <1>4 DEF T, Walks

\* The parts that are found at a place.
FoundAt(text, parts, i) ==
    {k \in DOMAIN parts : i + Len(parts[k]) - 1 <= Len(text) /\ OccursAt(parts[k], text, i)}

WrittenAt(text, parts) ==
    [i \in 1..Len(text) |-> IF FoundAt(text, parts, i) = {} THEN text[i] ELSE Masked]

Onward(text, parts) ==
    [i \in 1..Len(text) |-> IF FoundAt(text, parts, i) = {} THEN i + 1
                            ELSE i + Len(parts[Min(FoundAt(text, parts, i))])]

LEMMA OnwardIs ==
    ASSUME NEW text \in Seq(Nat), NEW parts \in Seq(Part)
    PROVE  /\ Onward(text, parts) \in [1..Len(text) -> 1..(Len(text) + 1)]
           /\ \A i \in 1..Len(text) : Onward(text, parts)[i] > i
           /\ WrittenAt(text, parts) \in [1..Len(text) -> Nat]
<1> DEFINE n == Len(text)
<1>1. n \in Nat /\ \A i \in 1..n : text[i] \in Nat
  BY LenProperties, ElementOfSeq
<1>2. Len(parts) \in Nat /\ DOMAIN parts = 1..Len(parts) /\ \A k \in 1..Len(parts) : parts[k] \in Part
  BY LenProperties, ElementOfSeq
<1> HIDE DEF n
<1>3. ASSUME NEW i \in 1..n
      PROVE  /\ Onward(text, parts)[i] \in 1..(n + 1) /\ Onward(text, parts)[i] > i
             /\ WrittenAt(text, parts)[i] \in Nat
  <2> DEFINE found == FoundAt(text, parts, i)
  <2>1. WrittenAt(text, parts)[i] = IF found = {} THEN text[i] ELSE Masked
    BY DEF WrittenAt, n
  <2>2. Onward(text, parts)[i] = IF found = {} THEN i + 1 ELSE i + Len(parts[Min(found)])
    BY DEF Onward, n
  <2>3. found \subseteq 1..Len(parts) /\ found \subseteq Nat
    BY <1>2 DEF FoundAt
  <2>4. \A k \in found : i + Len(parts[k]) - 1 <= n
    BY DEF FoundAt, n
  <2> HIDE DEF found
  <2>5. CASE found = {}
    BY <1>1, <2>1, <2>2, <2>5
  <2>6. CASE found # {}
    <3>1. Min(found) \in found
      BY <2>3, <2>6, SmallestOf
    <3>2. parts[Min(found)] \in Part
      BY <1>2, <2>3, <3>1
    <3>3. Len(parts[Min(found)]) \in Nat /\ Len(parts[Min(found)]) >= 2
      BY <3>2, LenProperties DEF Part
    <3>4. i + Len(parts[Min(found)]) - 1 <= n
      BY <2>4, <3>1
    <3>5. Masked \in Nat
      BY DEF Masked
    <3> DEFINE l == Len(parts[Min(found)])
    <3> HIDE DEF l
    <3>6. l \in Nat /\ l >= 2 /\ i + l - 1 <= n /\ Onward(text, parts)[i] = i + l
      BY <2>2, <2>6, <3>3, <3>4 DEF l
    <3>7. QED
      BY <1>1, <2>1, <2>6, <3>5, <3>6
  <2>7. QED
    BY <2>5, <2>6
<1>4. QED
  BY <1>3 DEF Onward, WrittenAt, n

\* Replace is the first place of such a walk.
LEMMA ReplaceWalks ==
    ASSUME NEW text \in Seq(Nat), NEW parts \in Seq(Part)
    PROVE  \E f : /\ Walks(f, Len(text), WrittenAt(text, parts), Onward(text, parts))
                  /\ Replace(text, parts) = f[1]
<1> DEFINE n == Len(text)
           byte == WrittenAt(text, parts)
           onward == Onward(text, parts)
           Move(f) == [i \in 1..(n + 1) |-> IF i > n THEN <<>> ELSE <<byte[i]>> \o f[onward[i]]]
           Body(f) == [i \in 1..(n + 1) |->
                         IF i > n THEN <<>>
                         ELSE IF FoundAt(text, parts, i) = {} THEN <<text[i]>> \o f[i + 1]
                         ELSE <<Masked>> \o f[i + Len(parts[Min(FoundAt(text, parts, i))])]]
           F == CHOOSE f : f = Body(f)
<1>1. n \in Nat
  BY LenProperties
<1>2. Replace(text, parts) = F[1]
  BY DEF Replace, FoundAt
<1>3. ASSUME NEW f PROVE Body(f) = Move(f)
  <2>1. ASSUME NEW i \in 1..(n + 1), ~(i > n)
        PROVE  /\ byte[i] = IF FoundAt(text, parts, i) = {} THEN text[i] ELSE Masked
               /\ onward[i] = IF FoundAt(text, parts, i) = {} THEN i + 1
                              ELSE i + Len(parts[Min(FoundAt(text, parts, i))])
    <3>1. i \in 1..n
      BY <1>1, <2>1
    <3>2. QED
      BY <3>1 DEF WrittenAt, Onward
  <2> HIDE DEF byte, onward, n
  <2>2. QED
    BY <2>1
<1>4. PICK g : g = Move(g)
  <2>1. PICK g \in [1..(n + 1) -> Seq(Nat)] : Walks(g, n, byte, onward)
    <3>1. onward \in [1..n -> 1..(n + 1)] /\ (\A i \in 1..n : onward[i] > i) /\ byte \in [1..n -> Nat]
      BY OnwardIs
    <3> HIDE DEF byte, onward, n
    <3>2. QED
      BY <1>1, <3>1, WalkExists
  <2>2. QED
    BY <2>1 DEF Walks
<1>5. g = Body(g)
  <2> HIDE DEF Move, Body
  <2>1. QED
    BY <1>3, <1>4
<1>6. F = Body(F)
  <2> HIDE DEF Body
  <2>1. QED
    BY <1>5
<1> HIDE DEF F
<1>7. F = Move(F)
  <2> HIDE DEF Move, Body
  <2>1. QED
    BY <1>3, <1>6
<1>8. Walks(F, n, byte, onward)
  BY <1>7 DEF Walks
<1>9. QED
  BY <1>2, <1>8

\* A part that stands at place j of a text.
Stands(part, text, j) ==
    j + Len(part) - 1 <= Len(text) /\ \A l \in 1..Len(part) : text[j + l - 1] = part[l]

\* The bytes of `out` up to the first mask are those of the text from place i on.
CopiedFrom(out, text, parts, i) ==
    \A m \in 1..Len(out) : (\A l \in 1..m : out[l] # Masked) =>
        /\ FoundAt(text, parts, i) = {} /\ i + m - 1 <= Len(text)
        /\ \A l \in 1..m : out[l] = text[i + l - 1]

\* No part stands anywhere in `out`.
Clean(out, parts) == \A k \in DOMAIN parts, j \in 1..Len(out) : ~Stands(parts[k], out, j)

LEMMA StandsOccurs ==
    ASSUME NEW text \in Seq(Nat), NEW part \in Part, NEW i \in 1..Len(text)
    PROVE  Stands(part, text, i) <=> i + Len(part) - 1 <= Len(text) /\ OccursAt(part, text, i)
<1> DEFINE b == i + Len(part) - 1
           s == SubSeq(text, i, b)
<1>1. Len(part) \in Nat /\ Len(part) >= 2 /\ part \in Seq(Byte) /\ Len(text) \in Nat
  BY LenProperties DEF Part
<1> SUFFICES ASSUME b <= Len(text)
             PROVE  (\A l \in 1..Len(part) : text[i + l - 1] = part[l]) <=> s = part
  BY DEF Stands, OccursAt
<1>2. \A c \in i..b : text[c] \in Nat
  BY <1>1, ElementOfSeq
<1>3. b \in Int /\ i <= b /\ b - i + 1 = Len(part)
  BY <1>1
<1> HIDE DEF b
<1>4. s \in Seq(Nat) /\ Len(s) = Len(part) /\ \A l \in 1..Len(part) : s[l] = text[i + l - 1]
  BY <1>2, <1>3, SubSeqProperties
<1>5. part \in Seq(Nat)
  BY <1>1 DEF Byte
<1> HIDE DEF s
<1>6. s = part <=> \A l \in 1..Len(part) : s[l] = part[l]
  BY <1>4, <1>5, SeqEqual
<1>7. QED
  BY <1>4, <1>6

\* A byte is written and the rest follows.
LEMMA ByteAndRest ==
    ASSUME NEW x \in Nat, NEW rest \in Seq(Nat)
    PROVE  /\ <<x>> \o rest \in Seq(Nat) /\ Len(<<x>> \o rest) = Len(rest) + 1
           /\ (<<x>> \o rest)[1] = x /\ \A l \in 1..Len(rest) : (<<x>> \o rest)[l + 1] = rest[l]
<1> DEFINE c == Cat(<<x>>, rest)
<1>1. <<x>> \in Seq(Nat) /\ Len(<<x>>) = 1 /\ <<x>>[1] = x /\ Len(rest) \in Nat
  BY OneElement, LenProperties
<1>2. c \in Seq(Nat) /\ Len(c) = 1 + Len(rest)
      /\ \A i \in 1..(1 + Len(rest)) : c[i] = IF i <= 1 THEN <<x>>[i] ELSE rest[i - 1]
  <2>1. /\ Cat(<<x>>, rest) \in Seq(Nat) /\ Len(Cat(<<x>>, rest)) = Len(<<x>>) + Len(rest)
        /\ \A i \in 1..(Len(<<x>>) + Len(rest)) :
              Cat(<<x>>, rest)[i] = IF i <= Len(<<x>>) THEN <<x>>[i] ELSE rest[i - Len(<<x>>)]
    BY <1>1, CatIs
  <2>2. QED
    BY <1>1, <2>1
<1> HIDE DEF c
<1>3. c[1] = x
  BY <1>1, <1>2
<1>4. ASSUME NEW l \in 1..Len(rest) PROVE c[l + 1] = rest[l]
  <2>1. l + 1 \in 1..(1 + Len(rest)) /\ ~(l + 1 <= 1) /\ l + 1 - 1 = l
    BY <1>1
  <2>2. QED
    BY <1>2, <2>1
<1>5. QED
  BY <1>1, <1>2, <1>3, <1>4 DEF c, Cat

LEMMA CopiedFromStep ==
    ASSUME NEW text \in Seq(Nat), NEW parts \in Seq(Part), NEW i \in 1..Len(text),
           NEW rest \in Seq(Nat), NEW x \in Nat, NEW out \in Seq(Nat),
           Len(out) = Len(rest) + 1, out[1] = x, \A l \in 1..Len(rest) : out[l + 1] = rest[l],
           x = IF FoundAt(text, parts, i) = {} THEN text[i] ELSE Masked,
           FoundAt(text, parts, i) = {} => CopiedFrom(rest, text, parts, i + 1)
    PROVE  CopiedFrom(out, text, parts, i)
<1> SUFFICES ASSUME NEW m \in 1..Len(out), \A l \in 1..m : out[l] # Masked
             PROVE  /\ FoundAt(text, parts, i) = {} /\ i + m - 1 <= Len(text)
                    /\ \A l \in 1..m : out[l] = text[i + l - 1]
  BY DEF CopiedFrom
<1>1. Len(rest) \in Nat /\ Len(text) \in Nat
  BY LenProperties
<1>2. FoundAt(text, parts, i) = {} /\ out[1] = text[i]
  <2>1. 1 \in 1..m
    OBVIOUS
  <2>2. QED
    BY <2>1
<1>3. CASE m = 1
  BY <1>1, <1>2, <1>3
<1>4. CASE m # 1
  <2> DEFINE p == m - 1
  <2>1. p \in 1..Len(rest) /\ m = p + 1
    BY <1>1, <1>4
  <2> HIDE DEF p
  <2>2. \A l \in 1..p : rest[l] # Masked
    <3> SUFFICES ASSUME NEW l \in 1..p PROVE rest[l] # Masked
      OBVIOUS
    <3>1. l \in 1..Len(rest) /\ l + 1 \in 1..m
      BY <2>1
    <3>2. QED
      BY <3>1
  <2>3. i + 1 + p - 1 <= Len(text) /\ \A l \in 1..p : rest[l] = text[i + 1 + l - 1]
    BY <1>2, <2>1, <2>2 DEF CopiedFrom
  <2>4. ASSUME NEW l \in 1..m PROVE out[l] = text[i + l - 1]
    <3>1. CASE l = 1
      BY <1>2, <3>1
    <3>2. CASE l # 1
      <4> DEFINE q == l - 1
      <4>1. q \in 1..p /\ q \in 1..Len(rest) /\ l = q + 1 /\ i + 1 + q - 1 = i + l - 1
        BY <1>1, <2>1, <3>2
      <4> HIDE DEF q
      <4>2. out[q + 1] = rest[q] /\ rest[q] = text[i + 1 + q - 1]
        BY <2>3, <4>1
      <4>3. QED
        BY <4>1, <4>2
    <3>3. QED
      BY <3>1, <3>2
  <2>5. i + m - 1 <= Len(text)
    BY <1>1, <2>1, <2>3
  <2>6. QED
    BY <1>2, <2>4, <2>5
<1>5. QED
  BY <1>3, <1>4

LEMMA CleanStep ==
    ASSUME NEW text \in Seq(Nat), NEW parts \in Seq(Part), NEW i \in 1..Len(text),
           NEW rest \in Seq(Nat), NEW out \in Seq(Nat),
           Len(out) = Len(rest) + 1, \A l \in 1..Len(rest) : out[l + 1] = rest[l],
           CopiedFrom(out, text, parts, i), Clean(rest, parts)
    PROVE  Clean(out, parts)
<1> SUFFICES ASSUME NEW k \in DOMAIN parts, NEW j \in 1..Len(out), Stands(parts[k], out, j)
             PROVE  FALSE
  BY DEF Clean
<1> DEFINE part == parts[k]
           m == Len(part)
<1>1. part \in Part
  BY ElementOfSeq, LenProperties
<1> HIDE DEF part
<1>2. m \in Nat /\ m >= 2 /\ \A l \in 1..m : part[l] \in Byte
  BY <1>1, LenProperties, ElementOfSeq DEF Part
<1>3. Len(rest) \in Nat /\ Len(text) \in Nat /\ DOMAIN parts = 1..Len(parts)
  BY LenProperties
<1>4. j + m - 1 <= Len(out) /\ \A l \in 1..m : out[j + l - 1] = part[l]
  BY DEF Stands, part
<1> HIDE DEF m
<1>5. CASE j = 1
  <2>1. m \in 1..Len(out) /\ \A l \in 1..m : out[l] = part[l]
    BY <1>2, <1>3, <1>4, <1>5
  <2>2. \A l \in 1..m : out[l] # Masked
    BY <1>2, <2>1 DEF Byte
  <2>3. /\ FoundAt(text, parts, i) = {} /\ i + m - 1 <= Len(text)
        /\ \A l \in 1..m : out[l] = text[i + l - 1]
    BY <2>1, <2>2 DEF CopiedFrom
  <2>4. Stands(part, text, i)
    BY <2>1, <2>3 DEF Stands, m
  <2>5. OccursAt(part, text, i)
    BY <1>1, <2>4, StandsOccurs
  <2>6. k \in FoundAt(text, parts, i)
    BY <2>3, <2>5 DEF FoundAt, m, part
  <2>7. QED
    BY <2>3, <2>6
<1>6. CASE j # 1
  <2> DEFINE q == j - 1
  <2>1. q \in 1..Len(rest) /\ j = q + 1 /\ q + m - 1 <= Len(rest)
    BY <1>2, <1>3, <1>4, <1>6
  <2> HIDE DEF q
  <2>2. ASSUME NEW l \in 1..m PROVE rest[q + l - 1] = part[l]
    <3> DEFINE r == q + l - 1
    <3>1. r \in 1..Len(rest) /\ r + 1 = j + l - 1
      BY <1>2, <1>3, <2>1
    <3> HIDE DEF r
    <3>2. out[r + 1] = rest[r] /\ out[r + 1] = part[l]
      BY <1>4, <3>1
    <3>3. QED
      BY <3>2 DEF r
  <2>3. Stands(part, rest, q)
    BY <2>1, <2>2 DEF Stands, m
  <2>4. QED
    BY <2>1, <2>3 DEF Clean, part
<1>7. QED
  BY <1>5, <1>6

\* Nothing that is masked can be read in what Replace returns.
LEMMA ReplaceIsClean ==
    ASSUME NEW text \in Seq(Nat), NEW parts \in Seq(Part)
    PROVE  Replace(text, parts) \in Seq(Nat) /\ Clean(Replace(text, parts), parts)
<1> DEFINE n == Len(text)
           byte == WrittenAt(text, parts)
           onward == Onward(text, parts)
<1>1. PICK f : Walks(f, n, byte, onward) /\ Replace(text, parts) = f[1]
  BY ReplaceWalks
<1>2. n \in Nat /\ onward \in [1..n -> 1..(n + 1)] /\ (\A i \in 1..n : onward[i] > i)
      /\ byte \in [1..n -> Nat]
  BY OnwardIs, LenProperties
<1>3. \A i \in 1..n :
        /\ byte[i] = IF FoundAt(text, parts, i) = {} THEN text[i] ELSE Masked
        /\ FoundAt(text, parts, i) = {} => onward[i] = i + 1
  BY DEF WrittenAt, Onward
<1> HIDE DEF n, byte, onward
<1>4. \A i \in 1..(n + 1) : f[i] = IF i > n THEN <<>> ELSE <<byte[i]>> \o f[onward[i]]
  BY <1>1 DEF Walks
<1> DEFINE Fine(i) == f[i] \in Seq(Nat) /\ CopiedFrom(f[i], text, parts, i) /\ Clean(f[i], parts)
           T == {i \in 1..(n + 1) : Fine(i)}
<1>5. n + 1 \in T
  <2>1. n + 1 \in 1..(n + 1) /\ n + 1 > n
    BY <1>2
  <2>2. f[n + 1] = <<>>
    BY <1>4, <2>1
  <2>3. <<>> \in Seq(Nat) /\ Len(<<>>) = 0
    OBVIOUS
  <2>4. Fine(n + 1)
    BY <2>2, <2>3 DEF CopiedFrom, Clean
  <2>5. QED
    BY <2>1, <2>4
<1>6. ASSUME NEW i \in 1..n, \A j \in (i + 1)..(n + 1) : j \in T
      PROVE  i \in T
  <2> DEFINE rest == f[onward[i]]
             out == f[i]
  <2>1. onward[i] \in (i + 1)..(n + 1)
    BY <1>2
  <2>2. Fine(onward[i])
    <3> HIDE DEF Fine
    <3>1. QED
      BY <1>6, <2>1
  <2>3. out = <<byte[i]>> \o rest
    <3>1. i \in 1..(n + 1) /\ ~(i > n)
      BY <1>2
    <3>2. QED
      BY <1>4, <3>1
  <2>4. rest \in Seq(Nat) /\ Clean(rest, parts) /\ byte[i] \in Nat
    BY <1>2, <2>2
  <2>5. FoundAt(text, parts, i) = {} => CopiedFrom(rest, text, parts, i + 1)
    BY <1>3, <2>2
  <2>6. i \in 1..Len(text) /\ i \in 1..(n + 1)
    BY <1>2 DEF n
  <2>7. byte[i] = IF FoundAt(text, parts, i) = {} THEN text[i] ELSE Masked
    BY <1>3
  <2> HIDE DEF rest, out
  <2>8. /\ out \in Seq(Nat) /\ Len(out) = Len(rest) + 1
        /\ out[1] = byte[i] /\ \A l \in 1..Len(rest) : out[l + 1] = rest[l]
    BY <2>3, <2>4, ByteAndRest
  <2>9. CopiedFrom(out, text, parts, i)
    BY <2>4, <2>5, <2>6, <2>7, <2>8, CopiedFromStep
  <2>10. Clean(out, parts)
    BY <2>4, <2>6, <2>8, <2>9, CleanStep
  <2>11. QED
    BY <2>6, <2>8, <2>9, <2>10 DEF out
<1> HIDE DEF T, Fine
<1>7. \A i \in 1..(n + 1) : i \in T
  BY <1>2, <1>5, <1>6, DownTo
<1>8. 1 \in 1..(n + 1)
  BY <1>2
<1>9. Fine(1)
  BY <1>7, <1>8 DEF T
<1>10. QED
  BY <1>1, <1>9 DEF Fine

LEMMA SecretsAre ==
    ASSUME NEW req \in Requests
    PROVE  req.secrets \in Seq(Seq(Byte))
<1> DEFINE secrets == req.secrets
           n == Len(secrets)
<1>1. secrets \in Seq(Seq(Nat)) /\ \A secret \in Range(secrets) : Masked \notin Range(secret)
  BY RequestIs, StepRunAssumption
<1> HIDE DEF secrets
<1>2. n \in Nat /\ DOMAIN secrets = 1..n /\ \A k \in 1..n : secrets[k] \in Seq(Nat)
  BY <1>1, LenProperties, ElementOfSeq
<1>3. ASSUME NEW k \in 1..n PROVE secrets[k] \in Seq(Byte)
  <2> DEFINE secret == secrets[k]
             m == Len(secret)
  <2>1. secret \in Seq(Nat) /\ Masked \notin Range(secret)
    BY <1>1, <1>2 DEF Range
  <2> HIDE DEF secret
  <2>2. m \in Nat /\ DOMAIN secret = 1..m /\ secret = [i \in 1..m |-> secret[i]]
        /\ \A i \in 1..m : secret[i] \in Nat
    BY <2>1, LenProperties, ElementOfSeq
  <2>3. \A i \in 1..m : secret[i] # Masked
    BY <2>1, <2>2 DEF Range
  <2> HIDE DEF m
  <2>4. secret \in [1..m -> Byte]
    BY <2>2, <2>3 DEF Byte
  <2>5. secret \in Seq(Byte)
    BY <2>2, <2>4, FunctionIsSeq
  <2>6. QED
    BY <2>5 DEF secret
<1> HIDE DEF n
<1>4. secrets = [k \in 1..n |-> secrets[k]]
  BY <1>1, <1>2, LenProperties DEF n
<1>5. secrets \in [1..n -> Seq(Byte)]
  BY <1>3, <1>4
<1>6. secrets \in Seq(Seq(Byte))
  BY <1>2, <1>5, FunctionIsSeq
<1>7. QED
  BY <1>6 DEF secrets

(* The masked writer looks for the parts of the request's secrets, and none  *)
(* of them stands in what it has passed on.                                  *)
Clear(parts) == {out \in Seq(Nat) : Clean(out, parts)}

MaskInv ==
    /\ run.parts = Parts(run.req.secrets)
    /\ sink \in Seq(Clear(run.parts))

LEMMA MaskIsClear ==
    ASSUME RunTyped, MaskInv, NEW data \in Seq(Nat)
    PROVE  Mask(data) \in Clear(run.parts)
<1>1. run.parts \in Seq(Part)
  BY SecretsAre, PartsIs DEF RunTyped, RunRecord, MaskInv
<1>2. QED
  BY <1>1, ReplaceIsClean DEF Mask, Clear

LEMMA MaskStep ==
    ASSUME RunTyped, PrintHeld, Copied, MaskInv, [Next]_vars
    PROVE  MaskInv'
<1> DEFINE S == Clear(run.parts)
<1>1. run'.req = run.req /\ run'.parts = run.parts
  BY RunStep
<1> SUFFICES sink' \in Seq(S)
  BY <1>1 DEF MaskInv
<1>2. sink \in Seq(S)
  BY DEF MaskInv
<1>3. CASE UNCHANGED sink
  BY <1>2, <1>3
<1>4. CASE UNCHANGED vars
  BY <1>3, <1>4 DEF vars
<1>5. CASE PrintMasked
  <2> DEFINE todo == run.todo
             more == [i \in DOMAIN todo |-> Mask(todo[i])]
             n == Len(todo)
  <2>1. todo \in Seq(Seq(Nat))
    BY DEF RunTyped, RunRecord
  <2> HIDE DEF todo
  <2>2. n \in Nat /\ DOMAIN todo = 1..n /\ \A i \in 1..n : todo[i] \in Seq(Nat)
    BY <2>1, LenProperties, ElementOfSeq
  <2> HIDE DEF n
  <2>3. \A i \in 1..n : Mask(todo[i]) \in S
    BY <2>2, MaskIsClear
  <2> HIDE DEF S
  <2>4. more \in [1..n -> S]
    BY <2>2, <2>3
  <2>5. more \in Seq(S)
    BY <2>2, <2>4, FunctionIsSeq
  <2>6. sink' = sink \o more
    BY <1>5 DEF PrintMasked, todo
  <2> HIDE DEF more
  <2>7. QED
    BY <1>2, <2>5, <2>6, ConcatProperties
<1>6. CASE CopyMasked
  <2>1. Piece \in Seq(Nat)
    BY <1>6, PieceIs DEF Copied, CopyMasked, CopierWrites
  <2>2. Mask(Piece) \in S
    BY <2>1, MaskIsClear
  <2>3. sink' = Append(sink, Mask(Piece))
    BY <1>6 DEF CopyMasked
  <2> HIDE DEF S
  <2>4. QED
    BY <1>2, <2>2, <2>3, AppendProperties
<1>7. CASE RunAgain
  <2>1. sink' = <<>>
    BY <1>7 DEF RunAgain
  <2>2. QED
    BY <2>1
<1>8. CASE Runner
  BY <1>3, <1>5, <1>8
     DEF Runner, MakeLog, SetupFails, Reject, PanicUnprepared, Prepare, PrintLock, stepVars,
         PrintUnlock, EngineFails, EngineStarts, EngineReturns, CmdWaitFails, EngineGives,
         RemarkMade, Collect, PanicCollect
<1>9. CASE Step
  BY <1>3, <1>7, <1>9 DEF Step, Output, OutputEnds, StepExits, Exit, WaitFails, EngineGives, Expire,
                          stepVars
<1>10. CASE Copier \/ (\E w \in LogWriters : SendOn(w))
            \/ (\E s \in Subscribers : Stream(s) \/ ClientLeaves(s))
  BY <1>3, <1>6, <1>10 DEF Copier, CopierReads, CopyLock, CopyUnlock, SendOn, Stream,
                     ClientLeaves, stepVars
<1>11. QED
  BY <1>4, <1>8, <1>9, <1>10 DEF Next

LEMMA MaskBegins == ASSUME StepRunInit PROVE MaskInv
<1>1. run.parts = Parts(run.req.secrets) /\ sink = <<>>
  BY DEF StepRunInit
<1>2. QED
  BY <1>1 DEF MaskInv

\* What Clean excludes is what SecretsMasked does.
LEMMA ClearIsMasked ==
    ASSUME RunTyped, MaskInv
    PROVE  SecretsMasked
<1> DEFINE secrets == run.req.secrets
           parts == Parts(secrets)
<1>1. secrets \in Seq(Seq(Byte))
  BY SecretsAre DEF RunTyped, RunRecord
<1>2. run.parts = parts /\ sink \in Seq(Clear(parts))
  BY DEF MaskInv
<1> HIDE DEF secrets, parts
<1>3. DOMAIN secrets = 1..Len(secrets)
  BY <1>1, LenProperties
<1> SUFFICES ASSUME NEW i \in DOMAIN sink, NEW k \in DOMAIN secrets,
                    NEW line \in SecretLines(secrets[k]), Shows(sink[i], <<line>>)
             PROVE  FALSE
  BY DEF SecretsMasked, Req, secrets
<1> DEFINE out == sink[i]
<1>4. out \in Seq(Nat) /\ Clean(out, parts)
  <2>1. out \in Clear(parts)
    BY <1>2, LenProperties, ElementOfSeq
  <2>2. QED
    BY <2>1 DEF Clear
<1> HIDE DEF out
<1>5. line \in Range(parts) /\ line \in Part
  BY <1>1, <1>3, LineIsPart DEF parts
<1>6. PICK q \in DOMAIN parts : parts[q] = line
  BY <1>5 DEF Range
<1>7. PICK j \in DOMAIN out : j + Len(line) - 1 <= Len(out) /\ OccursAt(line, out, j)
  BY DEF Shows, out
<1>8. j \in 1..Len(out)
  BY <1>4, <1>7, LenProperties
<1>9. Stands(line, out, j)
  BY <1>4, <1>5, <1>7, <1>8, StandsOccurs
<1>10. QED
  BY <1>4, <1>6, <1>8, <1>9 DEF Clean

(* No line of a secret can be read in a write to the log of a step that is   *)
(* no drone step: not in one of its output, however the copier cuts it, and  *)
(* not in one of the command that is printed; for any secrets that the mask  *)
(* itself does not show, any requests and programs (replacer.go:22-55).      *)
THEOREM SecretsMaskedAlways == Spec => []SecretsMasked
<1>1. ASSUME IInv, MaskInv, [Next]_vars PROVE MaskInv'
  BY <1>1, MaskStep DEF IInv
<1>2. ASSUME IInv, MaskInv PROVE SecretsMasked
  BY <1>2, ClearIsMasked DEF IInv
<1>3. QED
  BY <1>1, <1>2, Invariant, MaskBegins, PTL DEF Spec

(* Every state of a step, of its log, its files and its followers is well    *)
(* typed.                                                                    *)
THEOREM TypeCorrect == Spec => []TypeOK
<1>1. ASSUME IInv, MaskInv, [Next]_vars PROVE MaskInv'
  BY <1>1, MaskStep DEF IInv
<1>2. ASSUME IInv, MaskInv PROVE TypeOK
  <2>1. RunTyped /\ Copied /\ LogInv /\ ResultsInv
    BY <1>2 DEF IInv
  <2>2. /\ run.pc \in Places /\ run.n \in 1..MaxRuns /\ run.req \in Requests
        /\ run.todo \in Seq(Seq(Nat)) /\ run.res \in Returned /\ run.through \in BOOLEAN
    BY <2>1 DEF RunTyped, RunRecord
  <2>3. run.res.state \in State \cup {NoState}
    BY <2>2, PendingIs DEF Returned, Ended
  <2>4. ASSUME NEW f \in Files
        PROVE  /\ files[f].there \in {"absent", "locked", "present"}
               /\ \A i \in DOMAIN files[f].lines : files[f].lines[i].by \in 1..MaxRuns
    <3>1. files[f].there \in {"absent", "locked", "present"} /\ files[f].lines \in Seq(Line)
      BY <2>1 DEF ResultsInv, FilesInv, File
    <3>2. \A i \in DOMAIN files[f].lines : files[f].lines[i] \in Line
      BY <3>1, LenProperties, ElementOfSeq
    <3>3. QED
      BY <3>1, <3>2 DEF Line
  <2>5. sink \in Seq(Seq(Nat))
    BY <1>2 DEF MaskInv, Clear
  <2>6. Len(results) <= run.n
    BY <2>1, <2>2 DEF ResultsInv, Counted
  <2>7. StdCopyTypeOK
    BY <2>1 DEF Copied, CopyInv, Wire, Copying, StdCopyTypeOK
  <2>8. StepLogTypeOK
    BY <2>1 DEF LogInv
  <2>9. QED
    BY <2>2, <2>3, <2>4, <2>5, <2>6, <2>7, <2>8 DEF TypeOK, Places
<1>3. QED
  BY <1>1, <1>2, Invariant, MaskBegins, PTL DEF Spec

-----------------------------------------------------------------------------
(* The declared variables.                                                   *)

\* The line of a variable, and what is read from it.
LEMMA LineRead ==
    ASSUME NEW key \in Token, NEW delim \in Token, NEW value \in Text
    PROVE  LET text == <<key, delim>> \o value IN
           /\ text \in Text
           /\ key # delim =>
                 Find(text, delim) = 2 /\ KeyOf(text, delim) = <<key>> /\ ValueOf(text, delim) = value
           /\ key = delim => KeyOf(text, delim) = <<>>
<1> DEFINE pair == <<key, delim>>
           text == Cat(pair, value)
           places == {i \in 1..Len(text) : text[i] = delim}
<1>1. pair \in Seq(Token) /\ Len(pair) = 2 /\ pair[1] = key /\ pair[2] = delim
  OBVIOUS
<1>2. value \in Seq(Token) /\ Len(value) \in Nat
  BY LenProperties DEF Text
<1> HIDE DEF pair
<1>3. /\ text \in Seq(Token) /\ Len(text) = 2 + Len(value)
      /\ \A i \in 1..(2 + Len(value)) : text[i] = IF i <= 2 THEN pair[i] ELSE value[i - 2]
  <2>1. /\ text \in Seq(Token) /\ Len(text) = Len(pair) + Len(value)
        /\ \A i \in 1..(Len(pair) + Len(value)) :
              text[i] = IF i <= Len(pair) THEN pair[i] ELSE value[i - Len(pair)]
    BY <1>1, <1>2, CatIs
  <2>2. QED
    BY <1>1, <2>1
<1> HIDE DEF text
<1>4. text[1] = key /\ text[2] = delim /\ \A i \in 1..Len(value) : text[i + 2] = value[i]
  <2>1. 1 \in 1..(2 + Len(value)) /\ 2 \in 1..(2 + Len(value))
    BY <1>2
  <2>2. ASSUME NEW i \in 1..Len(value) PROVE text[i + 2] = value[i]
    <3>1. i + 2 \in 1..(2 + Len(value)) /\ ~(i + 2 <= 2) /\ i + 2 - 2 = i
      BY <1>2
    <3>2. QED
      BY <1>3, <3>1
  <2>3. QED
    BY <1>1, <1>3, <2>1, <2>2
<1>5. Find(text, delim) = IF places # {} THEN Min(places) ELSE 0
  BY DEF Find, SelectInSeq
<1>6. 2 \in places /\ places \subseteq Nat /\ (1 \in places <=> key = delim)
  BY <1>2, <1>3, <1>4
<1>7. Min(places) \in places /\ \A i \in places : Min(places) <= i
  <2> HIDE DEF places
  <2>1. QED
    BY <1>6, SmallestOf
<1>8. Min(places) \in 1..2
  BY <1>3, <1>6, <1>7
<1> HIDE DEF places
<1>9. CASE key # delim
  <2>1. Find(text, delim) = 2
    BY <1>5, <1>6, <1>7, <1>8, <1>9
  <2>2. KeyOf(text, delim) = <<key>>
    <3> DEFINE s == SubSeq(text, 1, 1)
    <3>1. s \in Seq(Token) /\ Len(s) = 1 /\ s[1] = key
      <4>1. 1 \in Nat /\ 1 <= Len(text)
        BY <1>2, <1>3
      <4>2. QED
        BY <1>3, <1>4, <4>1, FirstOfSeq
    <3>2. KeyOf(text, delim) = s
      BY <2>1 DEF KeyOf
    <3> HIDE DEF s
    <3>3. QED
      BY <3>1, <3>2
  <2>3. ValueOf(text, delim) = value
    <3> DEFINE s == SubSeq(text, 3, Len(text))
    <3>1. \A i \in 3..Len(text) : text[i] \in Token
      BY <1>3, ElementOfSeq
    <3>2. s \in Seq(Token) /\ Len(s) = Len(value)
          /\ \A i \in 1..Len(value) : s[i] = text[i + 2]
      <4>1. /\ s \in Seq(Token) /\ Len(s) = IF 3 <= Len(text) THEN Len(text) - 3 + 1 ELSE 0
            /\ \A i \in 1..(Len(text) - 3 + 1) : s[i] = text[3 + i - 1]
        <5>1. 3 \in Int /\ Len(text) \in Int
          BY <1>2, <1>3
        <5>2. QED
          BY <3>1, <5>1, SubSeqProperties
      <4> HIDE DEF s
      <4>2. Len(s) = Len(value) /\ Len(text) - 3 + 1 = Len(value)
        BY <1>2, <1>3, <4>1
      <4>3. QED
        BY <1>2, <4>1, <4>2
    <3>3. ValueOf(text, delim) = s
      BY <2>1 DEF ValueOf
    <3> HIDE DEF s
    <3>4. \A i \in 1..Len(value) : s[i] = value[i]
      BY <1>4, <3>2
    <3>5. s = value
      BY <1>2, <3>2, <3>4, SeqEqual
    <3>6. QED
      BY <3>3, <3>5
  <2>4. QED
    BY <1>3, <1>9, <2>1, <2>2, <2>3 DEF text, pair, Cat, Text
<1>10. CASE key = delim
  <2>1. Find(text, delim) = 1
    BY <1>5, <1>6, <1>7, <1>8, <1>10
  <2>2. KeyOf(text, delim) = <<>>
    <3>1. SubSeq(text, 1, 0) = <<>>
      BY SubSeqEmpty
    <3>2. QED
      BY <2>1, <3>1 DEF KeyOf
  <2>3. QED
    BY <1>3, <1>10, <2>2 DEF text, pair, Cat, Text
<1>11. QED
  BY <1>9, <1>10

\* A text without a break is one line.
LEMMA OneLine ==
    ASSUME NEW text \in Text, Break \notin Range(text)
    PROVE  LinesIn(text) = <<text>>
<1> DEFINE n == Len(text)
           pieces == [i \in 1..(n + 1) |-> LineTo(text, i)]
           front == [i \in 1..n |-> <<>>]
<1>1. n \in Nat /\ text \in Seq(Token) /\ DOMAIN text = 1..n
  BY LenProperties DEF Text
<1>2. \A i \in 1..n : text[i] # Break
  BY <1>1 DEF Range
<1>3. \A i \in 1..n : LineTo(text, i) = <<>>
  BY <1>1, <1>2 DEF LineTo
<1>4. LineTo(text, n + 1) = <<text>>
  <2> DEFINE i == n + 1
             starts == {j \in 1..i : j = 1 \/ text[j - 1] = Break}
  <2>1. starts = {1}
    <3>1. ASSUME NEW j \in 2..i PROVE text[j - 1] # Break
      <4>1. j - 1 \in 1..n
        BY <1>1
      <4>2. QED
        BY <1>2, <4>1
    <3>2. QED
      BY <1>1, <3>1
  <2> HIDE DEF starts
  <2>2. Max(starts) = 1
    <3>1. starts \subseteq 0..1 /\ starts # {}
      BY <2>1
    <3>2. Max(starts) \in starts
      BY <3>1, GreatestOf
    <3>3. QED
      BY <2>1, <3>2
  <2>3. SubSeq(text, 1, n) = text
    BY <1>1, SubSeqFull
  <2>4. i > n /\ i - 1 = n
    BY <1>1
  <2> HIDE DEF i, n
  <2>5. SubSeq(text, Max(starts), i - 1) = text
    BY <2>2, <2>3, <2>4
  <2>6. LineTo(text, i) = <<SubSeq(text, Max(starts), i - 1)>>
    BY <2>4 DEF LineTo, starts, n
  <2>7. QED
    BY <2>5, <2>6 DEF i
<1>5. front \in Seq(Seq(Text)) /\ Len(front) = n
  <2> HIDE DEF n
  <2>1. front \in [1..n -> Seq(Text)]
    <3>1. <<>> \in Seq(Text)
      OBVIOUS
    <3>2. QED
      BY <3>1
  <2> HIDE DEF front
  <2>2. QED
    BY <1>1, <2>1, FunctionIsSeq
<1>6. <<text>> \in Seq(Text)
  BY OneElement
<1>7. pieces = Append(front, <<text>>)
  <2> DEFINE c == Append(front, <<text>>)
  <2>1. pieces \in [1..(n + 1) -> Seq(Text)]
    <3>1. \A i \in 1..(n + 1) : LineTo(text, i) \in Seq(Text)
      BY LineToIs
    <3> HIDE DEF n
    <3>2. QED
      BY <3>1
  <2>2. pieces \in Seq(Seq(Text)) /\ Len(pieces) = n + 1
    <3> HIDE DEF pieces
    <3>1. n + 1 \in Nat
      BY <1>1
    <3> HIDE DEF n
    <3>2. QED
      BY <2>1, <3>1, FunctionIsSeq
  <2>3. c \in Seq(Seq(Text)) /\ Len(c) = n + 1 /\ c[n + 1] = <<text>> /\ \A i \in 1..n : c[i] = front[i]
    <3> HIDE DEF front, n
    <3>1. QED
      BY <1>5, <1>6, AppendProperties
  <2>4. ASSUME NEW i \in 1..(n + 1) PROVE pieces[i] = c[i]
    <3>1. pieces[i] = LineTo(text, i)
      OBVIOUS
    <3>2. CASE i = n + 1
      <4> HIDE DEF pieces, c
      <4>1. QED
        BY <1>4, <2>3, <3>1, <3>2
    <3>3. CASE i # n + 1
      <4>1. i \in 1..n
        BY <1>1, <3>3
      <4>2. front[i] = <<>>
        BY <4>1
      <4> HIDE DEF pieces, c, front
      <4>3. QED
        BY <1>3, <2>3, <3>1, <4>1, <4>2
    <3>4. QED
      BY <3>2, <3>3
  <2> HIDE DEF pieces, c
  <2>5. pieces = c
    BY <2>2, <2>3, <2>4, SeqEqual
  <2>6. QED
    BY <2>5 DEF c
<1>8. FlattenSeq(front) = <<>>
  <2> DEFINE T == {s \in Seq(Seq(Text)) : (\A i \in 1..Len(s) : s[i] = <<>>) => FlattenSeq(s) = <<>>}
  <2>1. <<>> \in T
    BY FlattenEmpty
  <2>2. ASSUME NEW s \in Seq(Seq(Text)), NEW e \in Seq(Text), s \in T
        PROVE  Append(s, e) \in T
    <3> DEFINE c == Append(s, e)
    <3>1. c \in Seq(Seq(Text)) /\ Len(c) = Len(s) + 1 /\ c[Len(s) + 1] = e
          /\ (\A i \in 1..Len(s) : c[i] = s[i]) /\ Len(s) \in Nat
      BY AppendProperties, LenProperties
    <3>2. FlattenSeq(c) = FlattenSeq(s) \o e
      BY FlattenAppend
    <3>3. (\A i \in 1..Len(s) : s[i] = <<>>) => FlattenSeq(s) = <<>>
      BY <2>2
    <3> HIDE DEF c, T
    <3>4. ASSUME \A i \in 1..Len(c) : c[i] = <<>> PROVE FlattenSeq(c) = <<>>
      <4>1. e = <<>>
        <5>1. Len(s) + 1 \in 1..Len(c)
          BY <3>1
        <5>2. QED
          BY <3>1, <3>4, <5>1
      <4>2. \A i \in 1..Len(s) : s[i] = <<>>
        <5> SUFFICES ASSUME NEW i \in 1..Len(s) PROVE s[i] = <<>>
          OBVIOUS
        <5>1. i \in 1..Len(c)
          BY <3>1
        <5>2. QED
          BY <3>1, <3>4, <5>1
      <4>3. FlattenSeq(s) = <<>>
        BY <3>3, <4>2
      <4>4. <<>> \o <<>> = <<>>
        OBVIOUS
      <4>5. QED
        BY <3>2, <4>1, <4>3, <4>4
    <3>5. QED
      BY <3>1, <3>4 DEF T, c
  <2> HIDE DEF T
  <2>3. front \in T
    <3> HIDE DEF front
    <3>1. QED
      BY <1>5, <2>1, <2>2, EverySeq
  <2>4. \A i \in 1..Len(front) : front[i] = <<>>
    BY <1>5
  <2> HIDE DEF front
  <2>5. QED
    BY <2>3, <2>4 DEF T
<1>9. LinesIn(text) = FlattenSeq(pieces)
  BY DEF LinesIn
<1> HIDE DEF pieces, front, n
<1>10. FlattenSeq(pieces) = <<>> \o <<text>>
  BY <1>5, <1>6, <1>7, <1>8, FlattenAppend
<1>11. <<>> \o <<text>> = <<text>>
  BY <1>6, ConcatEmptySeq
<1>12. QED
  BY <1>9, <1>10, <1>11

\* Among the texts is one, and none behind it has its key.
Stays(texts, text, key, delim) ==
    \E l \in 1..Len(texts) :
        /\ texts[l] = text
        /\ \A m \in 1..Len(texts) : m > l => KeyOf(texts[m], delim) # <<key>>

LEMMA StaysLast ==
    ASSUME NEW texts \in Seq(Text), NEW text \in Text, NEW key, NEW delim
    PROVE  Stays(texts \o <<text>>, text, key, delim)
<1> DEFINE c == Append(texts, text)
<1>1. c = texts \o <<text>>
  BY AppendIsConcat
<1>2. Len(c) = Len(texts) + 1 /\ c[Len(texts) + 1] = text /\ Len(texts) \in Nat
  BY AppendProperties, LenProperties
<1> HIDE DEF c
<1>3. Stays(c, text, key, delim)
  BY <1>2 DEF Stays
<1>4. QED
  BY <1>1, <1>3

LEMMA StaysBefore ==
    ASSUME NEW texts \in Seq(Text), NEW other \in Text, NEW text, NEW key, NEW delim,
           Stays(texts, text, key, delim), KeyOf(other, delim) # <<key>>
    PROVE  Stays(texts \o <<other>>, text, key, delim)
<1> DEFINE c == Append(texts, other)
<1>1. c = texts \o <<other>>
  BY AppendIsConcat
<1>2. Len(c) = Len(texts) + 1 /\ c[Len(texts) + 1] = other /\ Len(texts) \in Nat
      /\ \A i \in 1..Len(texts) : c[i] = texts[i]
  BY AppendProperties, LenProperties
<1> HIDE DEF c
<1>3. PICK l \in 1..Len(texts) :
        /\ texts[l] = text
        /\ \A m \in 1..Len(texts) : m > l => KeyOf(texts[m], delim) # <<key>>
  BY DEF Stays
<1>4. l \in 1..Len(c) /\ c[l] = text
  BY <1>2, <1>3
<1>5. ASSUME NEW m \in 1..Len(c), m > l PROVE KeyOf(c[m], delim) # <<key>>
  <2>1. CASE m = Len(texts) + 1
    BY <1>2, <2>1
  <2>2. CASE m # Len(texts) + 1
    <3>1. m \in 1..Len(texts)
      BY <1>2, <2>2
    <3>2. QED
      BY <1>2, <1>3, <1>5, <3>1
  <2>3. QED
    BY <2>1, <2>2
<1>6. QED
  BY <1>1, <1>4, <1>5 DEF Stays

LEMMA StaysBehind ==
    ASSUME NEW front \in Seq(Text), NEW texts \in Seq(Text), NEW text, NEW key, NEW delim,
           Stays(texts, text, key, delim)
    PROVE  Stays(front \o texts, text, key, delim)
<1> DEFINE c == Cat(front, texts)
           n == Len(front)
<1>1. /\ Len(c) = n + Len(texts) /\ n \in Nat /\ Len(texts) \in Nat
      /\ \A i \in 1..(n + Len(texts)) : c[i] = IF i <= n THEN front[i] ELSE texts[i - n]
  BY CatIs
<1>2. c = front \o texts
  BY DEF Cat
<1> HIDE DEF c, n
<1>3. PICK l \in 1..Len(texts) :
        /\ texts[l] = text
        /\ \A m \in 1..Len(texts) : m > l => KeyOf(texts[m], delim) # <<key>>
  BY DEF Stays
<1>4. n + l \in 1..Len(c) /\ c[n + l] = text
  <2>1. n + l \in 1..(n + Len(texts)) /\ ~(n + l <= n) /\ n + l - n = l
    BY <1>1
  <2>2. QED
    BY <1>1, <1>3, <2>1
<1>5. ASSUME NEW m \in 1..Len(c), m > n + l PROVE KeyOf(c[m], delim) # <<key>>
  <2> DEFINE q == m - n
  <2>1. q \in 1..Len(texts) /\ q > l /\ m \in 1..(n + Len(texts)) /\ ~(m <= n)
    BY <1>1, <1>5
  <2>2. c[m] = texts[q]
    BY <1>1, <2>1
  <2> HIDE DEF q
  <2>3. QED
    BY <1>3, <2>1, <2>2
<1>6. QED
  BY <1>2, <1>4, <1>5 DEF Stays

\* The line of a declared variable stays, when those after it are lines of other keys.
LEMMA DeclaredStays ==
    ASSUME NEW decl \in Seq(Declaration), NEW env, \A var \in DOMAIN env : env[var] \in Text,
           NEW delim \in {Blank, Equals}, NEW i \in 1..Len(decl),
           Break \notin Range(DeclaredText(decl[i], env, delim)), decl[i].Key # delim,
           \A j \in 1..Len(decl) : j > i =>
               decl[j].Key # decl[i].Key /\ Break \notin Range(DeclaredText(decl[j], env, delim))
    PROVE  Stays(DeclaredLines(decl, env, delim), DeclaredText(decl[i], env, delim), decl[i].Key, delim)
<1> DEFINE n == Len(decl)
           key == decl[i].Key
           text(j) == DeclaredText(decl[j], env, delim)
           pieces == [j \in DOMAIN decl |-> LinesIn(DeclaredText(decl[j], env, delim))]
           T == {k \in Nat : k >= i => Stays(FlattenSeq(SubSeq(pieces, 1, k)), text(i), key, delim)}
<1>1. n \in Nat /\ DOMAIN decl = 1..n /\ \A j \in 1..n : decl[j] \in Declaration
  BY LenProperties, ElementOfSeq
<1>2. ASSUME NEW j \in 1..n
      PROVE  /\ text(j) \in Text /\ text(j) = <<decl[j].Key, delim>> \o EnvValue(env, decl[j].Value)
             /\ decl[j].Key \in Token /\ delim \in Token /\ EnvValue(env, decl[j].Value) \in Text
  <2>1. decl[j].Key \in Token /\ delim \in Token /\ EnvValue(env, decl[j].Value) \in Text
    <3>1. <<>> \in Text
      BY DEF Text
    <3>2. QED
      BY <1>1, <3>1 DEF Declaration, Token, EnvValue
  <2>2. text(j) = <<decl[j].Key, delim>> \o EnvValue(env, decl[j].Value)
    BY DEF DeclaredText
  <2>3. QED
    BY <2>1, <2>2, LineRead
<1>3. pieces \in Seq(Seq(Text)) /\ Len(pieces) = n /\ \A j \in 1..n : pieces[j] = LinesIn(text(j))
  <2>1. \A j \in 1..n : LinesIn(text(j)) \in Seq(Text)
    BY <1>2, LinesInIs
  <2>2. pieces \in [1..n -> Seq(Text)] /\ \A j \in 1..n : pieces[j] = LinesIn(text(j))
    <3> HIDE DEF n
    <3>1. QED
      BY <1>1, <2>1
  <2> HIDE DEF pieces, n, text
  <2>3. QED
    BY <1>1, <2>2, FunctionIsSeq
<1>4. DeclaredLines(decl, env, delim) = FlattenSeq(pieces)
  BY DEF DeclaredLines
<1>5. ASSUME NEW j \in 1..n, j >= i PROVE pieces[j] = <<text(j)>>
  <2>1. Break \notin Range(text(j))
    <3>1. CASE j = i
      BY <3>1
    <3>2. CASE j # i
      BY <1>1, <1>5, <3>2
    <3>3. QED
      BY <3>1, <3>2
  <2>2. text(j) \in Text /\ pieces[j] = LinesIn(text(j))
    BY <1>2, <1>3
  <2> HIDE DEF text, pieces
  <2>3. QED
    BY <2>1, <2>2, OneLine
<1>6. ASSUME NEW j \in 1..n, j > i PROVE KeyOf(text(j), delim) # <<key>>
  <2>1. decl[j].Key # key
    BY <1>6
  <2>2. KeyOf(text(j), delim) = <<decl[j].Key>> \/ KeyOf(text(j), delim) = <<>>
    <3> DEFINE k == decl[j].Key
               v == EnvValue(env, decl[j].Value)
    <3>1. k \in Token /\ delim \in Token /\ v \in Text
      BY <1>2
    <3>2. text(j) = <<k, delim>> \o v
      BY <1>2
    <3> HIDE DEF text, k, v
    <3>3. KeyOf(<<k, delim>> \o v, delim) \in {<<k>>, <<>>}
      BY <3>1, LineRead
    <3>4. KeyOf(text(j), delim) \in {<<k>>, <<>>}
      BY <3>2, <3>3
    <3>5. QED
      BY <3>4 DEF k
  <2> HIDE DEF text, key
  <2>3. QED
    BY <2>1, <2>2
<1>7. \A j \in 1..n : text(j) \in Text
  BY <1>2
<1> HIDE DEF pieces, text, key
<1>8. ASSUME NEW k \in 0..(n - 1)
      PROVE  /\ SubSeq(pieces, 1, k) \in Seq(Seq(Text)) /\ k + 1 \in 1..n
             /\ SubSeq(pieces, 1, k + 1) = Append(SubSeq(pieces, 1, k), pieces[k + 1])
             /\ pieces[k + 1] \in Seq(Text)
  <2> DEFINE a == SubSeq(pieces, 1, k)
             c == SubSeq(pieces, 1, k + 1)
  <2>1. k \in Nat /\ k + 1 \in Nat /\ k + 1 <= n /\ k <= n /\ k + 1 \in 1..n
    BY <1>1
  <2>2. a \in Seq(Seq(Text)) /\ Len(a) = k /\ \A j \in 1..k : a[j] = pieces[j]
    BY <1>3, <2>1, FirstOfSeq
  <2>3. c \in Seq(Seq(Text)) /\ Len(c) = k + 1 /\ \A j \in 1..(k + 1) : c[j] = pieces[j]
    BY <1>3, <2>1, FirstOfSeq
  <2>4. pieces[k + 1] \in Seq(Text)
    BY <1>3, <2>1, ElementOfSeq
  <2> HIDE DEF a, c
  <2> DEFINE e == pieces[k + 1]
             d == Append(a, e)
  <2> HIDE DEF e
  <2>5. d \in Seq(Seq(Text)) /\ Len(d) = k + 1 /\ d[k + 1] = e /\ \A j \in 1..k : d[j] = a[j]
    BY <2>2, <2>4, AppendProperties DEF e
  <2> HIDE DEF d
  <2>6. \A j \in 1..(k + 1) : c[j] = d[j]
    <3> SUFFICES ASSUME NEW j \in 1..(k + 1) PROVE c[j] = d[j]
      OBVIOUS
    <3>1. CASE j = k + 1
      BY <2>3, <2>5, <3>1 DEF e
    <3>2. CASE j # k + 1
      <4>1. j \in 1..k
        BY <2>1, <3>2
      <4>2. QED
        BY <2>2, <2>3, <2>5, <4>1
    <3>3. QED
      BY <3>1, <3>2
  <2>7. c = d
    BY <2>3, <2>5, <2>6, SeqEqual
  <2>8. QED
    BY <2>1, <2>2, <2>4, <2>7 DEF a, c, d, e
<1>9. 0 \in T
  OBVIOUS
<1>10. ASSUME NEW k \in 0..(n - 1), k \in T
       PROVE  k + 1 \in T
  <2> DEFINE f == FlattenSeq(SubSeq(pieces, 1, k))
             g == FlattenSeq(SubSeq(pieces, 1, k + 1))
  <2>1. f \in Seq(Text)
    BY <1>8, FlattenType
  <2>2. g = f \o pieces[k + 1]
    BY <1>8, FlattenAppend
  <2>3. k >= i => Stays(f, text(i), key, delim)
    BY <1>10
  <2> HIDE DEF f, g
  <2>4. ASSUME k + 1 >= i PROVE Stays(g, text(i), key, delim)
    <3> DEFINE j == k + 1
    <3>1. j \in 1..n /\ j >= i
      BY <1>8, <2>4
    <3>2. pieces[j] = <<text(j)>> /\ text(j) \in Text
      BY <1>5, <1>7, <3>1
    <3>3. CASE j = i
      BY <2>1, <2>2, <3>2, <3>3, StaysLast
    <3>4. CASE j # i
      <4>1. j > i /\ k >= i
        BY <3>1, <3>4
      <4>2. KeyOf(text(j), delim) # <<key>>
        BY <1>6, <3>1, <4>1
      <4> HIDE DEF j
      <4>3. Stays(f \o <<text(j)>>, text(i), key, delim)
        BY <2>1, <2>3, <3>2, <4>1, <4>2, StaysBefore
      <4>4. QED
        BY <2>2, <3>2, <4>3 DEF j
    <3>5. QED
      BY <3>3, <3>4
  <2>5. k + 1 \in Nat
    BY <1>1
  <2>6. QED
    BY <2>4, <2>5 DEF g
<1> HIDE DEF T
<1>11. \A k \in 0..n : k \in T
  <2> HIDE DEF n
  <2>1. QED
    BY <1>1, <1>9, <1>10, UpTo
<1>12. n \in T /\ n >= i
  BY <1>1, <1>11
<1>13. SubSeq(pieces, 1, n) = pieces
  BY <1>3, SubSeqFull
<1>14. Stays(FlattenSeq(SubSeq(pieces, 1, n)), text(i), key, delim)
  BY <1>12 DEF T
<1>15. QED
  BY <1>4, <1>13, <1>14 DEF text, key

\* The same of the lines of a file.
Keeps(lines, text, key, delim) ==
    \E l \in DOMAIN lines :
        /\ lines[l].text = text
        /\ \A m \in DOMAIN lines : m > l => KeyOf(lines[m].text, delim) # <<key>>

LEMMA RecordsKeep ==
    ASSUME NEW old \in Seq(Line), NEW texts \in Seq(Text), NEW n \in 1..MaxRuns, NEW text, NEW key,
           NEW delim, Stays(texts, text, key, delim)
    PROVE  Keeps(old \o [i \in DOMAIN texts |-> [text |-> texts[i], by |-> n]], text, key, delim)
<1> DEFINE m == Len(texts)
           b == Len(old)
           new == [i \in DOMAIN texts |-> [text |-> texts[i], by |-> n]]
           c == Cat(old, new)
<1>1. m \in Nat /\ b \in Nat /\ DOMAIN texts = 1..m /\ \A i \in 1..m : texts[i] \in Text
  BY LenProperties, ElementOfSeq
<1>2. new \in Seq(Line) /\ Len(new) = m /\ \A i \in 1..m : new[i].text = texts[i]
  <2> HIDE DEF m
  <2>1. new \in [1..m -> Line] /\ \A i \in 1..m : new[i].text = texts[i]
    BY <1>1 DEF Line
  <2> HIDE DEF new
  <2>2. QED
    BY <1>1, <2>1, FunctionIsSeq
<1> HIDE DEF new
<1>3. /\ c \in Seq(Line) /\ Len(c) = b + m
      /\ \A i \in 1..(b + m) : c[i] = IF i <= b THEN old[i] ELSE new[i - b]
  <2>1. /\ c \in Seq(Line) /\ Len(c) = b + Len(new)
        /\ \A i \in 1..(b + Len(new)) : c[i] = IF i <= b THEN old[i] ELSE new[i - b]
    BY <1>2, CatIs
  <2> HIDE DEF c, m, b
  <2>2. QED
    BY <1>2, <2>1
<1>4. DOMAIN c = 1..(b + m)
  BY <1>3, LenProperties
<1>5. PICK l \in 1..m :
        /\ texts[l] = text
        /\ \A q \in 1..m : q > l => KeyOf(texts[q], delim) # <<key>>
  BY DEF Stays
<1> HIDE DEF c, m, b
<1>6. b + l \in DOMAIN c /\ c[b + l].text = text
  <2> DEFINE q == b + l
  <2>1. q \in 1..(b + m) /\ ~(q <= b) /\ q - b = l
    BY <1>1
  <2> HIDE DEF q
  <2>2. c[q] = new[l]
    BY <1>3, <2>1
  <2>3. c[q].text = texts[l]
    BY <1>2, <1>5, <2>2
  <2>4. QED
    BY <1>4, <1>5, <2>1, <2>3 DEF q
<1>7. ASSUME NEW p \in DOMAIN c, p > b + l PROVE KeyOf(c[p].text, delim) # <<key>>
  <2> DEFINE q == p - b
  <2>1. q \in 1..m /\ q > l /\ p \in 1..(b + m) /\ ~(p <= b)
    BY <1>1, <1>4, <1>7
  <2>2. c[p] = new[q]
    BY <1>3, <2>1
  <2> HIDE DEF q
  <2>3. c[p].text = texts[q]
    BY <1>2, <2>1, <2>2
  <2>4. QED
    BY <1>5, <2>1, <2>3
<1>8. Keeps(c, text, key, delim)
  BY <1>6, <1>7 DEF Keeps
<1>9. QED
  BY <1>8 DEF c, new, Cat

\* What is kept is what is read.
LEMMA KeptIsAssigned ==
    ASSUME NEW lines \in Seq(Line), NEW key \in Token, NEW delim \in Token, NEW value \in Text,
           key # delim, Keeps(lines, <<key, delim>> \o value, key, delim)
    PROVE  /\ <<key>> \in DOMAIN Assigned(lines, delim)
           /\ Assigned(lines, delim)[<<key>>] = value
<1> DEFINE text == <<key, delim>> \o value
           at == {i \in Assigning(lines, delim) : KeyOf(lines[i].text, delim) = <<key>>}
<1>1. Len(lines) \in Nat /\ DOMAIN lines = 1..Len(lines)
  BY LenProperties
<1>2. Find(text, delim) = 2 /\ KeyOf(text, delim) = <<key>> /\ ValueOf(text, delim) = value
  BY LineRead
<1> HIDE DEF text
<1>3. PICK l \in DOMAIN lines :
        /\ lines[l].text = text
        /\ \A m \in DOMAIN lines : m > l => KeyOf(lines[m].text, delim) # <<key>>
  BY DEF Keeps, text
<1>4. l \in Assigning(lines, delim) /\ l \in at
  BY <1>2, <1>3 DEF Assigning
<1>5. at \subseteq 0..Len(lines) /\ \A m \in at : m <= l
  BY <1>1, <1>3 DEF Assigning
<1> HIDE DEF at
<1>6. Max(at) \in at /\ \A k \in at : k <= Max(at)
  BY <1>1, <1>4, <1>5, GreatestOf
<1>7. Max(at) = l
  <2>1. Max(at) <= l /\ l <= Max(at) /\ Max(at) \in 0..Len(lines) /\ l \in 0..Len(lines)
    BY <1>1, <1>4, <1>5, <1>6
  <2>2. QED
    BY <1>1, <2>1
<1>8. <<key>> \in {KeyOf(lines[i].text, delim) : i \in Assigning(lines, delim)}
  BY <1>2, <1>3, <1>4
<1>9. <<key>> \in DOMAIN Assigned(lines, delim)
  BY <1>8 DEF Assigned
<1>10. Assigned(lines, delim)[<<key>>] = ValueOf(lines[Max(at)].text, delim)
  BY <1>8 DEF Assigned, at
<1>11. QED
  BY <1>2, <1>3, <1>7, <1>9, <1>10

\* When a file that is there was read, its variables are what its lines assign.
LEMMA FetchedIs ==
    ASSUME NEW file \in File, file.there # "absent", NEW delim,
           ~fetchOutputVariables(file, delim).err
    PROVE  fetchOutputVariables(file, delim).vars = Assigned(file.lines, delim)
<1> DEFINE assigned == Assigned(file.lines, delim)
<1>1. file.there \in {"locked", "present"}
  BY DEF File
<1>2. fetchOutputVariables(file, delim) =
        CASE file.there = "absent" -> [vars |-> NoVars, err |-> FALSE]
          [] file.there = "locked" -> [vars |-> NoVars, err |-> TRUE]
          [] file.there = "present" /\ TooLong(file) -> [vars |-> NoVars, err |-> TRUE]
          [] OTHER -> [vars |-> assigned, err |-> FALSE]
  BY DEF fetchOutputVariables
<1> HIDE DEF assigned
<1>3. CASE file.there = "locked"
  <2>1. fetchOutputVariables(file, delim) = [vars |-> NoVars, err |-> TRUE]
    BY <1>2, <1>3
  <2>2. QED
    BY <2>1
<1>4. CASE file.there = "present" /\ TooLong(file)
  <2>1. fetchOutputVariables(file, delim) = [vars |-> NoVars, err |-> TRUE]
    BY <1>2, <1>4
  <2>2. QED
    BY <2>1
<1>5. CASE file.there = "present" /\ ~TooLong(file)
  <2>1. fetchOutputVariables(file, delim) = [vars |-> assigned, err |-> FALSE]
    BY <1>2, <1>5
  <2>2. QED
    BY <2>1 DEF assigned
<1>6. QED
  BY <1>1, <1>3, <1>4, <1>5

\* Has(found, key, value): the variable is among them, with the value.
Has(found, key, value) == <<key>> \in DOMAIN found /\ found[<<key>>] = value

LEMMA ReadHas ==
    ASSUME NEW req \in Requests, NEW fs, fs["out"] \in File, fs["out"].there # "absent",
           NEW key \in Token, NEW value \in Text, key # Delimiter(req.dotenv),
           req.dotenv => TrimBlanks(value) = value,
           Keeps(fs["out"].lines, <<key, Delimiter(req.dotenv)>> \o value, key, Delimiter(req.dotenv)),
           ~ReadVars(req, fs).err
    PROVE  Has(ReadVars(req, fs).vars, key, value)
<1> DEFINE file == fs["out"]
           text == <<key, Delimiter(req.dotenv)>> \o value
           plain(delim) == fetchOutputVariables(file, delim)
<1>1. file.lines \in Seq(Line) /\ file \in File /\ file.there # "absent"
  BY DEF File
<1>2. Blank \in Token /\ Equals \in Token
  BY DEF Token
<1>3. CASE ~req.dotenv
  <2>1. ReadVars(req, fs) = plain(Blank) /\ Delimiter(req.dotenv) = Blank
    BY <1>3 DEF ReadVars, Delimiter
  <2>2. plain(Blank).vars = Assigned(file.lines, Blank)
    BY <1>1, <2>1, FetchedIs
  <2>3. key # Blank /\ Keeps(file.lines, <<key, Blank>> \o value, key, Blank)
    BY <2>1
  <2> HIDE DEF file, plain
  <2>4. Has(Assigned(file.lines, Blank), key, value)
    BY <1>1, <1>2, <2>3, KeptIsAssigned DEF Has
  <2>5. QED
    BY <2>1, <2>2, <2>4
<1>4. CASE req.dotenv
  <2> DEFINE god == Godotenv(file)
             read == plain(Equals)
             trimmed == [k \in DOMAIN read.vars |-> TrimBlanks(read.vars[k])]
             parses == \A i \in DOMAIN file.lines :
                          file.lines[i].text = <<>> \/ Find(file.lines[i].text, Equals) = 2
  <2>1. ReadVars(req, fs) = IF god.err THEN read ELSE god
    BY <1>1, <1>4 DEF ReadVars, fetchExportedVarsFromEnvFile
  <2>2. key # Equals /\ Keeps(file.lines, <<key, Equals>> \o value, key, Equals)
    <3>1. Delimiter(req.dotenv) = Equals
      BY <1>4 DEF Delimiter
    <3>2. QED
      BY <3>1
  <2>3. god = [vars |-> trimmed, err |-> read.err \/ ~parses]
    BY DEF Godotenv
  <2> HIDE DEF file, plain
  <2>4. Has(Assigned(file.lines, Equals), key, value)
    BY <1>1, <1>2, <2>2, KeptIsAssigned DEF Has
  <2>5. ~read.err => Has(read.vars, key, value)
    <3>1. ~read.err => read.vars = Assigned(file.lines, Equals)
      BY <1>1, FetchedIs DEF plain
    <3> HIDE DEF read
    <3>2. QED
      BY <2>4, <3>1
  <2> HIDE DEF god, read, parses
  <2>6. CASE god.err
    <3>1. ReadVars(req, fs) = read
      BY <2>1, <2>6
    <3>2. QED
      BY <2>5, <3>1
  <2>7. CASE ~god.err
    <3>1. ReadVars(req, fs) = god
      BY <2>1, <2>7
    <3>2. god.vars = trimmed /\ ~read.err
      <4> HIDE DEF trimmed
      <4>1. god.vars = trimmed /\ god.err = (read.err \/ ~parses)
        BY <2>3
      <4>2. QED
        BY <2>7, <4>1
    <3>3. Has(read.vars, key, value)
      BY <2>5, <3>2
    <3>4. <<key>> \in DOMAIN read.vars /\ read.vars[<<key>>] = value
      BY <3>3 DEF Has
    <3>5. <<key>> \in DOMAIN trimmed /\ trimmed[<<key>>] = TrimBlanks(value)
      BY <3>4
    <3>6. TrimBlanks(value) = value
      BY <1>4
    <3> HIDE DEF trimmed
    <3>7. Has(trimmed, key, value)
      BY <3>5, <3>6 DEF Has
    <3>8. QED
      BY <3>1, <3>2, <3>7
  <2>8. QED
    BY <2>6, <2>7
<1>5. QED
  BY <1>3, <1>4

LEMMA ResultFields ==
    ASSUME NEW x, NEW v, NEW w
    PROVE  /\ Result(x, v, w).state = x.state /\ Result(x, v, w).err = x.err
           /\ Result(x, v, w).outputs = v /\ Result(x, v, w).outputsV2 = w
<1> DEFINE state == x.state
           err == x.err
           artifact == <<>>
           from == {}
           kept == {}
<1>1. Result(x, v, w) = [state |-> state, err |-> err, outputs |-> v, outputsV2 |-> w,
                         artifact |-> artifact, from |-> from, kept |-> kept]
  BY DEF Result
<1> HIDE DEF state, err, artifact, from, kept
<1>2. QED
  BY <1>1 DEF state, err

\* An output file that could not be read is told of.
LEMMA ErrTells ==
    ASSUME NEW res \in Returned, NEW failed, failed
    PROVE  WithErr(res, failed).err # <<>>
<1>1. WithErr(res, failed) = [res EXCEPT !.err = <<"outputs unreadable">>]
  BY DEF WithErr
<1>2. \E s, e : res = [state |-> s, err |-> e]
  BY DEF Returned, Pending, Failure
<1> DEFINE told == <<"outputs unreadable">>
<1>3. told # <<>>
  OBVIOUS
<1>4. WithErr(res, failed).err = told
  BY <1>1, <1>2
<1> HIDE DEF told
<1>5. QED
  BY <1>3, <1>4

\* What is read of a declared variable is reported, unless a summary is asked for.
LEMMA ReportsDeclared ==
    ASSUME NEW req \in Requests, NEW res \in Returned, NEW fs, NEW sum, NEW i \in DOMAIN DeclaredOf(req),
           ~req.testSummary,
           Success(ResultOf(req, res, fs, sum).state), ResultOf(req, res, fs, sum).err = <<>>,
           NEW value, ~ReadVars(req, fs).err => Has(ReadVars(req, fs).vars, DeclaredOf(req)[i].Key, value)
    PROVE  /\ Has(ResultOf(req, res, fs, sum).outputs, DeclaredOf(req)[i].Key, value)
           /\ req.outputs # <<>> =>
                [Key |-> <<DeclaredOf(req)[i].Key>>, Value |-> value, Type |-> DeclaredOf(req)[i].Type]
                    \in ResultOf(req, res, fs, sum).outputsV2
<1> DEFINE R == ResultOf(req, res, fs, sum)
           decl == DeclaredOf(req)
           read == ReadVars(req, fs)
           rec == [Key |-> <<decl[i].Key>>, Value |-> value, Type |-> decl[i].Type]
           rep == Reported(req.outputs, read.vars)
<1>1. decl # <<>> /\ (req.outputs # <<>> => decl = req.outputs)
  BY DEF DeclaredOf
<1>2. Has(read.vars, decl[i].Key, value) /\ req.outputs # <<>> => rec \in rep
  <2> HAVE Has(read.vars, decl[i].Key, value) /\ req.outputs # <<>>
  <2> DEFINE d == decl[i]
  <2>1. d \in Range(req.outputs)
    BY <1>1 DEF Range
  <2>2. <<d.Key>> \in DOMAIN read.vars /\ read.vars[<<d.Key>>] = value
    BY DEF Has
  <2>3. rec = [Key |-> <<d.Key>>, Value |-> read.vars[<<d.Key>>], Type |-> d.Type]
    BY <2>2
  <2> HIDE DEF d, read, rec
  <2>4. QED
    BY <2>1, <2>2, <2>3 DEF Reported
<1>3. AsOutput(req, sum) = <<>> /\ DOMAIN AsOutput(req, sum) = {}
  BY DEF AsOutput, NoVars
<1>4. SummaryV2(AsOutput(req, sum)) = {}
  BY <1>3 DEF SummaryV2, ReportedAll
<1>5. NoState \notin State /\ \A s : s = NoState => ~Success(s)
  BY NoStateAssumption DEF Success
<1> HIDE DEF rep, rec
<1>6. CASE ~ReadsOutputs(req, res)
  <2>1. R = SummaryResult(req, res, sum)
    BY <1>6 DEF ResultOf
  <2>2. R.state = res.state
    BY <2>1 DEF SummaryResult, Result
  <2>3. Success(res.state) /\ decl # <<>>
    BY <1>1, <2>2
  <2>4. QED
    BY <1>6, <2>3 DEF ReadsOutputs
<1>7. CASE ReadsOutputs(req, res) /\ req.kind = "RunTest"
  <2> DEFINE summed == AsOutput(req, sum)
             joined == [key \in DOMAIN summed \cup DOMAIN read.vars |->
                        IF key \in DOMAIN summed THEN summed[key] ELSE read.vars[key]]
             v2 == IF req.outputs = <<>> THEN {} ELSE Reported(req.outputs, joined) \cup SummaryV2(summed)
  <2>1. R = Result(WithErr(res, read.err), joined, v2)
    BY <1>7 DEF ResultOf, TestResult
  <2>2. R.err = WithErr(res, read.err).err /\ R.outputs = joined /\ R.outputsV2 = v2
    <3> HIDE DEF joined, v2
    <3>1. QED
      BY <2>1 DEF Result
  <2>3. ~read.err
    <3> HIDE DEF joined, v2, read
    <3>1. WithErr(res, read.err).err = <<>>
      BY <2>2
    <3>2. QED
      BY <3>1, ErrTells
  <2>4. Has(read.vars, decl[i].Key, value)
    BY <2>3
  <2>5. Has(joined, decl[i].Key, value)
    <3> DEFINE k == <<decl[i].Key>>
    <3>1. k \in DOMAIN read.vars /\ read.vars[k] = value
      BY <2>4 DEF Has
    <3> HIDE DEF k, read, summed
    <3>2. k \in DOMAIN joined /\ joined[k] = value
      BY <1>3, <3>1 DEF summed
    <3> HIDE DEF joined
    <3>3. QED
      BY <3>2 DEF Has, k
  <2>6. req.outputs # <<>> => rec \in Reported(req.outputs, joined)
    <3> HAVE req.outputs # <<>>
    <3> DEFINE d == decl[i]
    <3>1. d \in Range(req.outputs)
      BY <1>1 DEF Range
    <3>2. <<d.Key>> \in DOMAIN joined /\ joined[<<d.Key>>] = value
      <4> HIDE DEF joined
      <4>1. QED
        BY <2>5 DEF Has
    <3> HIDE DEF joined
    <3>3. rec = [Key |-> <<d.Key>>, Value |-> joined[<<d.Key>>], Type |-> d.Type]
      BY <3>2 DEF rec
    <3> HIDE DEF d
    <3>4. QED
      BY <3>1, <3>2, <3>3 DEF Reported
  <2> HIDE DEF joined
  <2>7. QED
    BY <2>2, <2>5, <2>6 DEF rec
<1>8. CASE ReadsOutputs(req, res) /\ req.kind # "RunTest" /\ req.dotenv
  <2> DEFINE secrets == fetchExportedVarsFromEnvFile(fs["secret"]).vars
             own == IF req.outputs # <<>> THEN Reported(req.outputs, read.vars)
                    ELSE ReportedAll(read.vars, "STRING")
             v2 == own \cup ReportedAll(secrets, "SECRET") \cup SummaryV2(AsOutput(req, sum))
  <2>1. R = Result(WithErr(res, read.err /\ decl # <<>>), read.vars, v2)
    BY <1>8 DEF ResultOf, DotEnvResult
  <2>2. /\ R.err = WithErr(res, read.err /\ decl # <<>>).err /\ R.outputs = read.vars
        /\ R.outputsV2 = v2
    <3> HIDE DEF v2
    <3>1. QED
      BY <2>1 DEF Result
  <2>3. ~read.err
    <3> HIDE DEF v2, read
    <3>1. WithErr(res, read.err /\ decl # <<>>).err = <<>>
      BY <2>2
    <3> HIDE DEF decl
    <3>2. ~(read.err /\ decl # <<>>)
      BY <3>1, ErrTells
    <3>3. QED
      BY <1>1, <3>2
  <2>4. Has(read.vars, decl[i].Key, value)
    BY <2>3
  <2>5. req.outputs # <<>> => own = rep
    BY DEF rep
  <2> HIDE DEF own, secrets, read
  <2>6. QED
    BY <1>2, <2>2, <2>4, <2>5 DEF rec
<1>9. CASE ReadsOutputs(req, res) /\ req.kind = "Run" /\ ~req.dotenv
  <2> DEFINE v2 == SummaryV2(AsOutput(req, sum))
  <2>1. R = PlainRunResult(req, res, fs, sum)
    BY <1>9 DEF ResultOf
  <2>2. CASE read.err
    <3>1. R = Result(WithErr(res, TRUE), NoVars, {})
      BY <2>1, <2>2 DEF PlainRunResult
    <3> DEFINE told == WithErr(res, TRUE)
    <3>2. told.err # <<>>
      BY ErrTells
    <3> HIDE DEF told
    <3>3. Result(told, NoVars, {}).err = told.err
      BY ResultFields
    <3>4. R = Result(told, NoVars, {})
      BY <3>1 DEF told
    <3> HIDE DEF R
    <3>5. R.err # <<>>
      BY <3>2, <3>3, <3>4
    <3>6. QED
      BY <3>5 DEF R
  <2>3. CASE ~read.err
    <3>1. Has(read.vars, decl[i].Key, value)
      BY <2>3
    <3>2. R = IF req.outputs # <<>> THEN Result(res, read.vars, rep \cup v2)
              ELSE Result(res, read.vars, {})
      BY <1>4, <2>1, <2>3 DEF PlainRunResult, rep
    <3>3. R.outputs = read.vars /\ (req.outputs # <<>> => R.outputsV2 = rep \cup v2)
      <4> HIDE DEF v2, read
      <4>1. QED
        BY <3>2 DEF Result
    <3> HIDE DEF v2, read
    <3>4. QED
      BY <1>2, <3>1, <3>3 DEF rec
  <2>4. QED
    BY <2>2, <2>3
<1>10. CASE ReadsOutputs(req, res) /\ req.kind = "RunTestsV2" /\ ~req.dotenv
  <2> DEFINE v2 == SummaryV2(AsOutput(req, sum))
  <2>1. R = PlainTestsV2Result(req, res, fs, sum)
    BY <1>10 DEF ResultOf
  <2>2. CASE read.err
    <3>1. R = Result(Failure("outputs unreadable"), NoVars, {})
      BY <2>1, <2>2 DEF PlainTestsV2Result
    <3>2. R.state = NoState
      <4> DEFINE failure == Failure("outputs unreadable")
      <4>1. failure.state = NoState
        BY DEF Failure
      <4> HIDE DEF failure
      <4>2. Result(failure, NoVars, {}).state = failure.state
        BY ResultFields
      <4>3. R = Result(failure, NoVars, {})
        BY <3>1 DEF failure
      <4> HIDE DEF R
      <4>4. QED
        BY <4>1, <4>2, <4>3
    <3>3. QED
      BY <1>5, <3>2
  <2>3. CASE ~read.err
    <3>1. Has(read.vars, decl[i].Key, value)
      BY <2>3
    <3>2. R = IF req.outputs # <<>> THEN Result(res, read.vars, rep \cup v2)
              ELSE Result(res, read.vars, IF req.outputVars # <<>> THEN {} ELSE v2)
      BY <2>1, <2>3 DEF PlainTestsV2Result, rep
    <3>3. R.outputs = read.vars /\ (req.outputs # <<>> => R.outputsV2 = rep \cup v2)
      <4> HIDE DEF v2, read
      <4>1. QED
        BY <3>2 DEF Result
    <3> HIDE DEF v2, read
    <3>4. QED
      BY <1>2, <3>1, <3>3 DEF rec
  <2>4. QED
    BY <2>2, <2>3
<1>11. QED
  <2>1. req.kind \in {"Run", "RunTest", "RunTestsV2"}
    BY StepRunAssumption DEF Request
  <2>3. \/ ~ReadsOutputs(req, res)
        \/ ReadsOutputs(req, res) /\ req.kind = "RunTest"
        \/ ReadsOutputs(req, res) /\ req.kind # "RunTest" /\ req.dotenv
        \/ ReadsOutputs(req, res) /\ req.kind = "Run" /\ ~req.dotenv
        \/ ReadsOutputs(req, res) /\ req.kind = "RunTestsV2" /\ ~req.dotenv
    BY <2>1
  <2>4. QED
    BY <1>6, <1>7, <1>8, <1>9, <1>10, <2>3

-----------------------------------------------------------------------------
(* They are reported.                                                        *)

LEMMA WroteKeeps ==
    ASSUME NEW file \in File, NEW texts \in Seq(Text), run.n \in 1..MaxRuns, NEW text, NEW key,
           NEW delim, Stays(texts, text, key, delim)
    PROVE  /\ Wrote(file, texts).there # "absent"
           /\ Keeps(Wrote(file, texts).lines, text, key, delim)
<1> DEFINE new == [i \in DOMAIN texts |-> [text |-> texts[i], by |-> run.n]]
           there == IF file.there = "absent" THEN "present" ELSE file.there
           lines == file.lines \o new
           made == AppendLines(file, texts, run.n)
<1>1. texts # <<>>
  <2>1. PICK l \in 1..Len(texts) : texts[l] = text
    BY DEF Stays
  <2>2. QED
    BY <2>1
<1>2. file.lines \in Seq(Line) /\ file.there \in {"absent", "locked", "present"}
  BY DEF File
<1>3. Keeps(lines, text, key, delim)
  BY <1>2, RecordsKeep
<1>4. there \in {"locked", "present"}
  BY <1>2
<1>5. made = [there |-> there, lines |-> lines]
  BY DEF AppendLines
<1>6. Wrote(file, texts) = Shut(made)
  BY <1>1 DEF Wrote
<1> HIDE DEF lines, there
<1>7. made.there \in {"locked", "present"} /\ made.lines = lines
  BY <1>4, <1>5
<1>8. Shut(made).there \in {"locked", "present"} /\ Shut(made).lines = lines
  <2>1. \E t, l : made = [there |-> t, lines |-> l]
    BY <1>5
  <2> HIDE DEF made
  <2>2. QED
    BY <1>7, <2>1 DEF Shut
<1>9. QED
  BY <1>3, <1>6, <1>8

\* The line of a declared variable is in the output file.
KeptIn(file, i) ==
    /\ file.there # "absent"
    /\ Keeps(file.lines, DeclaredLine(i), DeclaredOf(Req)[i].Key, Delimiter(Req.dotenv))

\* A step that has run all its commands, and was successful, leaves every line.
LEMMA ExitKeeps ==
    ASSUME RunTyped, files \in [Files -> File], Declares,
           Writable(DeclaredOf(Req), run.program.env, Req.shell) = Len(DeclaredOf(Req)),
           NEW i \in DOMAIN DeclaredOf(Req), Survives(i)
    PROVE  KeptIn(Written(Len(run.program.own), TRUE)["out"], i)
<1> DEFINE decl == DeclaredOf(Req)
           env == run.program.env
           delim == Delimiter(Req.dotenv)
           own == run.program.own
           tail == DeclaredLines(decl, env, delim)
           out == own \o tail
           written == Written(Len(own), TRUE)
<1>1. run.n \in 1..MaxRuns /\ IsProgram(run.program) /\ Req \in Requests
  BY ProgramIs DEF RunTyped, RunRecord, Req
<1>2. decl \in Seq(Declaration) /\ Len(decl) \in Nat /\ DOMAIN decl = 1..Len(decl)
  BY <1>1, DeclaredIs, LenProperties
<1>3. own \in Seq(Text) /\ \A var \in DOMAIN env : env[var] \in Text
  BY <1>1 DEF IsProgram
<1>4. delim \in {Blank, Equals}
  BY DEF Delimiter
<1>5. SubSeq(decl, 1, Len(decl)) = decl /\ SubSeq(own, 1, Len(own)) = own
  BY <1>2, <1>3, SubSeqFull
<1>6. written["out"] = Wrote(files["out"], out)
  <2> DEFINE w == Writable(decl, env, Req.shell)
             all == SubSeq(own, 1, Len(own))
             some == SubSeq(decl, 1, w)
             more == IF TRUE THEN DeclaredLines(some, env, delim) ELSE <<>>
             lines == all \o more
             text == [f \in Files |-> CASE f = "out"      -> lines
                                        [] f = "secret"   -> run.program.secretLines
                                        [] f = "artifact" -> run.program.artifact]
  <2>1. written = [f \in Files |-> Wrote(files[f], text[f])]
    BY DEF Written
  <2>2. lines = out
    <3>1. all = own /\ some = decl
      BY <1>5
    <3>2. more = tail
      BY <3>1
    <3> HIDE DEF all, more, tail
    <3>3. QED
      BY <3>1, <3>2
  <2>3. "out" \in Files /\ text["out"] = lines
    <3> HIDE DEF lines
    <3>1. QED
      BY DEF Files
  <2> HIDE DEF text, written, out, lines
  <2>4. QED
    BY <2>1, <2>2, <2>3
<1>7. /\ Break \notin Range(DeclaredText(decl[i], env, delim)) /\ decl[i].Key # delim
      /\ \A j \in 1..Len(decl) : j > i =>
            decl[j].Key # decl[i].Key /\ Break \notin Range(DeclaredText(decl[j], env, delim))
  <2> HIDE DEF decl, env, delim
  <2>1. QED
    BY <1>2 DEF Survives, DeclaredLine, decl, env, delim
<1> HIDE DEF decl, env, delim, own, written
<1>8. i \in 1..Len(decl)
  BY <1>2 DEF decl
<1> DEFINE text == DeclaredText(decl[i], env, delim)
           key == decl[i].Key
<1>9. Stays(tail, text, key, delim)
  BY <1>2, <1>3, <1>4, <1>7, <1>8, DeclaredStays
<1>10. tail \in Seq(Text)
  BY <1>2, <1>3, <1>4, DeclaredLinesIs
<1> HIDE DEF tail, text, key
<1>11. Stays(out, text, key, delim) /\ out \in Seq(Text)
  BY <1>3, <1>9, <1>10, StaysBehind, ConcatProperties
<1>12. files["out"] \in File
  BY DEF Files
<1> HIDE DEF out
<1>13. written["out"].there # "absent" /\ Keeps(written["out"].lines, text, key, delim)
  BY <1>1, <1>6, <1>11, <1>12, WroteKeeps
<1>14. QED
  BY <1>13 DEF KeptIn, DeclaredLine, text, key, decl, env, delim, written, own

LEMMA AnnotatedFields ==
    ASSUME NEW req \in Requests, NEW res, NEW fs, NEW sum, NEW a, NEW l, NEW k
    PROVE  LET q == ResultOf(req, res, fs, sum)
               r == Annotated(q, a, l, k)
           IN  /\ r.state = q.state /\ r.err = q.err
               /\ r.outputs = q.outputs /\ r.outputsV2 = q.outputsV2
<1> DEFINE q == ResultOf(req, res, fs, sum)
           r == Annotated(q, a, l, k)
<1>1. PICK x, v, w : q = Result(x, v, w)
  BY ResultOfForm
<1>2. r = [q EXCEPT !.artifact = a, !.from = l, !.kept = k]
  BY DEF Annotated
<1> HIDE DEF q, r
<1> DEFINE state == x.state
           err == x.err
           artifact == <<>>
           from == {}
           kept == {}
<1>3. q = [state |-> state, err |-> err, outputs |-> v, outputsV2 |-> w,
           artifact |-> artifact, from |-> from, kept |-> kept]
  BY <1>1 DEF Result
<1> HIDE DEF state, err, artifact, from, kept
<1>4. r.state = q.state /\ r.err = q.err /\ r.outputs = q.outputs /\ r.outputsV2 = q.outputsV2
  BY <1>2, <1>3
<1>5. QED
  BY <1>4 DEF q, r

\* A successful result is of a successful step.
LEMMA SuccessWas ==
    ASSUME NEW req, NEW res, NEW fs, NEW sum, Success(ResultOf(req, res, fs, sum).state)
    PROVE  Success(res.state)
<1>1. CASE ReadsOutputs(req, res)
  BY <1>1 DEF ReadsOutputs
<1>2. CASE ~ReadsOutputs(req, res)
  <2>1. ResultOf(req, res, fs, sum) = SummaryResult(req, res, sum)
    BY <1>2 DEF ResultOf
  <2> DEFINE v == AsOutput(req, sum)
             w == SummaryV2(v)
  <2>2. SummaryResult(req, res, sum) = Result(res, v, w)
    BY DEF SummaryResult
  <2> HIDE DEF v, w
  <2>3. Result(res, v, w).state = res.state
    BY ResultFields
  <2>4. QED
    BY <2>1, <2>2, <2>3
<1>3. QED
  BY <1>1, <1>2

\* A result tells the value of a declared variable.
Tells(result, i) ==
    /\ Has(result.outputs, DeclaredOf(Req)[i].Key, DeclaredValue(i))
    /\ Req.outputs # <<>> =>
          [Key |-> <<DeclaredOf(Req)[i].Key>>, Value |-> DeclaredValue(i),
           Type |-> DeclaredOf(Req)[i].Type] \in result.outputsV2

TellsAll(result) ==
    ~Req.testSummary /\ Success(result.state) /\ result.err = <<>> =>
        \A i \in DOMAIN DeclaredOf(Req) : Survives(i) => Tells(result, i)

(* The lines of the declared variables are in the output file from the exit  *)
(* of a successful step until the file is read.                              *)
DeclInv ==
    /\ run.through => run.pc \in {"exited", "remark", "collect", "done", "panic"}
    /\ run.through /\ run.pc \in {"exited", "remark", "collect"} /\ Success(run.res.state) =>
          \A i \in DOMAIN DeclaredOf(Req) : Survives(i) => KeptIn(files["out"], i)
    /\ run.through /\ run.pc = "done" => TellsAll(Last(results))

\* A result that is read from files with the lines tells all.
LEMMA CollectTells ==
    ASSUME RunTyped, files \in [Files -> File], NEW sum, NEW a, NEW l, NEW k,
           Success(run.res.state) =>
              \A i \in DOMAIN DeclaredOf(Req) : Survives(i) => KeptIn(files["out"], i)
    PROVE  TellsAll(Annotated(ResultOf(Req, run.res, files, sum), a, l, k))
<1> DEFINE q == ResultOf(Req, run.res, files, sum)
           r == Annotated(q, a, l, k)
<1>1. Req \in Requests /\ run.res \in Returned /\ IsProgram(run.program)
  BY ProgramIs DEF RunTyped, RunRecord, Req
<1>2. r.state = q.state /\ r.err = q.err /\ r.outputs = q.outputs /\ r.outputsV2 = q.outputsV2
  BY <1>1, AnnotatedFields
<1>3. SUFFICES ASSUME ~Req.testSummary, Success(q.state), q.err = <<>>,
                      NEW i \in DOMAIN DeclaredOf(Req), Survives(i)
               PROVE  Tells(r, i)
  <2> HIDE DEF r, q
  <2>1. QED
    BY <1>2 DEF TellsAll, r, q
<1>4. KeptIn(files["out"], i)
  BY <1>3, SuccessWas
<1>5. DeclaredOf(Req)[i].Key \in Token /\ DeclaredValue(i) \in Text
  <2>1. DeclaredOf(Req) \in Seq(Declaration)
    BY <1>1, DeclaredIs
  <2>2. DeclaredOf(Req)[i] \in Declaration
    BY <2>1, LenProperties, ElementOfSeq
  <2>3. <<>> \in Text
    BY DEF Text
  <2>4. QED
    BY <1>1, <2>2, <2>3 DEF Declaration, Token, DeclaredValue, EnvValue, IsProgram
<1> DEFINE key == DeclaredOf(Req)[i].Key
           value == DeclaredValue(i)
<1>6. key # Delimiter(Req.dotenv) /\ (Req.dotenv => TrimBlanks(value) = value)
  BY <1>3 DEF Survives
<1>7. DeclaredLine(i) = <<key, Delimiter(Req.dotenv)>> \o value
  BY DEF DeclaredLine, DeclaredText, DeclaredValue
<1>8. files["out"] \in File
  BY DEF Files
<1>9. /\ files["out"].there # "absent"
      /\ Keeps(files["out"].lines, <<key, Delimiter(Req.dotenv)>> \o value, key, Delimiter(Req.dotenv))
  BY <1>4, <1>7 DEF KeptIn
<1>10. ~ReadVars(Req, files).err => Has(ReadVars(Req, files).vars, key, value)
  <2> HIDE DEF key, value
  <2>1. key \in Token /\ value \in Text
    BY <1>5 DEF key, value
  <2>2. QED
    BY <1>1, <1>6, <1>8, <1>9, <2>1, ReadHas
<1>11. /\ Has(q.outputs, key, value)
       /\ Req.outputs # <<>> =>
             [Key |-> <<key>>, Value |-> value, Type |-> DeclaredOf(Req)[i].Type] \in q.outputsV2
  <2> HIDE DEF value
  <2>1. QED
    BY <1>1, <1>3, <1>10, ReportsDeclared
<1>12. QED
  <2> HIDE DEF q, r, value
  <2>1. QED
    BY <1>2, <1>11 DEF Tells, value

LEMMA LastIs ==
    ASSUME NEW S, NEW s \in Seq(S), NEW x
    PROVE  Last(Append(s, x)) = x
<1> DEFINE c == Append(s, x)
<1>1. c \in Seq(S \cup {x}) /\ Len(c) = Len(s) + 1 /\ c[Len(s) + 1] = x
  BY OneMore
<1> HIDE DEF c
<1>2. c[Len(c)] = x
  BY <1>1
<1>3. QED
  BY <1>2 DEF Last, c

LEMMA DeclStep ==
    ASSUME RunTyped, PrintHeld, ResultsInv, DeclInv, [Next]_vars
    PROVE  DeclInv'
<1> DEFINE After == {"exited", "remark", "collect"}
<1>1. run \in RunRecord /\ run'.req = run.req /\ files \in [Files -> File]
  BY RunStep DEF RunTyped, ResultsInv, FilesInv
<1>2. ASSUME run'.through = FALSE PROVE DeclInv'
  BY <1>2 DEF DeclInv
<1>3. ASSUME run'.program = run.program, run'.res = run.res, run'.through = run.through,
             UNCHANGED files, run.pc \in After, run'.pc \in After \cup {"panic"}
      PROVE  DeclInv'
  <2>1. Req' = Req /\ Req'.dotenv = Req.dotenv
    BY <1>1 DEF Req
  <2>2. ASSUME run.through, Success(run.res.state), NEW i \in DOMAIN DeclaredOf(Req), Survives(i)'
        PROVE  KeptIn(files["out"], i)'
    <3>1. Survives(i)
      BY <1>3, <2>1, <2>2 DEF Survives, DeclaredLine, DeclaredValue
    <3>2. KeptIn(files["out"], i)
      BY <1>3, <2>2, <3>1 DEF DeclInv
    <3>3. QED
      BY <1>3, <2>1, <3>2 DEF KeptIn, DeclaredLine
  <2>3. QED
    BY <1>3, <2>1, <2>2 DEF DeclInv
<1>4. ASSUME UNCHANGED <<files, results>>, run'.program = run.program, run'.res = run.res,
             run'.through = run.through, run'.pc = run.pc
      PROVE  DeclInv'
  <2>1. Req' = Req
    BY <1>1 DEF Req
  <2>2. CASE run.pc \in After
    BY <1>3, <1>4, <2>2
  <2>3. CASE run.pc = "done"
    <3> DEFINE last == Last(results)
    <3>1. last' = last
      BY <1>4
    <3> HIDE DEF last
    <3>2. TellsAll(last) => TellsAll(last)'
      <4> SUFFICES ASSUME TellsAll(last), (~Req.testSummary)', Success(last.state)', (last.err = <<>>)',
                          NEW i \in DOMAIN DeclaredOf(Req), Survives(i)'
                   PROVE  Tells(last, i)'
        BY <2>1 DEF TellsAll
      <4>1. Survives(i)
        BY <1>4, <2>1 DEF Survives, DeclaredLine, DeclaredValue
      <4>2. Tells(last, i)
        BY <2>1, <3>1, <4>1 DEF TellsAll
      <4>3. QED
        BY <1>4, <2>1, <3>1, <4>2 DEF Tells, DeclaredValue
    <3>3. QED
      BY <1>4, <2>3, <3>2 DEF DeclInv, last
  <2>4. CASE run.pc \notin After \cup {"done"}
    BY <1>4, <2>4 DEF DeclInv
  <2>5. QED
    BY <2>2, <2>3, <2>4
<1>5. ASSUME NEW from, NEW to \in Places, Runs(from, to)
      PROVE  /\ run'.program = run.program /\ run'.res = run.res /\ run'.through = run.through
             /\ run.pc = from /\ run'.pc = to
  BY <1>1, <1>5 DEF Runs, RunRecord
<1>6. /\ "idle" \in Places /\ "done" \in Places /\ "panic" \in Places /\ "collect" \in Places
      /\ "running" \in Places
  BY DEF Places
<1>7. run.pc \notin After \cup {"done", "panic"} => run.through = FALSE
  BY <1>1 DEF DeclInv, RunRecord
<1>8. CASE UNCHANGED vars
  BY <1>4, <1>8 DEF vars
<1>9. CASE MakeLog \/ SetupFails \/ Reject \/ PanicUnprepared \/ EngineStarts
  <2>1. run.pc \in {"start", "idle", "print"} /\ run'.through = run.through
    BY <1>5, <1>6, <1>9 DEF MakeLog, SetupFails, Reject, PanicUnprepared, EngineStarts
  <2>2. QED
    BY <1>2, <1>7, <2>1
<1>10. CASE Prepare
  <2>1. run.pc = "idle" /\ run'.through = run.through
    BY <1>1, <1>10 DEF Prepare, RunRecord
  <2>2. QED
    BY <1>2, <1>7, <2>1
<1>11. CASE PrintMasked \/ PrintUnlock
  <2>1. /\ run'.program = run.program /\ run'.res = run.res /\ run'.through = run.through
        /\ run'.pc = run.pc /\ UNCHANGED <<files, results>>
    BY <1>1, <1>11 DEF PrintMasked, PrintUnlock, RunRecord
  <2>2. QED
    BY <1>4, <2>1
<1>12. CASE EngineBack
  <2>1. /\ run'.program = run.program /\ run'.through = run.through /\ run'.pc = "remark"
        /\ UNCHANGED files
        /\ \/ run.pc \in {"print", "running"}
           \/ run'.res = Pending
           \/ run.pc = "exited" /\ run'.res = run.res
    BY <1>12, EngineMoves DEF RunTyped
  <2>2. CASE run.pc \in {"print", "running"}
    BY <1>2, <1>7, <2>1, <2>2
  <2>3. CASE run'.res = Pending
    <3>1. ~Success(run'.res.state)
      BY <2>3, PendingIs DEF Success
    <3>2. QED
      BY <2>1, <3>1 DEF DeclInv
  <2>4. CASE run.pc = "exited" /\ run'.res = run.res
    BY <1>3, <2>1, <2>4
  <2>5. QED
    BY <2>1, <2>2, <2>3, <2>4
<1>13. CASE RemarkMade \/ PanicCollect
  <2>1. /\ run.pc \in After /\ run'.pc \in After \cup {"panic"} /\ UNCHANGED files
        /\ run'.program = run.program /\ run'.res = run.res /\ run'.through = run.through
    BY <1>5, <1>6, <1>13 DEF RemarkMade, PanicCollect
  <2>2. QED
    BY <1>3, <2>1
<1>14. CASE Collect
  <2>1. /\ run.pc = "collect" /\ run'.pc = "done" /\ run'.program = run.program
        /\ run'.through = run.through
    BY <1>5, <1>6, <1>14 DEF Collect
  <2>2. CASE run'.through = FALSE
    BY <1>2, <2>2
  <2>3. CASE run.through
    <3>1. PICK tested \in BOOLEAN, kept \in SUBSET Cleaned(Req, run.res, files) :
            Return([ResultOf(Req, run.res, files, SummaryOf(Req, tested)) EXCEPT
                       !.artifact = ArtifactOf(Req, run.res, files),
                       !.from = LinesRead, !.kept = kept])
      BY <1>14 DEF Collect
    <3> DEFINE r == Annotated(ResultOf(Req, run.res, files, SummaryOf(Req, tested)),
                              ArtifactOf(Req, run.res, files), LinesRead, kept)
    <3>2. results' = Append(results, r)
      BY <3>1 DEF Return, Annotated
    <3>3. TellsAll(r)
      BY <1>1, <2>1, <2>3, CollectTells DEF DeclInv, RunTyped
    <3> HIDE DEF r
    <3>4. Last(results') = r
      BY <3>2, LastIs DEF ResultsInv, Counted
    <3>5. Req' = Req
      BY <1>1 DEF Req
    <3> DEFINE last == Last(results)
    <3>6. last' = r
      BY <3>4
    <3> HIDE DEF last
    <3>7. TellsAll(last)'
      <4> SUFFICES ASSUME (~Req.testSummary)', Success(last.state)', (last.err = <<>>)',
                          NEW i \in DOMAIN DeclaredOf(Req), Survives(i)'
                   PROVE  Tells(last, i)'
        BY <3>5 DEF TellsAll
      <4>1. Survives(i)
        BY <2>1, <3>5 DEF Survives, DeclaredLine, DeclaredValue
      <4>2. Tells(r, i)
        BY <3>3, <3>5, <3>6, <4>1 DEF TellsAll
      <4>3. QED
        BY <2>1, <3>5, <3>6, <4>2 DEF Tells, DeclaredValue
    <3>8. QED
      BY <2>1, <3>7 DEF DeclInv, last
  <2>4. QED
    BY <1>1, <2>1, <2>2, <2>3 DEF RunRecord
<1>15. CASE Runner
  <2>1. CASE PrintLock
    BY <1>4, <2>1 DEF PrintLock, stepVars
  <2>2. QED
    BY <1>9, <1>10, <1>11, <1>12, <1>13, <1>14, <1>15, <2>1 DEF Runner, EngineBack
<1>16. CASE WaitFails
  BY <1>12, <1>16 DEF EngineBack
<1>17. CASE RunAgain
  <2>1. run'.through = FALSE
    BY <1>1, <1>17 DEF RunAgain, RunRecord
  <2>2. QED
    BY <1>2, <2>1
<1>18. CASE StepExits
  <2>1. PICK end \in run.program.ends : Exit(end.code, end.oom, end.reached)
    BY <1>18 DEF StepExits
  <2> DEFINE state == [Exited |-> TRUE, ExitCode |-> end.code, OOMKilled |-> end.oom]
             res == [state |-> state, err |-> <<>>]
  <2>2. run' = [run EXCEPT !.pc = "exited", !.through = end.reached, !.res = res]
    BY <2>1 DEF Exit
  <2>3. run'.pc = "exited" /\ run'.through = end.reached /\ run'.res = res /\ run'.program = run.program
    <3> HIDE DEF res
    <3>1. QED
      BY <1>1, <2>2 DEF RunRecord
  <2>4. Success(run'.res.state) => end.code = 0
    BY <2>3 DEF Success
  <2>5. IsProgram(run.program) /\ end.reached \in BOOLEAN
    BY <1>1, <2>1, ProgramIs DEF RunRecord, IsProgram
  <2>6. CASE ~end.reached
    BY <1>2, <2>3, <2>5, <2>6
  <2>7. CASE end.reached
    <3>1. end.code \in LastCodes /\ files' = Written(Len(run.program.own), TRUE)
      BY <2>1, <2>5, <2>7 DEF Exit
    <3>2. Req' = Req
      BY <1>1 DEF Req
    <3>3. ASSUME Success(run'.res.state), NEW i \in DOMAIN DeclaredOf(Req), Survives(i)'
          PROVE  KeptIn(files["out"], i)'
      <4>1. Survives(i)
        BY <2>3, <3>2, <3>3 DEF Survives, DeclaredLine, DeclaredValue
      <4>2. Declares
        <5>1. DeclaredOf(Req) # <<>>
          BY <3>3
        <5>2. QED
          BY <5>1 DEF Declares
      <4>3. Writable(DeclaredOf(Req), run.program.env, Req.shell) = Len(DeclaredOf(Req))
        BY <2>4, <3>1, <3>3, <4>2 DEF LastCodes
      <4>4. KeptIn(Written(Len(run.program.own), TRUE)["out"], i)
        BY <1>1, <4>1, <4>2, <4>3, ExitKeeps DEF RunTyped
      <4>5. KeptIn(files'["out"], i)
        BY <3>1, <4>4
      <4>6. QED
        BY <2>3, <3>2, <4>5 DEF KeptIn, DeclaredLine
    <3>4. QED
      BY <2>3, <3>2, <3>3 DEF DeclInv
  <2>8. QED
    BY <2>5, <2>6, <2>7
<1>19. CASE Step
  <2>1. CASE Output \/ OutputEnds \/ Expire
    BY <1>4, <2>1 DEF Output, OutputEnds, Expire, stepVars
  <2>2. QED
    BY <1>16, <1>17, <1>18, <1>19, <2>1 DEF Step
<1>20. CASE Copier \/ (\E w \in LogWriters : SendOn(w))
            \/ \E s \in Subscribers : Stream(s) \/ ClientLeaves(s)
  BY <1>4, <1>20 DEF Copier, CopierReads, CopyMasked, CopyLock, CopyUnlock, SendOn, Stream,
                     ClientLeaves, stepVars
<1>21. QED
  BY <1>8, <1>15, <1>19, <1>20 DEF Next

LEMMA DeclBegins == ASSUME StepRunInit PROVE DeclInv
BY DEF StepRunInit, DeclInv

LEMMA TellsReported ==
    ASSUME DeclInv
    PROVE  DeclaredReported
<1> DEFINE result == Last(results)
<1> SUFFICES ASSUME run.pc = "done", run.through, ~Req.testSummary, Success(result.state),
                    result.err = <<>>, NEW i \in DOMAIN DeclaredOf(Req), Survives(i)
             PROVE  /\ <<DeclaredOf(Req)[i].Key>> \in DOMAIN result.outputs
                    /\ result.outputs[<<DeclaredOf(Req)[i].Key>>] = DeclaredValue(i)
                    /\ Req.outputs # <<>> =>
                          [Key |-> <<DeclaredOf(Req)[i].Key>>, Value |-> DeclaredValue(i),
                           Type |-> DeclaredOf(Req)[i].Type] \in result.outputsV2
  BY DEF DeclaredReported
<1>1. TellsAll(result)
  BY DEF DeclInv
<1> HIDE DEF result
<1>2. Tells(result, i)
  BY <1>1 DEF TellsAll
<1>3. QED
  BY <1>2 DEF Tells, Has

(* A declared variable is reported with the value its shell had, when the    *)
(* step succeeded and ran all its commands, whatever the step itself or an   *)
(* earlier run has written to the file before; for any requests, programs    *)
(* and number of runs (common.go:45-96, 132-205).                            *)
THEOREM DeclaredReportedAlways == Spec => []DeclaredReported
<1>1. ASSUME IInv, DeclInv, [Next]_vars PROVE DeclInv'
  BY <1>1, DeclStep DEF IInv
<1>2. ASSUME IInv, DeclInv PROVE DeclaredReported
  BY <1>2, TellsReported
<1>3. QED
  BY <1>1, <1>2, Invariant, DeclBegins, PTL DEF Spec
=============================================================================
