--------------------------- MODULE LiveLogProofs ---------------------------
(***************************************************************************)
(* Proofs about LiveLog, for chunks of any shapes and number, any limit    *)
(* and both ways to end a line.                                            *)
(***************************************************************************)
EXTENDS LiveLog, SequenceLemmas

-----------------------------------------------------------------------------
(* The inductive invariant.  While the copier has not been overtaken, one    *)
(* goroutine at a time is in Write, and what it has taken out of prev and    *)
(* not yet put into the history is known by its place in the output.         *)

Out(w) == proc[w].pc = "out"

\* The copier writes while the step copies, the runner when that is over.
Alternating ==
    /\ ~Out("copier") => step.copying
    /\ ~Out("runner") => runner \in {"ran", "flush"}
    /\ ~Out("runner") /\ ~step.overtaken => ~step.copying
    /\ runner \notin {"open", "run", "ran"} /\ ~step.overtaken => ~step.copying

\* A goroutine that is not about to send has copied nothing.
Batched ==
    /\ flusher # "send" => batch["flusher"] = <<>>
    /\ runner # "send" => batch["runner"] = <<>>

\* Close closes the writer; one closed before it is of a stream that could not be opened.
Opened ==
    /\ runner = "open" => ~b.closed /\ b.opened = "no"
    /\ runner \notin {"open", "run", "ran"} => b.closed
    /\ runner \in {"run", "ran"} /\ b.closed => b.opened = "failed"

Lines == Split(step.input)

\* Line k of the output, and the lines from it on, counted from 0.
Numbered(lines, k) == [num |-> k, msg |-> Message(lines[k + 1])]
From(lines, k)     == SubSeq(lines, k + 1, Len(lines))

\* Where a goroutine in Write is in the output, of which num lines were counted.
Place(frame, prev, num, input) ==
    /\ frame.pc = "prev" =>
          /\ frame.read = prev
          /\ \E before \in Seq(Token) :
                /\ input = before \o frame.data
                /\ prev = AfterLast(before) /\ num = Len(Split(before))
    /\ frame.pc \notin {"out", "prev"} => prev = AfterLast(input)
    /\ frame.pc = "parts" => frame.todo = From(Split(input), num)
    /\ frame.pc = "admit" =>
          /\ num < Len(Split(input)) /\ frame.line = Numbered(Split(input), num)
          /\ frame.todo = From(Split(input), num + 1)
    /\ frame.pc \in {"stopped", "push", "keep"} =>
          /\ num > 0 /\ frame.line = Numbered(Split(input), num - 1)
          /\ frame.todo = From(Split(input), num)

\* Outside Write every line of the output was counted, and prev is what follows them.
Settled ==
    (\A w \in Writers : Out(w)) => b.num = Len(Lines) /\ b.prev = AfterLast(step.input)

\* How many lines were put into the history, and how many were offered for sending.
Kept    == IF \E w \in Writers : proc[w].pc \in {"stopped", "push", "keep"} THEN b.num - 1 ELSE b.num
Offered == IF \E w \in Writers : proc[w].pc \in {"stopped", "push"} THEN b.num - 1 ELSE b.num

\* The history is the last of the lines that were put into it.
Recent(history, kept, lines) ==
    /\ Len(history) <= kept
    /\ \A i \in 1..Len(history) : history[i] = Numbered(lines, kept - Len(history) + i - 1)

(* Where a line is that was to be sent.  It is what its number says, and no  *)
(* number is in two places, or twice in one.                                 *)
Places == {"stream", "flusher", "runner", "pending"}

HeldIn(sent, copied, rest, waiting) ==
    [place \in Places |-> CASE place = "stream"  -> sent
                            [] place = "flusher" -> copied
                            [] place = "runner"  -> rest
                            [] place = "pending" -> waiting]

Held == HeldIn(stream, batch["flusher"], batch["runner"], b.pending)

Genuine(held, offered, lines) ==
    \A p \in Places : \A i \in 1..Len(held[p]) :
        held[p][i].num < offered /\ held[p][i] = Numbered(lines, held[p][i].num)

Distinct(held) ==
    \A p, q \in Places : \A i \in 1..Len(held[p]), j \in 1..Len(held[q]) :
        held[p][i].num = held[q][j].num => p = q /\ i = j

(* The runner only ends lines.  Close leaves nothing in prev of a stream that*)
(* was opened, and uploads the history once.                                 *)
Ended ==
    /\ proc["runner"].pc = "prev" => /\ Newlines(proc["runner"].data) # {}
                                     /\ AfterLast(proc["runner"].data) = <<>>
    /\ b.opened = "open" /\ runner = "flush" /\ proc["runner"].pc # "prev" => b.prev = <<>>
    /\ b.opened = "open" /\ runner \in {"send", "check", "upload", "done"} => b.prev = <<>>
    /\ runner # "done" => uploaded = <<>>
    /\ runner = "done" => uploaded = <<b.history>>

InOrder ==
    /\ \A w \in Writers : Place(proc[w], b.prev, b.num, step.input)
    /\ Settled
    /\ b.num <= Len(Lines)
    /\ Recent(b.history, Kept, Lines)
    /\ Genuine(Held, Offered, Lines)
    /\ Distinct(Held)
    /\ Ended

IInv == TypeOK /\ Alternating /\ Batched /\ Opened /\ (~step.overtaken => InOrder)

-----------------------------------------------------------------------------
(* Where the last newline is.                                                *)

LEMMA TokenNL == NL \in Token
BY LiveLogAssumption DEF NL, Token

LEMMA LastNewlineIs ==
    ASSUME NEW p \in Seq(Token)
    PROVE  /\ LastNewline(p) \in 0..Len(p)
           /\ LastNewline(p) # 0 => p[LastNewline(p)] = NL
           /\ \A i \in 1..Len(p) : p[i] = NL => i <= LastNewline(p)
<1>1. Len(p) \in Nat /\ DOMAIN p = 1..Len(p)
  BY LenProperties
<1>2. CASE Newlines(p) = {}
  BY <1>1, <1>2 DEF LastNewline, Newlines
<1>3. CASE Newlines(p) # {}
  <2>1. Newlines(p) \subseteq 0..Len(p)
    BY <1>1 DEF Newlines
  <2>2. Max(Newlines(p)) \in Newlines(p) /\ \A k \in Newlines(p) : k <= Max(Newlines(p))
    BY <1>1, <1>3, <2>1, GreatestOf
  <2>3. LastNewline(p) = Max(Newlines(p))
    BY <1>3 DEF LastNewline
  <2>4. QED
    BY <1>1, <2>1, <2>2, <2>3 DEF Newlines
<1>4. QED
  BY <1>2, <1>3

LEMMA LastNewlineUnique ==
    ASSUME NEW p \in Seq(Token), NEW k \in 0..Len(p), k # 0 => p[k] = NL,
           \A i \in 1..Len(p) : p[i] = NL => i <= k
    PROVE  LastNewline(p) = k
<1> DEFINE j == LastNewline(p)
<1>1. Len(p) \in Nat
  BY LenProperties
<1>2. /\ j \in 0..Len(p)
      /\ j # 0 => p[j] = NL
      /\ \A i \in 1..Len(p) : p[i] = NL => i <= j
  BY LastNewlineIs
<1> HIDE DEF j
<1>3. j # 0 => j <= k
  BY <1>1, <1>2
<1>4. k # 0 => k <= j
  BY <1>1, <1>2
<1>5. j = k
  BY <1>1, <1>2, <1>3, <1>4
<1>6. QED
  BY <1>5 DEF j

LEMMA AfterIs ==
    ASSUME NEW p \in Seq(Token)
    PROVE  /\ AfterLast(p) \in Seq(Token) /\ UpToLast(p) \in Seq(Token)
           /\ UpToLast(p) \o AfterLast(p) = p
           /\ Newlines(AfterLast(p)) = {}
<1> DEFINE k == LastNewline(p)
           n == Len(p)
<1>1. /\ k \in 0..n /\ n \in Nat
      /\ \A i \in 1..n : p[i] = NL => i <= k
  BY LenProperties, LastNewlineIs
<1>2. AfterLast(p) = SubSeq(p, k + 1, n) /\ UpToLast(p) = SubSeq(p, 1, k)
  BY DEF AfterLast, UpToLast
<1> HIDE DEF k
<1>3. \A i \in 1..n : p[i] \in Token
  BY ElementOfSeq
<1>4. /\ SubSeq(p, k + 1, n) \in Seq(Token)
      /\ Len(SubSeq(p, k + 1, n)) = IF k + 1 <= n THEN n - (k + 1) + 1 ELSE 0
      /\ \A i \in 1..(n - (k + 1) + 1) : SubSeq(p, k + 1, n)[i] = p[k + 1 + i - 1]
  <2>1. \A i \in (k + 1)..n : p[i] \in Token
    BY <1>1, <1>3
  <2>2. k + 1 \in Int /\ n \in Int
    BY <1>1
  <2>3. QED
    BY <2>1, <2>2, SubSeqProperties
<1>5. UpToLast(p) \in Seq(Token)
  BY <1>1, <1>2, FirstOfSeq
<1>6. SubSeq(p, 1, k) \o SubSeq(p, k + 1, n) = p
  <2>1. 1 \in 1..(n + 1) /\ k \in 0..n /\ 1 - 1 = 0 /\ n \in k..n
    BY <1>1
  <2>2. SubSeq(p, 1, k) \o SubSeq(p, k + 1, n) = SubSeq(p, 1, n)
    BY <2>1, ConcatAdjacentSubSeq
  <2>3. QED
    BY <2>2, SubSeqFull
<1>7. Newlines(AfterLast(p)) = {}
  <2> DEFINE a == SubSeq(p, k + 1, n)
  <2>1. DOMAIN a = 1..Len(a) /\ Len(a) = n - k
    BY <1>1, <1>4, LenProperties
  <2>2. ASSUME NEW i \in 1..(n - k) PROVE a[i] # NL
    <3>1. a[i] = p[k + i] /\ k + i \in 1..n /\ ~(k + i <= k)
      BY <1>1, <1>4
    <3>2. QED
      BY <1>1, <3>1
  <2>3. QED
    BY <1>2, <2>1, <2>2 DEF Newlines
<1>8. QED
  BY <1>2, <1>4, <1>5, <1>6, <1>7

LEMMA AfterWithout ==
    ASSUME NEW p \in Seq(Token), Newlines(p) = {}
    PROVE  AfterLast(p) = p
<1>1. LastNewline(p) = 0
  BY DEF LastNewline
<1>2. QED
  BY <1>1, SubSeqFull DEF AfterLast

LEMMA NothingAfter == AfterLast(<<>>) = <<>> /\ Split(<<>>) = <<>> /\ Newlines(<<>>) = {}
<1>1. Newlines(<<>>) = {} /\ <<>> \in Seq(Token)
  BY EmptySeq DEF Newlines
<1>2. AfterLast(<<>>) = <<>>
  BY <1>1, AfterWithout
<1>3. [i \in 1..Len(<<>>) |-> LineAt(<<>>, i)] = <<>>
  OBVIOUS
<1>4. Split(<<>>) = <<>>
  BY <1>3, FlattenEmpty DEF Split
<1>5. QED
  BY <1>1, <1>2, <1>4

LEMMA AfterAppend ==
    ASSUME NEW p \in Seq(Token), NEW x \in Token
    PROVE  AfterLast(Append(p, x)) = IF x = NL THEN <<>> ELSE Append(AfterLast(p), x)
<1> DEFINE q == Append(p, x)
           n == Len(p)
           k == LastNewline(p)
<1>1. n \in Nat /\ k \in 0..n /\ (k # 0 => p[k] = NL) /\ \A i \in 1..n : p[i] = NL => i <= k
  BY LenProperties, LastNewlineIs
<1>2. /\ q \in Seq(Token) /\ Len(q) = n + 1 /\ q[n + 1] = x
      /\ \A i \in 1..n : q[i] = p[i]
  BY AppendProperties
<1> HIDE DEF q, k
<1>3. CASE x = NL
  <2>1. n + 1 \in 0..Len(q) /\ \A i \in 1..Len(q) : i <= n + 1
    BY <1>1, <1>2
  <2>2. LastNewline(q) = n + 1
    BY <1>2, <1>3, <2>1, LastNewlineUnique
  <2>3. SubSeq(q, n + 1 + 1, n + 1) = <<>>
    BY <1>1, SubSeqEmpty
  <2>4. AfterLast(q) = <<>>
    BY <1>2, <2>2, <2>3 DEF AfterLast
  <2>5. QED
    BY <1>3, <2>4 DEF q
<1>4. CASE x # NL
  <2>1. k \in 0..Len(q) /\ (k # 0 => q[k] = NL)
    BY <1>1, <1>2
  <2>2. ASSUME NEW i \in 1..Len(q), q[i] = NL PROVE i <= k
    <3>1. i # n + 1
      BY <1>2, <1>4, <2>2
    <3>2. i \in 1..n
      BY <1>1, <1>2, <3>1
    <3>3. QED
      BY <1>1, <1>2, <2>2, <3>2
  <2>3. LastNewline(q) = k
    BY <1>2, <2>1, <2>2, LastNewlineUnique
  <2>4. AfterLast(q) = SubSeq(q, k + 1, n + 1) /\ AfterLast(p) = SubSeq(p, k + 1, n)
    BY <1>2, <2>3 DEF AfterLast, k
  <2> DEFINE a == SubSeq(q, k + 1, n + 1)
             c == SubSeq(p, k + 1, n)
  <2>5. a \in Seq(Token) /\ Len(a) = n + 1 - k /\ \A i \in 1..(n + 1 - k) : a[i] = q[k + i]
    <3>1. k + 1 \in Int /\ n + 1 \in Int /\ \A i \in (k + 1)..(n + 1) : q[i] \in Token
      BY <1>1, <1>2, ElementOfSeq
    <3>2. /\ a \in Seq(Token)
          /\ Len(a) = IF k + 1 <= n + 1 THEN n + 1 - (k + 1) + 1 ELSE 0
          /\ \A i \in 1..(n + 1 - (k + 1) + 1) : a[i] = q[k + 1 + i - 1]
      BY <3>1, SubSeqProperties
    <3>3. n + 1 - (k + 1) + 1 = n + 1 - k /\ k + 1 <= n + 1
      BY <1>1
    <3>4. \A i \in 1..(n + 1 - k) : k + 1 + i - 1 = k + i
      BY <1>1
    <3> HIDE DEF a
    <3>5. QED
      BY <3>2, <3>3, <3>4
  <2>6. c \in Seq(Token) /\ Len(c) = n - k /\ \A i \in 1..(n - k) : c[i] = p[k + i]
    <3>1. k + 1 \in Int /\ n \in Int /\ \A i \in (k + 1)..n : p[i] \in Token
      BY <1>1, ElementOfSeq
    <3>2. /\ c \in Seq(Token)
          /\ Len(c) = IF k + 1 <= n THEN n - (k + 1) + 1 ELSE 0
          /\ \A i \in 1..(n - (k + 1) + 1) : c[i] = p[k + 1 + i - 1]
      BY <3>1, SubSeqProperties
    <3>3. n - (k + 1) + 1 = n - k /\ (~(k + 1 <= n) => n - k = 0)
      BY <1>1
    <3>4. \A i \in 1..(n - k) : k + 1 + i - 1 = k + i
      BY <1>1
    <3> HIDE DEF c
    <3>5. QED
      BY <3>2, <3>3, <3>4
  <2> HIDE DEF a, c
  <2>7. /\ Append(c, x) \in Seq(Token) /\ Len(Append(c, x)) = n - k + 1
        /\ \A i \in 1..(n - k) : Append(c, x)[i] = c[i]
        /\ Append(c, x)[n - k + 1] = x
    BY <2>6, AppendProperties
  <2>8. ASSUME NEW i \in 1..Len(a) PROVE a[i] = Append(c, x)[i]
    <3>1. CASE i \in 1..(n - k)
      <4>1. k + i \in 1..n /\ i \in 1..(n + 1 - k)
        BY <1>1, <3>1
      <4>2. QED
        BY <1>2, <2>5, <2>6, <2>7, <3>1, <4>1
    <3>2. CASE i = n - k + 1
      <4>1. k + i = n + 1 /\ i \in 1..(n + 1 - k)
        BY <1>1, <3>2
      <4>2. QED
        BY <1>2, <2>5, <2>7, <3>2, <4>1
    <3>3. i \in 1..(n - k) \/ i = n - k + 1
      <4>1. i \in 1..(n + 1 - k)
        BY <2>5
      <4>2. QED
        BY <1>1, <4>1
    <3>4. QED
      BY <3>1, <3>2, <3>3
  <2>9. Len(a) = Len(Append(c, x))
    BY <1>1, <2>5, <2>7
  <2>10. a = Append(c, x)
    BY <2>5, <2>7, <2>8, <2>9, SeqEqual
  <2>11. QED
    BY <1>4, <2>4, <2>10 DEF a, c, q
<1>5. QED
  BY <1>3, <1>4

-----------------------------------------------------------------------------
(* Split, character by character.                                            *)

LEMMA LineAtType ==
    ASSUME NEW p \in Seq(Token), NEW i \in 1..Len(p)
    PROVE  LineAt(p, i) \in Seq(Seq(Token))
<1>1. Len(p) \in Nat /\ i - 1 \in Nat /\ i - 1 <= Len(p)
  BY LenProperties
<1>2. SubSeq(p, 1, i - 1) \in Seq(Token)
  BY <1>1, FirstOfSeq
<1>3. Append(AfterLast(SubSeq(p, 1, i - 1)), NL) \in Seq(Token)
  BY <1>2, TokenNL, AfterIs, AppendProperties
<1>4. QED
  BY <1>3, OneElement, NoElement DEF LineAt

LEMMA SplitType == ASSUME NEW p \in Seq(Token) PROVE Split(p) \in Seq(Seq(Token))
<1> DEFINE f == [i \in 1..Len(p) |-> LineAt(p, i)]
<1>1. f \in [1..Len(p) -> Seq(Seq(Token))]
  BY LineAtType
<1> HIDE DEF f
<1>2. f \in Seq(Seq(Seq(Token)))
  BY <1>1, FunctionIsSeq, LenProperties
<1>3. FlattenSeq(f) \in Seq(Seq(Token))
  BY <1>2, FlattenType
<1>4. QED
  BY <1>3 DEF f, Split

LEMMA SplitAppend ==
    ASSUME NEW p \in Seq(Token), NEW x \in Token
    PROVE  Split(Append(p, x)) = IF x = NL THEN Append(Split(p), Append(AfterLast(p), NL))
                                 ELSE Split(p)
<1> DEFINE q == Append(p, x)
           n == Len(p)
           f == [i \in 1..n |-> LineAt(p, i)]
           g == [i \in 1..Len(q) |-> LineAt(q, i)]
           e == IF x = NL THEN <<Append(AfterLast(p), NL)>> ELSE <<>>
<1>1. n \in Nat
  BY LenProperties
<1>2. /\ q \in Seq(Token) /\ Len(q) = n + 1 /\ q[n + 1] = x
      /\ \A i \in 1..n : q[i] = p[i]
  BY AppendProperties
<1> HIDE DEF q
<1>3. ASSUME NEW i \in 1..(n + 1)
      PROVE  SubSeq(q, 1, i - 1) = SubSeq(p, 1, i - 1)
  <2> DEFINE a == SubSeq(q, 1, i - 1)
             c == SubSeq(p, 1, i - 1)
  <2>1. i - 1 \in Nat /\ i - 1 <= Len(q) /\ i - 1 <= Len(p)
    BY <1>1, <1>2
  <2>2. a \in Seq(Token) /\ Len(a) = i - 1 /\ \A j \in 1..(i - 1) : a[j] = q[j]
    BY <1>2, <2>1, FirstOfSeq
  <2>3. c \in Seq(Token) /\ Len(c) = i - 1 /\ \A j \in 1..(i - 1) : c[j] = p[j]
    BY <2>1, FirstOfSeq
  <2>4. \A j \in 1..(i - 1) : j \in 1..n
    BY <1>1
  <2> HIDE DEF a, c
  <2>5. a = c
    BY <1>2, <2>2, <2>3, <2>4, SeqEqual
  <2>6. QED
    BY <2>5 DEF a, c
<1>4. ASSUME NEW i \in 1..n PROVE LineAt(q, i) = LineAt(p, i)
  <2>1. i \in 1..(n + 1)
    BY <1>1
  <2>2. QED
    BY <1>2, <1>3, <2>1 DEF LineAt
<1>5. LineAt(q, n + 1) = e
  <2>1. n + 1 \in 1..(n + 1) /\ n + 1 - 1 = n
    BY <1>1
  <2>2. SubSeq(q, 1, n + 1 - 1) = SubSeq(p, 1, n + 1 - 1)
    BY <1>3, <2>1
  <2>3. SubSeq(q, 1, n + 1 - 1) = p
    BY <2>1, <2>2, SubSeqFull
  <2>4. LineAt(q, n + 1) = IF q[n + 1] = NL
                           THEN <<Append(AfterLast(SubSeq(q, 1, n + 1 - 1)), NL)>> ELSE <<>>
    BY DEF LineAt
  <2> HIDE DEF n
  <2>5. QED
    BY <1>2, <2>3, <2>4 DEF e
<1>6. f \in Seq(Seq(Seq(Token))) /\ Len(f) = n
  <2>1. f \in [1..n -> Seq(Seq(Token))]
    BY LineAtType
  <2> HIDE DEF f
  <2>2. QED
    BY <1>1, <2>1, FunctionIsSeq
<1>7. g \in Seq(Seq(Seq(Token))) /\ Len(g) = n + 1
  <2>1. g \in [1..(n + 1) -> Seq(Seq(Token))]
    BY <1>2, LineAtType
  <2> HIDE DEF g
  <2>2. n + 1 \in Nat
    BY <1>1
  <2>3. QED
    BY <2>1, <2>2, FunctionIsSeq
<1>8. e \in Seq(Seq(Token))
  BY TokenNL, AfterIs, AppendProperties, OneElement, NoElement
<1>9. \A i \in 1..n : f[i] = LineAt(p, i)
  OBVIOUS
<1>10. \A i \in 1..(n + 1) : g[i] = LineAt(q, i)
  BY <1>2
<1> HIDE DEF f, g, e
<1>11. g = Append(f, e)
  <2>1. /\ Append(f, e) \in Seq(Seq(Seq(Token))) /\ Len(Append(f, e)) = n + 1
        /\ \A i \in 1..n : Append(f, e)[i] = f[i]
        /\ Append(f, e)[n + 1] = e
    BY <1>6, <1>8, AppendProperties
  <2>2. ASSUME NEW i \in 1..Len(g) PROVE g[i] = Append(f, e)[i]
    <3>1. i \in 1..(n + 1) /\ (i # n + 1 => i \in 1..n)
      BY <1>1, <1>7
    <3>2. g[i] = LineAt(q, i)
      BY <1>10, <3>1
    <3>3. CASE i = n + 1
      BY <1>5, <2>1, <3>2, <3>3
    <3>4. CASE i # n + 1
      BY <1>4, <1>9, <2>1, <3>1, <3>2, <3>4
    <3>5. QED
      BY <3>3, <3>4
  <2>3. QED
    BY <1>7, <2>1, <2>2, SeqEqual
<1>12. FlattenSeq(g) = FlattenSeq(f) \o e
  BY <1>6, <1>8, <1>11, FlattenAppend
<1>13. FlattenSeq(g) = Split(q) /\ FlattenSeq(f) = Split(p)
  BY DEF f, g, Split
<1>14. Split(q) = Split(p) \o e
  BY <1>12, <1>13
<1>15. CASE x = NL
  <2>1. Append(AfterLast(p), NL) \in Seq(Token)
    BY TokenNL, AfterIs, AppendProperties
  <2>2. Split(p) \o <<Append(AfterLast(p), NL)>> = Append(Split(p), Append(AfterLast(p), NL))
    BY <2>1, SplitType, AppendIsConcat
  <2>3. QED
    BY <1>14, <1>15, <2>2 DEF e, q
<1>16. CASE x # NL
  <2>1. Split(p) \o <<>> = Split(p)
    BY SplitType, ConcatEmptySeq
  <2>2. QED
    BY <1>14, <1>16, <2>1 DEF e, q
<1>17. QED
  BY <1>15, <1>16

LEMMA SplitWithout ==
    ASSUME NEW p \in Seq(Token), Newlines(p) = {}
    PROVE  Split(p) = <<>>
<1> DEFINE T == {q \in Seq(Token) : Newlines(q) = {} => Split(q) = <<>>}
<1>1. <<>> \in T
  BY NothingAfter, EmptySeq
<1>2. ASSUME NEW q \in Seq(Token), NEW x \in Token, q \in T
      PROVE  Append(q, x) \in T
  <2> SUFFICES ASSUME Newlines(Append(q, x)) = {}
               PROVE  Split(Append(q, x)) = <<>>
    BY AppendProperties
  <2>1. /\ Append(q, x) \in Seq(Token) /\ Len(Append(q, x)) = Len(q) + 1
        /\ \A i \in 1..Len(q) : Append(q, x)[i] = q[i]
        /\ Append(q, x)[Len(q) + 1] = x
        /\ Len(q) \in Nat
    BY AppendProperties, LenProperties
  <2>2. \A i \in 1..(Len(q) + 1) : Append(q, x)[i] # NL
    BY <2>1, LenProperties DEF Newlines
  <2>3. x # NL
    BY <2>1, <2>2
  <2>4. Newlines(q) = {}
    BY <2>1, <2>2, LenProperties DEF Newlines
  <2>5. QED
    BY <1>2, <2>3, <2>4, SplitAppend
<1> HIDE DEF T
<1>3. \A q \in Seq(Token) : q \in T
  BY <1>1, <1>2, EverySeq
<1>4. QED
  BY <1>3 DEF T

\* The lines of a text and what it goes on with: what followed the last newline comes first.
LEMMA SplitConcat ==
    ASSUME NEW a \in Seq(Token), NEW c \in Seq(Token)
    PROVE  /\ AfterLast(a \o c) = AfterLast(AfterLast(a) \o c)
           /\ Split(a \o c) = Split(a) \o Split(AfterLast(a) \o c)
<1> DEFINE r == AfterLast(a)
           T == {q \in Seq(Token) : /\ AfterLast(a \o q) = AfterLast(r \o q)
                                    /\ Split(a \o q) = Split(a) \o Split(r \o q)}
<1>1. r \in Seq(Token) /\ Newlines(r) = {} /\ Split(a) \in Seq(Seq(Token))
  BY AfterIs, SplitType
<1> HIDE DEF r
<1>2. <<>> \in T
  <2>1. a \o <<>> = a /\ r \o <<>> = r
    BY <1>1, ConcatEmptySeq
  <2>2. AfterLast(r) = r /\ Split(r) = <<>>
    BY <1>1, AfterWithout, SplitWithout
  <2>3. Split(a) \o <<>> = Split(a)
    BY <1>1, ConcatEmptySeq
  <2>4. QED
    BY <2>1, <2>2, <2>3, EmptySeq DEF r
<1>3. ASSUME NEW q \in Seq(Token), NEW x \in Token, q \in T
      PROVE  Append(q, x) \in T
  <2>1. Append(q, x) \in Seq(Token) /\ a \o q \in Seq(Token) /\ r \o q \in Seq(Token)
    BY <1>1, AppendProperties, ConcatProperties
  <2>2. a \o Append(q, x) = Append(a \o q, x) /\ r \o Append(q, x) = Append(r \o q, x)
    BY <1>1, ConcatAppend
  <2>3. AfterLast(a \o q) = AfterLast(r \o q) /\ Split(a \o q) = Split(a) \o Split(r \o q)
    BY <1>3
  <2>4. AfterLast(a \o Append(q, x)) = AfterLast(r \o Append(q, x))
    BY <2>1, <2>2, <2>3, AfterAppend
  <2>5. Split(a \o Append(q, x)) = Split(a) \o Split(r \o Append(q, x))
    <3>1. CASE x = NL
      <4> DEFINE e == Append(AfterLast(a \o q), NL)
      <4>1. e \in Seq(Token) /\ Split(r \o q) \in Seq(Seq(Token))
        BY <2>1, TokenNL, AfterIs, AppendProperties, SplitType
      <4>2. Split(Append(a \o q, x)) = Append(Split(a \o q), e)
        BY <2>1, <3>1, SplitAppend
      <4>3. Split(Append(r \o q, x)) = Append(Split(r \o q), e)
        BY <2>1, <2>3, <3>1, SplitAppend
      <4> HIDE DEF e
      <4>4. Split(a) \o Append(Split(r \o q), e) = Append(Split(a) \o Split(r \o q), e)
        BY <1>1, <4>1, ConcatAppend
      <4>5. QED
        BY <2>2, <2>3, <4>2, <4>3, <4>4
    <3>2. CASE x # NL
      BY <2>1, <2>2, <2>3, <3>2, SplitAppend
    <3>3. QED
      BY <3>1, <3>2
  <2>6. QED
    BY <2>1, <2>4, <2>5
<1> HIDE DEF T
<1>4. \A q \in Seq(Token) : q \in T
  BY <1>2, <1>3, EverySeq
<1>5. QED
  BY <1>4 DEF T, r

\* Nothing is lost by it.
LEMMA SplitFlattens ==
    ASSUME NEW p \in Seq(Token)
    PROVE  FlattenSeq(Split(p)) \o AfterLast(p) = p
<1> DEFINE T == {q \in Seq(Token) : FlattenSeq(Split(q)) \o AfterLast(q) = q}
<1>1. <<>> \in T
  <2>1. FlattenSeq(Split(<<>>)) \o AfterLast(<<>>) = <<>> \o <<>>
    BY NothingAfter, FlattenEmpty
  <2>2. QED
    BY <2>1, EmptySeq, ConcatEmptySeq
<1>2. ASSUME NEW q \in Seq(Token), NEW x \in Token, q \in T
      PROVE  Append(q, x) \in T
  <2> DEFINE r == AfterLast(q)
             s == Split(q)
  <2>1. r \in Seq(Token) /\ s \in Seq(Seq(Token)) /\ FlattenSeq(s) \in Seq(Token)
    BY AfterIs, SplitType, FlattenType
  <2>2. FlattenSeq(s) \o r = q
    BY <1>2
  <2>3. AfterLast(Append(q, x)) = IF x = NL THEN <<>> ELSE Append(r, x)
    BY AfterAppend
  <2>4. Split(Append(q, x)) = IF x = NL THEN Append(s, Append(r, NL)) ELSE s
    BY SplitAppend
  <2> HIDE DEF r, s
  <2>5. FlattenSeq(s) \o Append(r, x) = Append(q, x)
    BY <2>1, <2>2, ConcatAppend
  <2>6. CASE x = NL
    <3>1. Append(r, NL) \in Seq(Token)
      BY <2>1, TokenNL, AppendProperties
    <3>2. FlattenSeq(Append(s, Append(r, NL))) = FlattenSeq(s) \o Append(r, NL)
      BY <2>1, <3>1, FlattenAppend
    <3>3. FlattenSeq(s) \o Append(r, NL) \in Seq(Token)
      BY <2>1, <3>1, ConcatProperties
    <3>4. (FlattenSeq(s) \o Append(r, NL)) \o <<>> = FlattenSeq(s) \o Append(r, NL)
      BY <3>3, ConcatEmptySeq
    <3>5. QED
      BY <2>3, <2>4, <2>5, <2>6, <3>2, <3>4, AppendProperties
  <2>7. CASE x # NL
    BY <2>3, <2>4, <2>5, <2>7, AppendProperties
  <2>8. QED
    BY <2>6, <2>7
<1> HIDE DEF T
<1>3. \A q \in Seq(Token) : q \in T
  BY <1>1, <1>2, EverySeq
<1>4. QED
  BY <1>3 DEF T

\* Every line ends in its newline.
LEMMA SplitEnds ==
    ASSUME NEW p \in Seq(Token)
    PROVE  \A i \in 1..Len(Split(p)) : \E m \in Seq(Token) : Split(p)[i] = Append(m, NL)
<1> DEFINE Ends(s) == \A i \in 1..Len(s) : \E m \in Seq(Token) : s[i] = Append(m, NL)
           T == {q \in Seq(Token) : Ends(Split(q))}
<1>1. <<>> \in T
  BY NothingAfter, EmptySeq
<1>2. ASSUME NEW q \in Seq(Token), NEW x \in Token, q \in T
      PROVE  Append(q, x) \in T
  <2> DEFINE s == Split(q)
             m == AfterLast(q)
  <2>1. m \in Seq(Token) /\ s \in Seq(Seq(Token)) /\ Append(m, NL) \in Seq(Token)
    BY AfterIs, SplitType, TokenNL, AppendProperties
  <2>2. Split(Append(q, x)) = IF x = NL THEN Append(s, Append(m, NL)) ELSE s
    BY SplitAppend
  <2>3. Ends(s)
    BY <1>2
  <2> HIDE DEF s, m
  <2>4. Ends(Append(s, Append(m, NL)))
    <3>1. /\ Len(Append(s, Append(m, NL))) = Len(s) + 1 /\ Len(s) \in Nat
          /\ \A i \in 1..Len(s) : Append(s, Append(m, NL))[i] = s[i]
          /\ Append(s, Append(m, NL))[Len(s) + 1] = Append(m, NL)
      BY <2>1, AppendProperties, LenProperties
    <3>2. \A i \in 1..(Len(s) + 1) : i \in 1..Len(s) \/ i = Len(s) + 1
      BY <3>1
    <3>3. QED
      BY <2>1, <2>3, <3>1, <3>2
  <2>5. Ends(Split(Append(q, x)))
    <3> HIDE DEF Ends
    <3>1. QED
      BY <2>2, <2>3, <2>4
  <2>6. QED
    BY <2>5, AppendProperties
<1> HIDE DEF T
<1>3. \A q \in Seq(Token) : q \in T
  BY <1>1, <1>2, EverySeq
<1>4. QED
  BY <1>3 DEF T

LEMMA Reassociate ==
    ASSUME NEW S, NEW s \in Seq(S), NEW t \in Seq(S), NEW v \in Seq(S)
    PROVE  (s \o t) \o v = s \o (t \o v)
BY ConcatAssociative

\* What a Write logs, with what was left over before it, and what it leaves.
LEMMA WholeLines ==
    ASSUME NEW r \in Seq(Token), NEW p \in Seq(Token), Newlines(p) # {}
    PROVE  /\ Split(r \o UpToLast(p)) = Split(r \o p)
           /\ AfterLast(p) = AfterLast(r \o p)
<1> DEFINE up == UpToLast(p)
           a == AfterLast(p)
           k == LastNewline(p)
<1>1. a \in Seq(Token) /\ up \in Seq(Token) /\ up \o a = p /\ Newlines(a) = {}
  BY AfterIs
<1>2. k \in 0..Len(p) /\ Len(p) \in Nat /\ k # 0 /\ p[k] = NL
  BY LastNewlineIs, LenProperties DEF Newlines
<1>3. Len(up) = k /\ up[k] = NL
  <2>1. up = SubSeq(p, 1, k)
    BY DEF UpToLast
  <2> HIDE DEF up, k
  <2>2. k \in Nat /\ k <= Len(p) /\ k \in 1..k
    BY <1>2
  <2>3. QED
    BY <1>2, <2>1, <2>2, FirstOfSeq
<1> HIDE DEF up, a, k
<1>4. PICK v \in Seq(Token), x \in Token : up = Append(v, x)
  <2>1. up # <<>>
    BY <1>2, <1>3, EmptySeq
  <2>2. QED
    BY <1>1, <2>1, SequenceEmptyOrAppend
<1>5. x = NL
  <2>1. Len(up) = Len(v) + 1 /\ up[Len(v) + 1] = x
    BY <1>4, AppendProperties
  <2>2. QED
    BY <1>3, <2>1
<1>6. r \o up \in Seq(Token) /\ r \o v \in Seq(Token) /\ r \o up = Append(r \o v, NL)
  BY <1>1, <1>4, <1>5, ConcatAppend, ConcatProperties
<1>7. AfterLast(r \o up) = <<>>
  BY <1>6, TokenNL, AfterAppend
<1>8. (r \o up) \o a = r \o p
  <2>1. r \in Seq(Token) /\ up \in Seq(Token) /\ a \in Seq(Token)
    BY <1>1
  <2>2. (r \o up) \o a = r \o (up \o a)
    BY <2>1, Reassociate
  <2>3. QED
    BY <1>1, <2>2
<1>9. <<>> \o a = a /\ AfterLast(a) = a /\ Split(a) = <<>>
  BY <1>1, ConcatEmptySeq, AfterWithout, SplitWithout
<1>10. /\ AfterLast((r \o up) \o a) = AfterLast(AfterLast(r \o up) \o a)
       /\ Split((r \o up) \o a) = Split(r \o up) \o Split(AfterLast(r \o up) \o a)
  BY <1>1, <1>6, SplitConcat
<1>11. Split(r \o up) \o <<>> = Split(r \o up)
  BY <1>6, SplitType, ConcatEmptySeq
<1>12. QED
  BY <1>7, <1>8, <1>9, <1>10, <1>11 DEF up, a

\* What is written later leaves the lines there are.
LEMMA SplitGrows ==
    ASSUME NEW a \in Seq(Token), NEW c \in Seq(Token)
    PROVE  /\ Len(Split(a)) <= Len(Split(a \o c))
           /\ \A i \in 1..Len(Split(a)) : Split(a \o c)[i] = Split(a)[i]
<1> DEFINE s == Split(a)
           t == Split(AfterLast(a) \o c)
<1>1. s \in Seq(Seq(Token)) /\ t \in Seq(Seq(Token))
  BY AfterIs, ConcatProperties, SplitType
<1>2. Split(a \o c) = s \o t
  BY SplitConcat
<1> HIDE DEF s, t
<1>3. /\ Len(s \o t) = Len(s) + Len(t) /\ Len(s) \in Nat /\ Len(t) \in Nat
      /\ \A i \in 1..(Len(s) + Len(t)) : (s \o t)[i] = IF i <= Len(s) THEN s[i] ELSE t[i - Len(s)]
  BY <1>1, ConcatProperties, LenProperties
<1>4. \A i \in 1..Len(s) : i \in 1..(Len(s) + Len(t)) /\ i <= Len(s)
  BY <1>3
<1>5. QED
  BY <1>2, <1>3, <1>4 DEF s
-----------------------------------------------------------------------------
(* What the parts of the invariant say, of any values.                       *)

LEMMA FromIs ==
    ASSUME NEW lines \in Seq(Seq(Token)), NEW k \in 0..Len(lines)
    PROVE  /\ From(lines, k) \in Seq(Seq(Token))
           /\ k = Len(lines) <=> From(lines, k) = <<>>
           /\ k < Len(lines) => /\ Head(From(lines, k)) = lines[k + 1]
                                /\ Tail(From(lines, k)) = From(lines, k + 1)
<1> DEFINE n == Len(lines)
<1>1. n \in Nat /\ \A i \in 1..n : lines[i] \in Seq(Token)
  BY LenProperties, ElementOfSeq
<1>2. CASE k = n
  <2>1. From(lines, k) = <<>>
    BY <1>1, <1>2, SubSeqEmpty DEF From
  <2>2. QED
    BY <1>1, <1>2, <2>1, EmptySeq
<1>3. CASE k # n
  <2>1. k + 1 \in 1..n /\ n \in (k + 1)..n
    BY <1>1, <1>3
  <2>2. /\ Head(SubSeq(lines, k + 1, n)) = lines[k + 1]
        /\ Tail(SubSeq(lines, k + 1, n)) = SubSeq(lines, k + 1 + 1, n)
    BY <2>1, HeadTailOfSubSeq
  <2>3. SubSeq(lines, k + 1, n) \in Seq(Seq(Token)) /\ Len(SubSeq(lines, k + 1, n)) = n - k
    <3>1. k + 1 \in Int /\ n \in Int /\ \A i \in (k + 1)..n : lines[i] \in Seq(Token)
      BY <1>1
    <3>2. Len(SubSeq(lines, k + 1, n)) = IF k + 1 <= n THEN n - (k + 1) + 1 ELSE 0
      BY <3>1, SubSeqProperties
    <3>3. QED
      BY <1>1, <2>1, <3>1, <3>2, SubSeqProperties
  <2>4. SubSeq(lines, k + 1, n) # <<>>
    <3> DEFINE c == SubSeq(lines, k + 1, n)
    <3>1. Len(c) # 0
      BY <1>1, <1>3, <2>3
    <3> HIDE DEF c
    <3>2. c # <<>>
      BY <3>1
    <3>3. QED
      BY <3>2 DEF c
  <2>5. QED
    BY <1>3, <2>2, <2>3, <2>4 DEF From
<1>4. QED
  BY <1>2, <1>3

LEMMA MessageType == ASSUME NEW part \in Seq(Token) PROVE Message(part) \in Seq(Token)
<1>1. Front(part) \in Seq(Token)
  <2>1. Len(part) \in Nat /\ \A i \in 1..(Len(part) - 1) : part[i] \in Token
    BY LenProperties, ElementOfSeq
  <2>2. 1 \in Int /\ Len(part) - 1 \in Int
    BY <2>1
  <2>3. SubSeq(part, 1, Len(part) - 1) \in Seq(Token)
    BY <2>1, <2>2, SubSeqProperties
  <2>4. QED
    BY <2>3 DEF Front
<1>2. QED
  BY <1>1 DEF Message

LEMMA NumberedType ==
    ASSUME NEW lines \in Seq(Seq(Token)), NEW k \in Nat, k < Len(lines)
    PROVE  Numbered(lines, k) \in Line /\ Numbered(lines, k).num = k
<1>1. k + 1 \in 1..Len(lines)
  BY LenProperties
<1>2. lines[k + 1] \in Seq(Token)
  BY <1>1, ElementOfSeq
<1>3. QED
  BY <1>2, MessageType DEF Numbered, Line

\* The lines there are keep their numbers when the output grows.
LEMMA NumberedGrows ==
    ASSUME NEW a \in Seq(Token), NEW c \in Seq(Token)
    PROVE  /\ Len(Split(a)) <= Len(Split(a \o c))
           /\ \A k \in Nat : k < Len(Split(a)) => Numbered(Split(a \o c), k) = Numbered(Split(a), k)
<1>1. Len(Split(a)) \in Nat
  BY SplitType, LenProperties
<1>2. \A k \in Nat : k < Len(Split(a)) => k + 1 \in 1..Len(Split(a))
  BY <1>1
<1>3. QED
  BY <1>2, SplitGrows DEF Numbered

LEMMA RecentGrows ==
    ASSUME NEW a \in Seq(Token), NEW c \in Seq(Token), NEW history \in Seq(Line), NEW kept \in Int,
           kept <= Len(Split(a)), Recent(history, kept, Split(a))
    PROVE  Recent(history, kept, Split(a \o c))
<1>1. Len(history) \in Nat /\ Len(Split(a)) \in Nat
  BY LenProperties, SplitType
<1>2. \A i \in 1..Len(history) :
          kept - Len(history) + i - 1 \in Nat /\ kept - Len(history) + i - 1 < Len(Split(a))
  BY <1>1 DEF Recent
<1>3. QED
  BY <1>2, NumberedGrows DEF Recent

LEMMA RecentAppend ==
    ASSUME NEW history \in Seq(Line), NEW kept \in Nat, NEW lines \in Seq(Seq(Token)),
           kept < Len(lines), Recent(history, kept, lines)
    PROVE  Recent(Append(history, Numbered(lines, kept)), kept + 1, lines)
<1> DEFINE e == Numbered(lines, kept)
           h == Append(history, e)
           n == Len(history)
<1>1. e \in Line /\ n \in Nat /\ n <= kept
  BY NumberedType, LenProperties DEF Recent
<1> HIDE DEF e
<1>2. Len(h) = n + 1 /\ h[n + 1] = e /\ \A i \in 1..n : h[i] = history[i]
  BY <1>1, AppendProperties
<1> HIDE DEF h
<1>3. ASSUME NEW i \in 1..Len(h)
      PROVE  h[i] = Numbered(lines, kept + 1 - Len(h) + i - 1)
  <2>1. CASE i = n + 1
    <3>1. kept + 1 - Len(h) + i - 1 = kept
      BY <1>1, <1>2, <2>1
    <3>2. QED
      BY <1>2, <2>1, <3>1 DEF e
  <2>2. CASE i # n + 1
    <3>1. i \in 1..n /\ kept + 1 - Len(h) + i - 1 = kept - n + i - 1
      BY <1>1, <1>2, <2>2
    <3>2. QED
      BY <1>2, <3>1 DEF Recent
  <2>3. QED
    BY <2>1, <2>2
<1>4. Len(h) <= kept + 1
  BY <1>1, <1>2
<1>5. QED
  BY <1>3, <1>4 DEF Recent, h, e

LEMMA RecentEvict ==
    ASSUME NEW history \in Seq(Line), NEW kept \in Nat, NEW lines, NEW n \in 0..Len(history),
           Recent(history, kept, lines)
    PROVE  Recent(SubSeq(history, n + 1, Len(history)), kept, lines)
<1> DEFINE m == Len(history)
           h == SubSeq(history, n + 1, m)
<1>1. m \in Nat /\ m <= kept /\ \A i \in 1..m : history[i] \in Line
  BY LenProperties, ElementOfSeq DEF Recent
<1>2. Len(h) = m - n /\ \A i \in 1..(m - n) : h[i] = history[n + i]
  <2>1. n + 1 \in Int /\ m \in Int /\ \A i \in (n + 1)..m : history[i] \in Line
    BY <1>1
  <2>2. /\ Len(h) = IF n + 1 <= m THEN m - (n + 1) + 1 ELSE 0
        /\ \A i \in 1..(m - (n + 1) + 1) : h[i] = history[n + 1 + i - 1]
    BY <2>1, SubSeqProperties
  <2>3. m - (n + 1) + 1 = m - n /\ (~(n + 1 <= m) => m - n = 0)
    BY <1>1
  <2>4. \A i \in 1..(m - n) : n + 1 + i - 1 = n + i
    BY <1>1
  <2> HIDE DEF h
  <2>5. QED
    BY <2>2, <2>3, <2>4
<1> HIDE DEF h
<1>3. ASSUME NEW i \in 1..Len(h)
      PROVE  h[i] = Numbered(lines, kept - Len(h) + i - 1)
  <2>1. n + i \in 1..m /\ kept - m + (n + i) - 1 = kept - Len(h) + i - 1
    BY <1>1, <1>2
  <2>2. history[n + i] = Numbered(lines, kept - m + (n + i) - 1)
    BY <2>1 DEF Recent
  <2>3. QED
    BY <1>2, <2>1, <2>2
<1>4. Len(h) <= kept
  BY <1>1, <1>2
<1>5. QED
  BY <1>3, <1>4 DEF Recent, h

-----------------------------------------------------------------------------
LEMMA HeldIs ==
    ASSUME NEW s \in Seq(Line), NEW f \in Seq(Line), NEW r \in Seq(Line), NEW p \in Seq(Line)
    PROVE  /\ HeldIn(s, f, r, p) \in [Places -> Seq(Line)]
           /\ HeldIn(s, f, r, p)["stream"] = s /\ HeldIn(s, f, r, p)["flusher"] = f
           /\ HeldIn(s, f, r, p)["runner"] = r /\ HeldIn(s, f, r, p)["pending"] = p
BY DEF HeldIn, Places

LEMMA GenuineGrows ==
    ASSUME NEW a \in Seq(Token), NEW c \in Seq(Token), NEW held \in [Places -> Seq(Line)],
           NEW offered \in Int, offered <= Len(Split(a)), Genuine(held, offered, Split(a))
    PROVE  Genuine(held, offered, Split(a \o c))
<1> SUFFICES ASSUME NEW p \in Places, NEW i \in 1..Len(held[p])
             PROVE  /\ held[p][i].num < offered
                    /\ held[p][i] = Numbered(Split(a \o c), held[p][i].num)
  BY DEF Genuine
<1>1. held[p][i] \in Line
  BY ElementOfSeq
<1>2. /\ held[p][i].num < offered /\ held[p][i].num \in Nat
      /\ held[p][i] = Numbered(Split(a), held[p][i].num)
  BY <1>1 DEF Genuine, Line
<1>3. Len(Split(a)) \in Nat
  BY SplitType, LenProperties
<1>4. held[p][i].num < Len(Split(a))
  BY <1>2, <1>3
<1>5. QED
  BY <1>2, <1>4, NumberedGrows

LEMMA GenuineMore ==
    ASSUME NEW held \in [Places -> Seq(Line)], NEW n \in Int, NEW m \in Int, n <= m, NEW lines,
           Genuine(held, n, lines)
    PROVE  Genuine(held, m, lines)
<1> SUFFICES ASSUME NEW p \in Places, NEW i \in 1..Len(held[p])
             PROVE  held[p][i].num < m /\ held[p][i] = Numbered(lines, held[p][i].num)
  BY DEF Genuine
<1>1. held[p][i] \in Line
  BY ElementOfSeq
<1>2. QED
  BY <1>1 DEF Genuine, Line

\* What is in one place goes to the end of another.
LEMMA Moved ==
    ASSUME NEW held \in [Places -> Seq(Line)], NEW to \in Places, NEW from \in Places, to # from,
           NEW after \in [Places -> Seq(Line)],
           after[to] = held[to] \o held[from], after[from] = <<>>,
           \A p \in Places \ {to, from} : after[p] = held[p],
           Distinct(held), NEW offered, NEW lines, Genuine(held, offered, lines)
    PROVE  Distinct(after) /\ Genuine(after, offered, lines)
<1> DEFINE Was(p, i) == IF p = to /\ ~(i <= Len(held[to])) THEN from ELSE p
           Index(p, i) == IF p = to /\ ~(i <= Len(held[to])) THEN i - Len(held[to]) ELSE i
<1>1. /\ Len(held[to]) \in Nat /\ Len(held[from]) \in Nat
      /\ Len(after[to]) = Len(held[to]) + Len(held[from])
      /\ \A i \in 1..(Len(held[to]) + Len(held[from])) : after[to][i] =
             IF i <= Len(held[to]) THEN held[to][i] ELSE held[from][i - Len(held[to])]
  BY ConcatProperties, LenProperties
<1>2. ASSUME NEW p \in Places, NEW i \in 1..Len(after[p])
      PROVE  /\ Was(p, i) \in Places /\ Index(p, i) \in 1..Len(held[Was(p, i)])
             /\ after[p][i] = held[Was(p, i)][Index(p, i)]
             /\ p # from
  <2>1. p # from
    BY EmptySeq
  <2>2. CASE p = to /\ ~(i <= Len(held[to]))
    BY <1>1, <2>1, <2>2
  <2>3. CASE p = to /\ i <= Len(held[to])
    BY <1>1, <2>1, <2>3
  <2>4. CASE p # to
    BY <2>1, <2>4
  <2>5. QED
    BY <2>2, <2>3, <2>4
<1>3. ASSUME NEW p \in Places, NEW i \in 1..Len(after[p]),
             NEW q \in Places, NEW j \in 1..Len(after[q]),
             Was(p, i) = Was(q, j), Index(p, i) = Index(q, j)
      PROVE  p = q /\ i = j
  <2>1. p # from /\ q # from
    BY <1>2
  <2>2. p = q
    BY <1>3, <2>1
  <2>3. Len(held[to]) \in Nat /\ i \in Int /\ j \in Int
    BY <1>1
  <2>4. QED
    BY <1>3, <2>1, <2>2, <2>3
<1> HIDE DEF Was, Index
<1>4. Distinct(after)
  <2> SUFFICES ASSUME NEW p \in Places, NEW q \in Places,
                      NEW i \in 1..Len(after[p]), NEW j \in 1..Len(after[q]),
                      after[p][i].num = after[q][j].num
               PROVE  p = q /\ i = j
    BY DEF Distinct
  <2>1. /\ Was(p, i) \in Places /\ Index(p, i) \in 1..Len(held[Was(p, i)])
        /\ after[p][i] = held[Was(p, i)][Index(p, i)]
    BY <1>2
  <2>2. /\ Was(q, j) \in Places /\ Index(q, j) \in 1..Len(held[Was(q, j)])
        /\ after[q][j] = held[Was(q, j)][Index(q, j)]
    BY <1>2
  <2>3. held[Was(p, i)][Index(p, i)].num = held[Was(q, j)][Index(q, j)].num
    BY <2>1, <2>2
  <2>4. \A x, y \in Places : \A k \in 1..Len(held[x]), l \in 1..Len(held[y]) :
            held[x][k].num = held[y][l].num => x = y /\ k = l
    BY DEF Distinct
  <2>5. PICK x, y, k, l : x = Was(p, i) /\ k = Index(p, i) /\ y = Was(q, j) /\ l = Index(q, j)
    OBVIOUS
  <2>6. /\ x \in Places /\ y \in Places /\ k \in 1..Len(held[x]) /\ l \in 1..Len(held[y])
        /\ held[x][k].num = held[y][l].num
    BY <2>1, <2>2, <2>3, <2>5
  <2>7. x = y /\ k = l
    BY <2>4, <2>6
  <2>8. Was(p, i) = Was(q, j) /\ Index(p, i) = Index(q, j)
    BY <2>5, <2>7
  <2>9. QED
    BY <1>3, <2>8
<1>5. Genuine(after, offered, lines)
  <2> SUFFICES ASSUME NEW p \in Places, NEW i \in 1..Len(after[p])
               PROVE  /\ after[p][i].num < offered
                      /\ after[p][i] = Numbered(lines, after[p][i].num)
    BY DEF Genuine
  <2>1. /\ Was(p, i) \in Places /\ Index(p, i) \in 1..Len(held[Was(p, i)])
        /\ after[p][i] = held[Was(p, i)][Index(p, i)]
    BY <1>2
  <2>2. QED
    BY <2>1 DEF Genuine
<1>6. QED
  BY <1>4, <1>5

\* The next line joins those that are waiting.
LEMMA Joined ==
    ASSUME NEW held \in [Places -> Seq(Line)], NEW after \in [Places -> Seq(Line)],
           NEW lines \in Seq(Seq(Token)), NEW n \in Nat, n < Len(lines),
           after["pending"] = Append(held["pending"], Numbered(lines, n)),
           \A p \in Places \ {"pending"} : after[p] = held[p],
           Distinct(held), Genuine(held, n, lines)
    PROVE  Distinct(after) /\ Genuine(after, n + 1, lines)
<1> DEFINE e == Numbered(lines, n)
           k == Len(held["pending"]) + 1
<1>1. e \in Line /\ e.num = n
  BY NumberedType
<1>2. /\ "pending" \in Places /\ held["pending"] \in Seq(Line)
      /\ k \in Nat /\ Len(after["pending"]) = k /\ after["pending"][k] = e
      /\ \A i \in 1..Len(held["pending"]) : after["pending"][i] = held["pending"][i]
  BY <1>1, AppendProperties, LenProperties DEF Places
<1> HIDE DEF e
<1>3. ASSUME NEW p \in Places, NEW i \in 1..Len(after[p])
      PROVE  \/ p = "pending" /\ i = k /\ after[p][i] = e
             \/ i \in 1..Len(held[p]) /\ after[p][i] = held[p][i]
  <2>1. CASE p # "pending"
    BY <2>1
  <2>2. CASE p = "pending" /\ i # k
    BY <1>2, <2>2
  <2>3. CASE p = "pending" /\ i = k
    BY <1>2, <2>3
  <2>4. QED
    BY <2>1, <2>2, <2>3
<1> HIDE DEF k
<1>4. ASSUME NEW p \in Places, NEW i \in 1..Len(held[p])
      PROVE  held[p][i].num \in Nat /\ held[p][i].num < n /\ held[p][i].num # e.num
  <2>1. held[p][i] \in Line
    BY ElementOfSeq
  <2>2. held[p][i].num < n /\ held[p][i].num \in Nat
    BY <2>1 DEF Genuine, Line
  <2>3. QED
    BY <1>1, <2>2
<1>5. Distinct(after)
  <2> SUFFICES ASSUME NEW p \in Places, NEW q \in Places,
                      NEW i \in 1..Len(after[p]), NEW j \in 1..Len(after[q]),
                      after[p][i].num = after[q][j].num
               PROVE  p = q /\ i = j
    BY DEF Distinct
  <2>1. CASE after[p][i] = e
    <3>1. after[q][j].num = e.num
      BY <2>1
    <3>2. q = "pending" /\ j = k
      BY <1>3, <1>4, <3>1
    <3>3. after[p][i].num = e.num
      BY <2>1
    <3>4. p = "pending" /\ i = k
      BY <1>3, <1>4, <3>3
    <3>5. QED
      BY <3>2, <3>4
  <2>2. CASE i \in 1..Len(held[p]) /\ after[p][i] = held[p][i]
    <3>1. after[q][j].num # e.num
      BY <1>4, <2>2
    <3>2. j \in 1..Len(held[q]) /\ after[q][j] = held[q][j]
      BY <1>3, <3>1
    <3>3. QED
      BY <2>2, <3>2 DEF Distinct
  <2>3. QED
    BY <1>3, <2>1, <2>2
<1>6. Genuine(after, n + 1, lines)
  <2> SUFFICES ASSUME NEW p \in Places, NEW i \in 1..Len(after[p])
               PROVE  /\ after[p][i].num < n + 1
                      /\ after[p][i] = Numbered(lines, after[p][i].num)
    BY DEF Genuine
  <2>1. CASE after[p][i] = e
    BY <1>1, <2>1 DEF e
  <2>2. CASE i \in 1..Len(held[p]) /\ after[p][i] = held[p][i]
    <3>1. held[p][i] = Numbered(lines, held[p][i].num)
      BY <2>2 DEF Genuine
    <3>2. held[p][i].num \in Nat /\ held[p][i].num < n
      BY <1>4, <2>2
    <3>3. QED
      BY <2>2, <3>1, <3>2
  <2>3. QED
    BY <1>3, <2>1, <2>2
<1>7. QED
  BY <1>5, <1>6

-----------------------------------------------------------------------------
(* Types.                                                                    *)

LEMMA Fields ==
    ASSUME TypeOK
    PROVE  /\ b.opened \in {"no", "open", "failed"} /\ b.closed \in BOOLEAN /\ b.ready \in BOOLEAN
           /\ b.prev \in Seq(Token) /\ b.size \in Int /\ b.num \in Nat
           /\ b.pending \in Seq(Line) /\ b.history \in Seq(Line) /\ b.errs \in SUBSET Nat
           /\ \A w \in Writers :
                 /\ proc[w].data \in Seq(Token) /\ proc[w].read \in Seq(Token)
                 /\ proc[w].todo \in Seq(Seq(Token)) /\ proc[w].line \in Line
           /\ batch["flusher"] \in Seq(Line) /\ batch["runner"] \in Seq(Line)
           /\ step.copying \in BOOLEAN /\ step.overtaken \in BOOLEAN
           /\ step.writes \in 0..MaxWrites /\ step.input \in Seq(Token)
           /\ stream \in Seq(Line) /\ uploaded \in Seq(Seq(Line))
BY DEF TypeOK

\* The texts of the first n lines of a history.
LEMMA Messages ==
    ASSUME TypeOK, NEW n \in 0..Len(b.history)
    PROVE  [i \in 1..n |-> b.history[i].msg] \in Seq(Seq(Token))
<1>1. b.history \in Seq(Line) /\ Len(b.history) \in Nat
  BY Fields, LenProperties
<1>2. \A i \in 1..n : i \in 1..Len(b.history)
  BY <1>1
<1>3. \A i \in 1..n : b.history[i] \in Line
  BY <1>1, <1>2, ElementOfSeq
<1>4. \A i \in 1..n : b.history[i].msg \in Seq(Token)
  BY <1>3 DEF Line
<1>5. [i \in 1..n |-> b.history[i].msg] \in [1..n -> Seq(Token)]
  BY <1>4
<1> DEFINE f == [i \in 1..n |-> b.history[i].msg]
<1> HIDE DEF f
<1>6. f \in Seq(Seq(Token))
  BY <1>5, FunctionIsSeq DEF f
<1>7. QED
  BY <1>6 DEF f

LEMMA RefundsType ==
    ASSUME TypeOK, NEW n \in 0..Len(b.history)
    PROVE  Refunds(n) \in Nat
<1>1. n \in Nat /\ Overhead \in Nat
  BY Fields, LenProperties, LiveLogAssumption
<1>2. FlattenSeq([i \in 1..n |-> b.history[i].msg]) \in Seq(Token)
  BY Messages, FlattenType
<1>3. Len(FlattenSeq([i \in 1..n |-> b.history[i].msg])) \in Nat
  BY <1>2, LenProperties
<1>4. n * Overhead \in Nat
  BY <1>1
<1>5. QED
  BY <1>3, <1>4 DEF Refunds

LEMMA EvictionsType ==
    ASSUME TypeOK, NEW msg \in Seq(Token)
    PROVE  Evictions(msg) \in 0..Len(b.history)
<1> DEFINE T == {n \in 0..Len(b.history) :
                    n = Len(b.history) \/ b.size - Refunds(n) + Len(msg) <= Limit}
<1>1. Len(b.history) \in Nat
  BY Fields, LenProperties
<1>2. T \subseteq Nat /\ T # {}
  BY <1>1
<1>3. Evictions(msg) = Min(T)
  BY DEF Evictions
<1> HIDE DEF T
<1>4. Min(T) \in T
  BY <1>2, SmallestOf
<1>5. QED
  BY <1>3, <1>4 DEF T

LEMMA ChunkType ==
    ASSUME TypeOK, NEW shape \in Shapes, step.writes < MaxWrites
    PROVE  [j \in DOMAIN shape |-> IF shape[j] = "n" THEN NL ELSE step.writes + 1] \in Seq(Token)
<1> DEFINE p == [j \in DOMAIN shape |-> IF shape[j] = "n" THEN NL ELSE step.writes + 1]
<1>1. Len(shape) \in Nat /\ DOMAIN shape = 1..Len(shape)
  BY LiveLogAssumption, LenProperties
<1>2. step.writes + 1 \in Token /\ NL \in Token
  BY Fields, TokenNL, LiveLogAssumption DEF Token
<1>3. p \in [1..Len(shape) -> Token]
  BY <1>1, <1>2
<1> HIDE DEF p
<1>4. p \in Seq(Token)
  BY <1>1, <1>3, FunctionIsSeq
<1>5. QED
  BY <1>4 DEF p

\* What the variables that a goroutine has left are set to.
LEMMA Nothing == <<>> \in Seq(Token) /\ <<>> \in Seq(Line) /\ NoLine \in Line
BY NoElement DEF NoLine, Line

-----------------------------------------------------------------------------
LEMMA InitInv == Init => IInv
<1> SUFFICES ASSUME Init PROVE IInv
  OBVIOUS
<1>1. /\ \A w \in Writers : proc[w].pc = "out"
      /\ step.input = <<>> /\ ~step.overtaken /\ b.num = 0 /\ b.prev = <<>> /\ b.history = <<>>
      /\ b.pending = <<>> /\ batch["flusher"] = <<>> /\ batch["runner"] = <<>> /\ stream = <<>>
      /\ runner = "open" /\ flusher = "idle" /\ uploaded = <<>> /\ ~b.closed /\ b.opened = "no"
  BY DEF Init
<1>2. TypeOK
  <2>1. <<>> \in Seq(Token) /\ <<>> \in Seq(Line) /\ NoLine \in Line /\ <<>> \in Seq(Seq(Token))
        /\ <<>> \in Seq(Seq(Line))
    BY NoElement DEF NoLine, Line
  <2>2. 0 \in 0..MaxWrites
    BY LiveLogAssumption
  <2>3. b \in [opened : {"no", "open", "failed"}, closed : BOOLEAN, ready : BOOLEAN,
               prev : Seq(Token), size : Int, num : Nat, pending : Seq(Line),
               history : Seq(Line), errs : SUBSET Nat]
    BY <2>1 DEF Init
  <2>4. proc \in [Writers ->
                   [pc : {"out", "prev", "parts", "admit", "stopped", "push", "keep"},
                    data : Seq(Token), read : Seq(Token), todo : Seq(Seq(Token)), line : Line]]
    BY <2>1 DEF Init
  <2>5. QED
    BY <2>1, <2>2, <2>3, <2>4 DEF Init, TypeOK
<1>3. Alternating /\ Batched /\ Opened
  BY <1>1 DEF Alternating, Batched, Opened, Out, Writers
<1>4. Lines = <<>> /\ Len(Lines) = 0 /\ AfterLast(step.input) = <<>>
  BY <1>1, NothingAfter DEF Lines
<1>5. InOrder
  <2>1. \A w \in Writers : Place(proc[w], b.prev, b.num, step.input)
    BY <1>1 DEF Place
  <2>2. Settled /\ b.num <= Len(Lines)
    BY <1>1, <1>4 DEF Settled
  <2>3. Recent(b.history, Kept, Lines)
    BY <1>1 DEF Recent, Kept
  <2>4. \A p \in Places : Held[p] = <<>>
    <3>1. Held = HeldIn(<<>>, <<>>, <<>>, <<>>) /\ <<>> \in Seq(Line)
      BY <1>1, NoElement DEF Held
    <3>2. QED
      BY <3>1 DEF HeldIn, Places
  <2>5. Genuine(Held, Offered, Lines) /\ Distinct(Held)
    BY <2>4 DEF Genuine, Distinct
  <2>6. Ended
    BY <1>1 DEF Ended, Writers
  <2>7. QED
    BY <2>1, <2>2, <2>3, <2>5, <2>6 DEF InOrder
<1>6. QED
  BY <1>2, <1>3, <1>5 DEF IInv

\* In order, a goroutine that is in Write is alone there.
LEMMA AloneInWrite ==
    ASSUME IInv, ~step.overtaken, NEW w \in Writers, ~Out(w)
    PROVE  /\ \A v \in Writers : v # w => Out(v)
           /\ Kept = IF proc[w].pc \in {"stopped", "push", "keep"} THEN b.num - 1 ELSE b.num
           /\ Offered = IF proc[w].pc \in {"stopped", "push"} THEN b.num - 1 ELSE b.num
<1>1. ~(~Out("copier") /\ ~Out("runner"))
  BY DEF IInv, Alternating
<1>2. \A v \in Writers : v # w => Out(v)
  BY <1>1 DEF Writers
<1>3. QED
  BY <1>2 DEF Kept, Offered, Out

LEMMA NobodyInWrite ==
    ASSUME \A w \in Writers : Out(w)
    PROVE  Kept = b.num /\ Offered = b.num
BY DEF Kept, Offered, Out

\* What is kept and offered is a number of lines of the output.
LEMMA Counts ==
    ASSUME IInv, ~step.overtaken
    PROVE  /\ Kept \in Nat /\ Offered \in Nat /\ Len(Lines) \in Nat
           /\ Kept <= b.num /\ Offered <= b.num /\ b.num <= Len(Lines)
<1>1. b.num \in Nat /\ b.num <= Len(Lines) /\ Len(Lines) \in Nat /\ Lines \in Seq(Seq(Token))
  BY Fields, SplitType, LenProperties DEF IInv, InOrder, Lines
<1>2. (\E w \in Writers : proc[w].pc \in {"stopped", "push", "keep"}) => b.num > 0
  BY DEF IInv, InOrder, Place
<1>3. Kept \in Nat /\ Kept <= b.num
  BY <1>1, <1>2 DEF Kept
<1>4. (\E w \in Writers : proc[w].pc \in {"stopped", "push"}) => b.num > 0
  BY <1>2
<1>5. Offered \in Nat /\ Offered <= b.num
  BY <1>1, <1>4 DEF Offered
<1>6. QED
  BY <1>1, <1>3, <1>5

LEMMA HeldNow ==
    ASSUME TypeOK
    PROVE  /\ Held \in [Places -> Seq(Line)]
           /\ Held["stream"] = stream /\ Held["flusher"] = batch["flusher"]
           /\ Held["runner"] = batch["runner"] /\ Held["pending"] = b.pending
<1> DEFINE s == stream
           f == batch["flusher"]
           r == batch["runner"]
           p == b.pending
<1>1. s \in Seq(Line) /\ f \in Seq(Line) /\ r \in Seq(Line) /\ p \in Seq(Line)
  BY Fields
<1>2. Held = HeldIn(s, f, r, p)
  BY DEF Held
<1> HIDE DEF s, f, r, p
<1>3. /\ Held \in [Places -> Seq(Line)]
      /\ Held["stream"] = s /\ Held["flusher"] = f /\ Held["runner"] = r /\ Held["pending"] = p
  BY <1>1, <1>2 DEF HeldIn, Places
<1>4. QED
  BY <1>3 DEF s, f, r, p

\* The order is kept by what touches neither the output, the history nor a Write.
LEMMA OrderKept ==
    ASSUME InOrder, step'.input = step.input, b'.num = b.num, b'.prev = b.prev,
           b'.history = b.history, proc' = proc
    PROVE  /\ \A w \in Writers : Place(proc'[w], b'.prev, b'.num, step'.input)
           /\ Settled' /\ (b.num <= Len(Lines))' /\ Recent(b.history, Kept, Lines)'
           /\ Lines' = Lines /\ Offered' = Offered
<1>1. Lines' = Lines /\ Offered' = Offered /\ Kept' = Kept
  BY DEF Lines, Offered, Kept
<1>2. Settled'
  BY <1>1 DEF InOrder, Settled, Out
<1>3. \A w \in Writers : Place(proc'[w], b'.prev, b'.num, step'.input)
  BY DEF InOrder
<1>4. QED
  BY <1>1, <1>2, <1>3 DEF InOrder

\* It holds again if the places of the lines are as they should be.
LEMMA InOrderAgain ==
    ASSUME InOrder, step'.input = step.input, b'.num = b.num, b'.prev = b.prev,
           b'.history = b.history, proc' = proc,
           Distinct(Held'), Genuine(Held', Offered, Lines), Ended'
    PROVE  InOrder'
<1>1. /\ \A w \in Writers : Place(proc'[w], b'.prev, b'.num, step'.input)
      /\ Settled' /\ (b.num <= Len(Lines))' /\ Recent(b.history, Kept, Lines)'
      /\ Lines' = Lines /\ Offered' = Offered
  BY OrderKept
<1>2. (\A w \in Writers : Place(proc[w], b.prev, b.num, step.input))'
  BY <1>1
<1>3. Distinct(Held)' /\ Genuine(Held, Offered, Lines)'
  BY <1>1
<1>4. QED
  BY <1>1, <1>2, <1>3 DEF InOrder

-----------------------------------------------------------------------------
(* The steps that leave every line where it is.                              *)

LEMMA CopyEndInv == ASSUME IInv, CopyEnd PROVE IInv'
<1>1. step' = [step EXCEPT !.copying = FALSE] /\ Out("copier")
      /\ UNCHANGED <<b, proc, runner, flusher, batch, stream, uploaded>>
  BY DEF CopyEnd, CopyOnly, Out
<1>2. TypeOK'
  BY <1>1 DEF IInv, TypeOK
<1>3. step'.input = step.input /\ step'.overtaken = step.overtaken /\ ~step'.copying
  BY <1>1, Fields DEF IInv, TypeOK
<1>4. Alternating' /\ Batched' /\ Opened'
  BY <1>1, <1>3 DEF IInv, Alternating, Batched, Opened, Out
<1>5. ASSUME ~step'.overtaken PROVE InOrder'
  <2>1. InOrder
    BY <1>3, <1>5 DEF IInv
  <2>2. Ended' /\ Held' = Held
    BY <1>1, <2>1 DEF InOrder, Ended, Held
  <2>3. Distinct(Held') /\ Genuine(Held', Offered, Lines)
    BY <2>1, <2>2 DEF InOrder
  <2>4. QED
    BY <1>1, <1>3, <2>1, <2>2, <2>3, InOrderAgain
<1>6. QED
  BY <1>2, <1>4, <1>5 DEF IInv

LEMMA FlusherRestsInv == ASSUME IInv, FlusherEnd \/ FlusherArm PROVE IInv'
<1>1. /\ flusher' \in {"ended", "armed"} /\ flusher # "send"
      /\ b' = b \/ b' = [b EXCEPT !.ready = FALSE]
      /\ UNCHANGED <<proc, runner, step, uploaded, batch, stream>>
  BY DEF FlusherEnd, FlusherArm, FlusherMove
<1>2. TypeOK'
  BY <1>1 DEF IInv, TypeOK
<1>3. /\ b'.num = b.num /\ b'.prev = b.prev /\ b'.history = b.history /\ b'.pending = b.pending
      /\ b'.closed = b.closed /\ b'.opened = b.opened
  BY <1>1 DEF IInv, TypeOK
<1>4. Alternating' /\ Batched' /\ Opened'
  BY <1>1, <1>3 DEF IInv, Alternating, Batched, Opened, Out
<1>5. ASSUME ~step'.overtaken PROVE InOrder'
  <2>1. InOrder
    BY <1>1, <1>5 DEF IInv
  <2>2. Ended' /\ Held' = Held
    BY <1>1, <1>3, <2>1 DEF InOrder, Ended, Held
  <2>3. Distinct(Held') /\ Genuine(Held', Offered, Lines)
    BY <2>1, <2>2 DEF InOrder
  <2>4. QED
    BY <1>1, <1>3, <2>1, <2>2, <2>3, InOrderAgain
<1>6. QED
  BY <1>2, <1>4, <1>5 DEF IInv

LEMMA OpenInv == ASSUME IInv, Open PROVE IInv'
<1>1. /\ runner = "open" /\ runner' = "run"
      /\ b' \in {[b EXCEPT !.opened = "open"], [b EXCEPT !.opened = "failed", !.closed = TRUE]}
      /\ UNCHANGED <<flusher, proc, batch, step, stream, uploaded>>
  BY DEF Open, RunnerMove
<1>2. TypeOK'
  BY <1>1 DEF IInv, TypeOK
<1>3. /\ b'.num = b.num /\ b'.prev = b.prev /\ b'.history = b.history /\ b'.pending = b.pending
      /\ b'.closed => b'.opened = "failed"
  BY <1>1 DEF IInv, TypeOK, Opened
<1>4. Alternating' /\ Batched' /\ Opened'
  BY <1>1, <1>3 DEF IInv, Alternating, Batched, Opened, Out
<1>5. ASSUME ~step'.overtaken PROVE InOrder'
  <2>1. InOrder
    BY <1>1, <1>5 DEF IInv
  <2>2. Ended' /\ Held' = Held
    BY <1>1, <1>3, <2>1 DEF InOrder, Ended, Held
  <2>3. Distinct(Held') /\ Genuine(Held', Offered, Lines)
    BY <2>1, <2>2 DEF InOrder
  <2>4. QED
    BY <1>1, <1>3, <2>1, <2>2, <2>3, InOrderAgain
<1>6. QED
  BY <1>2, <1>4, <1>5 DEF IInv

\* engine.Run returns.
LEMMA ReturnInv == ASSUME IInv, Return PROVE IInv'
<1>1. /\ runner = "run" /\ runner' = "ran"
      /\ UNCHANGED <<flusher, b, proc, batch, step, stream, uploaded>>
  BY DEF Return, RunnerMove
<1>2. TypeOK'
  BY <1>1 DEF IInv, TypeOK
<1>3. Alternating' /\ Batched' /\ Opened'
  BY <1>1 DEF IInv, Alternating, Batched, Opened, Out
<1>4. ASSUME ~step'.overtaken PROVE InOrder'
  <2>1. InOrder
    BY <1>1, <1>4 DEF IInv
  <2>2. Ended' /\ Held' = Held
    BY <1>1, <2>1 DEF InOrder, Ended, Held
  <2>3. Distinct(Held') /\ Genuine(Held', Offered, Lines)
    BY <2>1, <2>2 DEF InOrder
  <2>4. QED
    BY <1>1, <2>1, <2>2, <2>3, InOrderAgain
<1>5. QED
  BY <1>2, <1>3, <1>4 DEF IInv

\* Close begins; whether it comes too early is decided here.
LEMMA StopInv == ASSUME IInv, Stop PROVE IInv'
<1>1. /\ runner = "ran" /\ runner' = IF b.closed THEN "check" ELSE "rest"
      /\ b' = [b EXCEPT !.closed = TRUE] /\ Out("runner")
      /\ step' = [step EXCEPT !.overtaken = step.overtaken \/ step.copying]
      /\ UNCHANGED <<flusher, proc, batch, stream, uploaded>>
  BY DEF Stop, RunnerMove, RunnerUses, Overtaken, Out
<1>2. TypeOK'
  BY <1>1 DEF IInv, TypeOK
<1>3. /\ b'.num = b.num /\ b'.prev = b.prev /\ b'.history = b.history /\ b'.pending = b.pending
      /\ b'.opened = b.opened /\ b'.closed
      /\ step'.input = step.input /\ step'.copying = step.copying
      /\ step'.overtaken = (step.overtaken \/ step.copying)
  BY <1>1 DEF IInv, TypeOK
<1>4. Alternating' /\ Batched' /\ Opened'
  BY <1>1, <1>3 DEF IInv, Alternating, Batched, Opened, Out
<1>5. ASSUME ~step'.overtaken PROVE InOrder'
  <2>1. InOrder
    BY <1>3, <1>5 DEF IInv
  <2>2. Held' = Held
    BY <1>1, <1>3 DEF Held
  <2>3. Ended'
    BY <1>1, <1>3, <2>1 DEF IInv, Opened, InOrder, Ended
  <2>4. Distinct(Held') /\ Genuine(Held', Offered, Lines)
    BY <2>1, <2>2 DEF InOrder
  <2>5. QED
    BY <1>1, <1>3, <2>1, <2>2, <2>3, <2>4, InOrderAgain
<1>6. QED
  BY <1>2, <1>4, <1>5 DEF IInv

\* Nothing is left in prev, and nobody writes.
LEMMA NoRestInv == ASSUME IInv, NoRest PROVE IInv'
<1>1. /\ runner = "rest" /\ runner' = "flush" /\ b.prev = <<>>
      /\ UNCHANGED <<flusher, b, proc, batch, step, stream, uploaded>>
  BY DEF NoRest, RunnerMove
<1>2. TypeOK'
  BY <1>1 DEF IInv, TypeOK
<1>3. Alternating' /\ Batched' /\ Opened' /\ proc["runner"].pc = "out"
  BY <1>1 DEF IInv, Alternating, Batched, Opened, Out
<1>4. ASSUME ~step'.overtaken PROVE InOrder'
  <2>1. InOrder
    BY <1>1, <1>4 DEF IInv
  <2>2. Ended' /\ Held' = Held
    BY <1>1, <1>3, <2>1 DEF InOrder, Ended, Held
  <2>3. Distinct(Held') /\ Genuine(Held', Offered, Lines)
    BY <2>1, <2>2 DEF InOrder
  <2>4. QED
    BY <1>1, <2>1, <2>2, <2>3, InOrderAgain
<1>5. QED
  BY <1>2, <1>3, <1>4 DEF IInv

LEMMA CheckErrInLogsInv == ASSUME IInv, CheckErrInLogs PROVE IInv'
<1> DEFINE last == {b.history[i] : i \in {j \in DOMAIN b.history : j > Len(b.history) - NudgeWindow}}
           errs == {ln.num : ln \in {l \in last : Range(l.msg) \cap Nudges # {}}}
<1>1. /\ runner = "check" /\ runner' = "upload" /\ b' = [b EXCEPT !.errs = errs]
      /\ UNCHANGED <<flusher, proc, batch, step, stream, uploaded>>
  BY DEF CheckErrInLogs, RunnerMove
<1>2. errs \in SUBSET Nat
  <2>1. \A i \in DOMAIN b.history : b.history[i] \in Line
    BY Fields, LenProperties, ElementOfSeq DEF IInv
  <2>2. \A l \in last : l.num \in Nat
    BY <2>1 DEF Line
  <2> HIDE DEF last
  <2>3. QED
    BY <2>2
<1> HIDE DEF errs
<1>3. TypeOK'
  BY <1>1, <1>2 DEF IInv, TypeOK
<1>4. /\ b'.num = b.num /\ b'.prev = b.prev /\ b'.history = b.history /\ b'.pending = b.pending
      /\ b'.closed = b.closed /\ b'.opened = b.opened
  BY <1>1 DEF IInv, TypeOK
<1>5. Alternating' /\ Batched' /\ Opened'
  BY <1>1, <1>4 DEF IInv, Alternating, Batched, Opened, Out
<1>6. ASSUME ~step'.overtaken PROVE InOrder'
  <2>1. InOrder
    BY <1>1, <1>6 DEF IInv
  <2>2. Ended' /\ Held' = Held
    BY <1>1, <1>4, <2>1 DEF InOrder, Ended, Held
  <2>3. Distinct(Held') /\ Genuine(Held', Offered, Lines)
    BY <2>1, <2>2 DEF InOrder
  <2>4. QED
    BY <1>1, <1>4, <2>1, <2>2, <2>3, InOrderAgain
<1>7. QED
  BY <1>3, <1>5, <1>6 DEF IInv

\* The history as it is goes into the blob, once.
LEMMA UploadInv == ASSUME IInv, Upload PROVE IInv'
<1>1. /\ runner = "upload" /\ runner' = "done" /\ uploaded' = Append(uploaded, b.history)
      /\ UNCHANGED <<flusher, b, proc, batch, step, stream>>
  BY DEF Upload, RunnerMove
<1>2. b.history \in Seq(Line) /\ uploaded \in Seq(Seq(Line))
  BY Fields DEF IInv
<1>3. TypeOK'
  <2>1. uploaded' \in Seq(Seq(Line))
    BY <1>1, <1>2, AppendProperties
  <2>2. QED
    BY <1>1, <2>1 DEF IInv, TypeOK
<1>4. Alternating' /\ Batched' /\ Opened'
  BY <1>1 DEF IInv, Alternating, Batched, Opened, Out
<1>5. ASSUME ~step'.overtaken PROVE InOrder'
  <2>1. InOrder
    BY <1>1, <1>5 DEF IInv
  <2>2. uploaded = <<>>
    BY <1>1, <2>1 DEF InOrder, Ended
  <2>3. uploaded' = <<b.history>>
    BY <1>1, <1>2, <2>2
  <2>4. Ended'
    BY <1>1, <2>1, <2>3 DEF InOrder, Ended
  <2>5. Held' = Held
    BY <1>1 DEF Held
  <2>6. Distinct(Held') /\ Genuine(Held', Offered, Lines)
    BY <2>1, <2>5 DEF InOrder
  <2>7. QED
    BY <1>1, <2>1, <2>4, <2>6, InOrderAgain
<1>6. QED
  BY <1>3, <1>4, <1>5 DEF IInv

-----------------------------------------------------------------------------
(* flush, of the flusher and of Close.                                       *)

LEMMA HeldThen ==
    ASSUME TypeOK'
    PROVE  /\ Held' \in [Places -> Seq(Line)]
           /\ Held'["stream"] = stream' /\ Held'["flusher"] = batch'["flusher"]
           /\ Held'["runner"] = batch'["runner"] /\ Held'["pending"] = b'.pending
<1> DEFINE s == stream'
           f == batch'["flusher"]
           r == batch'["runner"]
           p == b'.pending
<1>1. s \in Seq(Line) /\ f \in Seq(Line) /\ r \in Seq(Line) /\ p \in Seq(Line)
  BY DEF TypeOK
<1>2. Held' = HeldIn(s, f, r, p)
  BY DEF Held
<1> HIDE DEF s, f, r, p
<1>3. /\ Held' \in [Places -> Seq(Line)]
      /\ Held'["stream"] = s /\ Held'["flusher"] = f /\ Held'["runner"] = r /\ Held'["pending"] = p
  BY <1>1, <1>2 DEF HeldIn, Places
<1>4. QED
  BY <1>3 DEF s, f, r, p

LEMMA NothingBefore == ASSUME NEW S, NEW s \in Seq(S) PROVE <<>> \o s = s
BY ConcatEmptySeq

\* Lines that flush copies, or that the service takes, only change their place.
LEMMA CopyKeepsOrder ==
    ASSUME InOrder, TypeOK, TypeOK', Ended', NEW f \in {"flusher", "runner"},
           batch[f] = <<>>, batch' = [batch EXCEPT ![f] = b.pending], b' = [b EXCEPT !.pending = <<>>],
           UNCHANGED <<proc, step, stream>>
    PROVE  InOrder'
<1>1. /\ b'.num = b.num /\ b'.prev = b.prev /\ b'.history = b.history /\ b'.pending = <<>>
      /\ batch'[f] = b.pending /\ \A g \in {"flusher", "runner"} \ {f} : batch'[g] = batch[g]
  BY DEF TypeOK
<1>2. /\ Held \in [Places -> Seq(Line)] /\ Held' \in [Places -> Seq(Line)]
      /\ f \in Places /\ "pending" \in Places /\ f # "pending"
  BY HeldNow, HeldThen DEF Places
<1>3. Held[f] = <<>> /\ Held'[f] = Held["pending"] /\ Held'["pending"] = <<>>
  BY <1>1, HeldNow, HeldThen
<1>4. Held'[f] = Held[f] \o Held["pending"]
  BY <1>2, <1>3, NothingBefore
<1>5. \A p \in Places \ {f, "pending"} : Held'[p] = Held[p]
  BY <1>1, HeldNow, HeldThen DEF Places
<1>6. Distinct(Held) /\ Genuine(Held, Offered, Lines)
  BY DEF InOrder
<1> DEFINE held  == Held
           after == Held'
           n     == Offered
           lines == Lines
<1>7. /\ held \in [Places -> Seq(Line)] /\ after \in [Places -> Seq(Line)]
      /\ after[f] = held[f] \o held["pending"] /\ after["pending"] = <<>>
      /\ \A p \in Places \ {f, "pending"} : after[p] = held[p]
      /\ Distinct(held) /\ Genuine(held, n, lines)
  BY <1>2, <1>3, <1>4, <1>5, <1>6
<1> HIDE DEF held, after, n, lines
<1>8. Distinct(after) /\ Genuine(after, n, lines)
  BY <1>2, <1>7, Moved
<1>9. Distinct(Held') /\ Genuine(Held', Offered, Lines)
  BY <1>8 DEF after, n, lines
<1>10. QED
  BY <1>1, <1>9, InOrderAgain

LEMMA SendKeepsOrder ==
    ASSUME InOrder, TypeOK, TypeOK', Ended', NEW f \in {"flusher", "runner"}, FlushSend(f),
           UNCHANGED <<b, proc, step>>
    PROVE  InOrder'
<1>1. /\ batch'[f] = <<>> /\ \A g \in {"flusher", "runner"} \ {f} : batch'[g] = batch[g]
      /\ stream' = stream \o batch[f]
  BY DEF FlushSend, TypeOK
<1>2. /\ Held \in [Places -> Seq(Line)] /\ Held' \in [Places -> Seq(Line)]
      /\ f \in Places /\ "stream" \in Places /\ f # "stream"
  BY HeldNow, HeldThen DEF Places
<1>3. Held'[f] = <<>> /\ Held'["stream"] = Held["stream"] \o Held[f]
  BY <1>1, HeldNow, HeldThen
<1>4. \A p \in Places \ {f, "stream"} : Held'[p] = Held[p]
  BY <1>1, HeldNow, HeldThen DEF Places
<1>5. Distinct(Held) /\ Genuine(Held, Offered, Lines)
  BY DEF InOrder
<1> DEFINE held  == Held
           after == Held'
           n     == Offered
           lines == Lines
<1>6. /\ held \in [Places -> Seq(Line)] /\ after \in [Places -> Seq(Line)]
      /\ after["stream"] = held["stream"] \o held[f] /\ after[f] = <<>>
      /\ \A p \in Places \ {"stream", f} : after[p] = held[p]
      /\ Distinct(held) /\ Genuine(held, n, lines)
  BY <1>2, <1>3, <1>4, <1>5
<1> HIDE DEF held, after, n, lines
<1>7. Distinct(after) /\ Genuine(after, n, lines)
  BY <1>2, <1>6, Moved
<1>8. Distinct(Held') /\ Genuine(Held', Offered, Lines)
  BY <1>7 DEF after, n, lines
<1>9. QED
  BY <1>8, InOrderAgain

LEMMA FlusherCopyInv == ASSUME IInv, FlusherCopy PROVE IInv'
<1>1. /\ flusher = "armed" /\ flusher' = "send"
      /\ batch' = [batch EXCEPT !["flusher"] = b.pending] /\ b' = [b EXCEPT !.pending = <<>>]
      /\ UNCHANGED <<proc, runner, step, uploaded, stream>>
  BY DEF FlusherCopy, FlusherMove, FlushCopy
<1>2. TypeOK'
  BY <1>1, Nothing DEF IInv, TypeOK
<1>3. /\ b'.closed = b.closed /\ b'.opened = b.opened /\ b'.prev = b.prev /\ b'.history = b.history
      /\ batch["flusher"] = <<>> /\ batch'["runner"] = batch["runner"]
  BY <1>1 DEF IInv, TypeOK, Batched
<1>4. Alternating' /\ Batched' /\ Opened'
  BY <1>1, <1>3 DEF IInv, Alternating, Batched, Opened, Out
<1>5. ASSUME ~step'.overtaken PROVE InOrder'
  <2>1. InOrder /\ TypeOK
    BY <1>1, <1>5 DEF IInv
  <2>2. Ended'
    BY <1>1, <1>3, <2>1 DEF InOrder, Ended
  <2>3. QED
    BY <1>1, <1>2, <1>3, <2>1, <2>2, CopyKeepsOrder
<1>6. QED
  BY <1>2, <1>4, <1>5 DEF IInv

\* Close flushes what is left, its Write having ended.
LEMMA CloseCopyInv == ASSUME IInv, CloseCopy PROVE IInv'
<1>1. /\ runner = "flush" /\ runner' = "send" /\ proc["runner"].pc = "out"
      /\ batch' = [batch EXCEPT !["runner"] = b.pending] /\ b' = [b EXCEPT !.pending = <<>>]
      /\ UNCHANGED <<proc, flusher, step, uploaded, stream>>
  BY DEF CloseCopy, RunnerMove, FlushCopy
<1>2. TypeOK'
  BY <1>1, Nothing DEF IInv, TypeOK
<1>3. /\ b'.closed = b.closed /\ b'.opened = b.opened /\ b'.prev = b.prev /\ b'.history = b.history
      /\ batch["runner"] = <<>> /\ batch'["flusher"] = batch["flusher"]
  BY <1>1 DEF IInv, TypeOK, Batched
<1>4. Alternating' /\ Batched' /\ Opened'
  BY <1>1, <1>3 DEF IInv, Alternating, Batched, Opened, Out
<1>5. ASSUME ~step'.overtaken PROVE InOrder'
  <2>1. InOrder /\ TypeOK
    BY <1>1, <1>5 DEF IInv
  <2>2. Ended'
    BY <1>1, <1>3, <2>1 DEF InOrder, Ended
  <2>3. QED
    BY <1>1, <1>2, <1>3, <2>1, <2>2, CopyKeepsOrder
<1>6. QED
  BY <1>2, <1>4, <1>5 DEF IInv

LEMMA SendType == ASSUME TypeOK, NEW f \in {"flusher", "runner"}, FlushSend(f)
                  PROVE  stream' \in Seq(Line) /\ batch' \in [{"runner", "flusher"} -> Seq(Line)]
<1>1. batch[f] \in Seq(Line) /\ stream \in Seq(Line)
  BY DEF TypeOK
<1>2. stream \o batch[f] \in Seq(Line)
  BY <1>1, ConcatProperties
<1>3. QED
  BY <1>1, <1>2, Nothing DEF FlushSend, TypeOK

LEMMA FlusherSendInv == ASSUME IInv, FlusherSend PROVE IInv'
<1>1. /\ flusher = "send" /\ flusher' = "idle" /\ FlushSend("flusher")
      /\ batch' = [batch EXCEPT !["flusher"] = <<>>]
      /\ UNCHANGED <<b, proc, runner, step, uploaded>>
  BY DEF FlusherSend, FlusherMove, FlushSend
<1>2. TypeOK'
  BY <1>1, SendType DEF IInv, TypeOK
<1>3. batch'["flusher"] = <<>> /\ batch'["runner"] = batch["runner"]
  BY <1>1 DEF IInv, TypeOK
<1>4. Alternating' /\ Batched' /\ Opened'
  BY <1>1, <1>3 DEF IInv, Alternating, Batched, Opened, Out
<1>5. ASSUME ~step'.overtaken PROVE InOrder'
  <2>1. InOrder /\ TypeOK
    BY <1>1, <1>5 DEF IInv
  <2>2. Ended'
    BY <1>1, <2>1 DEF InOrder, Ended
  <2>3. QED
    BY <1>1, <1>2, <2>1, <2>2, SendKeepsOrder
<1>6. QED
  BY <1>2, <1>4, <1>5 DEF IInv

LEMMA CloseSendInv == ASSUME IInv, CloseSend PROVE IInv'
<1>1. /\ runner = "send" /\ runner' = "check" /\ FlushSend("runner")
      /\ batch' = [batch EXCEPT !["runner"] = <<>>]
      /\ UNCHANGED <<b, proc, flusher, step, uploaded>>
  BY DEF CloseSend, RunnerMove, FlushSend
<1>2. TypeOK'
  BY <1>1, SendType DEF IInv, TypeOK
<1>3. batch'["runner"] = <<>> /\ batch'["flusher"] = batch["flusher"]
  BY <1>1 DEF IInv, TypeOK
<1>4. Alternating' /\ Batched' /\ Opened'
  BY <1>1, <1>3 DEF IInv, Alternating, Batched, Opened, Out
<1>5. ASSUME ~step'.overtaken PROVE InOrder'
  <2>1. InOrder /\ TypeOK
    BY <1>1, <1>5 DEF IInv
  <2>2. Ended'
    BY <1>1, <2>1 DEF InOrder, Ended
  <2>3. QED
    BY <1>1, <1>2, <2>1, <2>2, SendKeepsOrder
<1>6. QED
  BY <1>2, <1>4, <1>5 DEF IInv

-----------------------------------------------------------------------------
(* Write is called: the output grows, and its end is in the hands of one      *)
(* goroutine.                                                                 *)

Frame == [pc : {"out", "prev", "parts", "admit", "stopped", "push", "keep"},
          data : Seq(Token), read : Seq(Token), todo : Seq(Seq(Token)), line : Line]

LEMMA BeginType ==
    ASSUME TypeOK, NEW w \in Writers, NEW p \in Seq(Token),
           proc' = [proc EXCEPT ![w].pc = "prev", ![w].data = p, ![w].read = b.prev]
    PROVE  proc' \in [Writers -> Frame]
<1>1. proc \in [Writers -> Frame] /\ b.prev \in Seq(Token)
  BY Fields DEF TypeOK, Frame
<1> DEFINE r == b.prev
           f == [proc[w] EXCEPT !.pc = "prev", !.data = p, !.read = r]
<1>2. proc' = [proc EXCEPT ![w] = f]
  BY <1>1
<1>3. f \in Frame
  <2> HIDE DEF r
  <2>1. proc[w] \in Frame /\ r \in Seq(Token)
    BY <1>1 DEF r
  <2>2. QED
    BY <2>1 DEF Frame
<1> HIDE DEF f
<1>4. QED
  BY <1>1, <1>2, <1>3

LEMMA BeginKeepsOrder ==
    ASSUME InOrder, TypeOK, Ended', NEW w \in Writers, NEW p \in Seq(Token), \A v \in Writers : Out(v),
           proc' = [proc EXCEPT ![w].pc = "prev", ![w].data = p, ![w].read = b.prev],
           step'.input = step.input \o p, UNCHANGED <<b, batch, stream>>
    PROVE  InOrder'
<1> DEFINE a == step.input
           n == b.num
<1>1. /\ a \in Seq(Token) /\ n \in Nat /\ b.prev \in Seq(Token) /\ b.history \in Seq(Line)
      /\ b' = b /\ step'.input = a \o p
  BY Fields
<1>2. n = Len(Lines) /\ b.prev = AfterLast(a) /\ Lines = Split(a) /\ Lines' = Split(a \o p)
  BY DEF InOrder, Settled, Lines
<1>3. /\ proc'[w].pc = "prev" /\ proc'[w].data = p /\ proc'[w].read = b.prev
      /\ \A v \in Writers \ {w} : proc'[v].pc = "out"
  BY DEF TypeOK, Out
<1>4. Kept = n /\ Offered = n
  BY NobodyInWrite
<1>5. Kept' = n /\ Offered' = n
  <2>1. \A v \in Writers : proc'[v].pc \in {"out", "prev"}
    BY <1>3
  <2>2. QED
    BY <2>1 DEF Kept, Offered
<1>6. (\A v \in Writers : Place(proc[v], b.prev, b.num, step.input))'
  <2>1. Place(proc'[w], b.prev, n, a \o p)
    <3>1. \E before \in Seq(Token) : /\ a \o p = before \o proc'[w].data
                                     /\ b.prev = AfterLast(before) /\ n = Len(Split(before))
      BY <1>1, <1>2, <1>3
    <3>2. QED
      BY <1>3, <3>1 DEF Place
  <2>2. \A v \in Writers \ {w} : Place(proc'[v], b.prev, n, a \o p)
    BY <1>3 DEF Place
  <2>3. QED
    BY <1>1, <2>1, <2>2
<1>7. Settled'
  BY <1>3 DEF Settled, Out
<1>8. (b.num <= Len(Lines))'
  <2>1. Len(Split(a)) <= Len(Split(a \o p))
    BY <1>1, NumberedGrows
  <2>2. QED
    BY <1>1, <1>2, <2>1
<1>9. Recent(b.history, Kept, Lines)'
  <2>1. Recent(b.history, n, Split(a)) /\ n <= Len(Split(a))
    BY <1>1, <1>2, <1>4 DEF InOrder
  <2> HIDE DEF a, n
  <2>2. Recent(b.history, n, Split(a \o p))
    BY <1>1, <2>1, RecentGrows
  <2>3. QED
    BY <1>1, <1>2, <1>5, <2>2
<1>10. Held' = Held /\ Held \in [Places -> Seq(Line)] /\ Distinct(Held')
  BY HeldNow DEF Held, InOrder
<1>11. Genuine(Held, Offered, Lines)'
  <2> DEFINE held == Held
  <2>1. Genuine(held, n, Split(a)) /\ n <= Len(Split(a)) /\ held \in [Places -> Seq(Line)]
    BY <1>1, <1>2, <1>4, <1>10 DEF InOrder
  <2> HIDE DEF a, n, held
  <2>2. Genuine(held, n, Split(a \o p))
    BY <1>1, <2>1, GenuineGrows
  <2>3. QED
    BY <1>2, <1>5, <1>10, <2>2 DEF held
<1>12. QED
  BY <1>6, <1>7, <1>8, <1>9, <1>10, <1>11 DEF InOrder

LEMMA CopyChunkInv == ASSUME IInv, NEW shape \in Shapes, CopyChunk(shape) PROVE IInv'
<1> DEFINE p == [j \in DOMAIN shape |-> IF shape[j] = "n" THEN NL ELSE step.writes + 1]
<1>1. /\ proc["copier"].pc = "out" /\ step.writes < MaxWrites /\ step.copying /\ runner # "open"
      /\ proc' = [proc EXCEPT !["copier"].pc = "prev", !["copier"].data = p, !["copier"].read = b.prev]
      /\ step' = [step EXCEPT !.writes = @ + 1, !.input = @ \o p]
      /\ UNCHANGED <<b, runner, flusher, batch, stream, uploaded>>
  BY DEF CopyChunk, CopyOnly, WriteBegin
<1>2. TypeOK
  BY DEF IInv
<1>3. p \in Seq(Token)
  BY <1>1, <1>2, ChunkType
<1> HIDE DEF p
<1>4. step.input \o p \in Seq(Token) /\ step.writes + 1 \in 0..MaxWrites
  <2>1. step.input \in Seq(Token) /\ step.writes \in 0..MaxWrites
    BY <1>2, Fields
  <2>2. QED
    BY <1>1, <1>3, <2>1, ConcatProperties, LiveLogAssumption
<1>5. TypeOK'
  <2>1. step' \in [copying : BOOLEAN, overtaken : BOOLEAN, rest : BOOLEAN,
                    writes : 0..MaxWrites, input : Seq(Token)]
    BY <1>1, <1>2, <1>4 DEF TypeOK
  <2>2. proc' \in [Writers -> Frame]
    BY <1>1, <1>2, <1>3, BeginType DEF Writers
  <2>3. QED
    BY <1>1, <1>2, <2>1, <2>2 DEF TypeOK, Frame
<1>6. /\ step'.input = step.input \o p /\ step'.overtaken = step.overtaken /\ step'.copying
      /\ proc'["runner"] = proc["runner"]
  BY <1>1, <1>2 DEF TypeOK, Writers
<1>7. Alternating' /\ Batched' /\ Opened'
  BY <1>1, <1>6 DEF IInv, Alternating, Batched, Opened, Out
<1>8. ASSUME ~step'.overtaken PROVE InOrder'
  <2>1. InOrder /\ ~step.overtaken
    BY <1>6, <1>8 DEF IInv
  <2>2. runner \in {"open", "run", "ran"} /\ \A v \in Writers : Out(v)
    BY <1>1, <2>1 DEF IInv, Alternating, Out, Writers
  <2>3. Ended'
    BY <1>1, <1>6, <2>1, <2>2 DEF InOrder, Ended
  <2>4. QED
    BY <1>1, <1>2, <1>3, <1>6, <2>1, <2>2, <2>3, BeginKeepsOrder DEF Writers
<1>9. QED
  BY <1>5, <1>7, <1>8 DEF IInv

\* A line that a newline ends leaves nothing behind.
LEMMA EndsLine ==
    ASSUME NEW p \in Seq(Token)
    PROVE  /\ Append(p, NL) \in Seq(Token) /\ Newlines(Append(p, NL)) # {}
           /\ AfterLast(Append(p, NL)) = <<>>
<1>1. /\ Append(p, NL) \in Seq(Token) /\ Len(Append(p, NL)) = Len(p) + 1
      /\ Append(p, NL)[Len(p) + 1] = NL /\ Len(p) \in Nat
  BY TokenNL, AppendProperties, LenProperties
<1>2. Len(p) + 1 \in DOMAIN Append(p, NL)
  BY <1>1, LenProperties
<1>3. QED
  BY <1>1, <1>2, TokenNL, AfterAppend DEF Newlines

\* What the runner logs is a line.
LEMMA RemarkInv == ASSUME IInv, Remark PROVE IInv'
<1> DEFINE p == <<step.writes + 1, NL>>
<1>1. /\ runner = "ran" /\ runner' = "ran" /\ proc["runner"].pc = "out" /\ step.writes < MaxWrites
      /\ proc' = [proc EXCEPT !["runner"].pc = "prev", !["runner"].data = p, !["runner"].read = b.prev]
      /\ step' = [step EXCEPT !.overtaken = step.overtaken \/ step.copying, !.writes = @ + 1,
                              !.input = @ \o p]
      /\ UNCHANGED <<b, flusher, batch, stream, uploaded>>
  BY DEF Remark, RunnerUses, RunnerMove, WriteBegin, Overtaken
<1>2. TypeOK
  BY DEF IInv
<1>3. p \in Seq(Token) /\ Newlines(p) # {} /\ AfterLast(p) = <<>>
  <2> DEFINE t == step.writes + 1
  <2>1. t \in Token
    BY <1>1, <1>2, Fields, LiveLogAssumption DEF Token
  <2> HIDE DEF t
  <2>2. <<t>> \in Seq(Token) /\ Append(<<t>>, NL) = <<t, NL>>
    <3>1. <<t>> \in Seq(Token)
      BY <2>1, OneElement
    <3>2. Append(<<t>>, NL) = <<t, NL>>
      BY <2>1, TokenNL, AppendToOne
    <3>3. QED
      BY <3>1, <3>2
  <2>3. <<t, NL>> \in Seq(Token) /\ Newlines(<<t, NL>>) # {} /\ AfterLast(<<t, NL>>) = <<>>
    BY <2>2, EndsLine
  <2>4. QED
    BY <2>3 DEF t
<1> HIDE DEF p
<1>4. step.input \o p \in Seq(Token) /\ step.writes + 1 \in 0..MaxWrites
  <2>1. step.input \in Seq(Token) /\ step.writes \in 0..MaxWrites
    BY <1>2, Fields
  <2>2. QED
    BY <1>1, <1>3, <2>1, ConcatProperties, LiveLogAssumption
<1>5. TypeOK'
  <2>1. step' \in [copying : BOOLEAN, overtaken : BOOLEAN, rest : BOOLEAN,
                    writes : 0..MaxWrites, input : Seq(Token)]
    <3> DEFINE o == step.overtaken \/ step.copying
    <3>1. step' = [step EXCEPT !.overtaken = o, !.writes = @ + 1, !.input = @ \o p] /\ o \in BOOLEAN
      BY <1>1
    <3> HIDE DEF o
    <3>2. QED
      BY <1>2, <1>4, <3>1 DEF TypeOK
  <2>2. proc' \in [Writers -> Frame]
    BY <1>1, <1>2, <1>3, BeginType DEF Writers
  <2>3. QED
    BY <1>1, <1>2, <2>1, <2>2 DEF TypeOK, Frame
<1>6. /\ step'.input = step.input \o p /\ step'.overtaken = (step.overtaken \/ step.copying)
      /\ step'.copying = step.copying /\ proc'["copier"] = proc["copier"]
      /\ proc'["runner"].pc = "prev" /\ proc'["runner"].data = p
  BY <1>1, <1>2 DEF TypeOK, Writers
<1>7. Alternating' /\ Batched' /\ Opened'
  BY <1>1, <1>6 DEF IInv, Alternating, Batched, Opened, Out
<1>8. ASSUME ~step'.overtaken PROVE InOrder'
  <2>1. InOrder /\ ~step.overtaken /\ ~step.copying
    BY <1>6, <1>8 DEF IInv
  <2>2. \A v \in Writers : Out(v)
    BY <1>1, <2>1 DEF IInv, Alternating, Out, Writers
  <2>3. Ended'
    BY <1>1, <1>3, <1>6, <2>1 DEF InOrder, Ended
  <2>4. QED
    BY <1>1, <1>2, <1>3, <1>6, <2>1, <2>2, <2>3, BeginKeepsOrder DEF Writers
<1>9. QED
  BY <1>5, <1>7, <1>8 DEF IInv

\* Close ends the last line, and the copier has gone.
LEMMA WriteRestInv == ASSUME IInv, WriteRest PROVE IInv'
<1> DEFINE p == <<NL>>
<1>1. /\ runner = "rest" /\ runner' = "flush" /\ proc["runner"].pc = "out"
      /\ proc' = [proc EXCEPT !["runner"].pc = "prev", !["runner"].data = p, !["runner"].read = b.prev]
      /\ step' = [step EXCEPT !.rest = TRUE, !.input = Append(@, NL)]
      /\ UNCHANGED <<b, flusher, batch, stream, uploaded>>
  BY DEF WriteRest, RunnerMove, WriteBegin
<1>2. TypeOK
  BY DEF IInv
<1>3. /\ p \in Seq(Token) /\ Append(step.input, NL) \in Seq(Token)
      /\ Append(step.input, NL) = step.input \o p /\ Newlines(p) # {} /\ AfterLast(p) = <<>>
  <2>1. step.input \in Seq(Token) /\ NL \in Token
    BY <1>2, Fields, TokenNL
  <2>2. Newlines(p) # {} /\ AfterLast(p) = <<>>
    <3>1. <<>> \in Seq(Token) /\ Append(<<>>, NL) = <<NL>>
      BY Nothing
    <3>2. Newlines(<<NL>>) # {} /\ AfterLast(<<NL>>) = <<>>
      BY <3>1, EndsLine
    <3>3. QED
      BY <3>2
  <2>3. QED
    BY <2>1, <2>2, AppendProperties, AppendIsConcat
<1> HIDE DEF p
<1>4. TypeOK'
  <2>1. step' \in [copying : BOOLEAN, overtaken : BOOLEAN, rest : BOOLEAN,
                    writes : 0..MaxWrites, input : Seq(Token)]
    BY <1>1, <1>2, <1>3 DEF TypeOK
  <2>2. proc' \in [Writers -> Frame]
    BY <1>1, <1>2, <1>3, BeginType DEF Writers
  <2>3. QED
    BY <1>1, <1>2, <2>1, <2>2 DEF TypeOK, Frame
<1>5. /\ step'.input = step.input \o p /\ step'.overtaken = step.overtaken
      /\ step'.copying = step.copying /\ proc'["copier"] = proc["copier"]
      /\ proc'["runner"].pc = "prev" /\ proc'["runner"].data = p
  BY <1>1, <1>2, <1>3 DEF TypeOK, Writers
<1>6. Alternating' /\ Batched' /\ Opened'
  BY <1>1, <1>5 DEF IInv, Alternating, Batched, Opened, Out
<1>7. ASSUME ~step'.overtaken PROVE InOrder'
  <2>1. InOrder /\ ~step.overtaken
    BY <1>5, <1>7 DEF IInv
  <2>2. \A v \in Writers : Out(v)
    BY <1>1, <2>1 DEF IInv, Alternating, Out, Writers
  <2>3. Ended'
    BY <1>1, <1>3, <1>5, <2>1 DEF InOrder, Ended
  <2>4. QED
    BY <1>1, <1>2, <1>3, <1>5, <2>1, <2>2, <2>3, BeginKeepsOrder DEF Writers
<1>8. QED
  BY <1>4, <1>6, <1>7 DEF IInv

-----------------------------------------------------------------------------
(* The steps of Write.                                                       *)

LEMMA WriteKeeps ==
    ASSUME IInv, NEW w \in Writers, NEW l, l # "out", InWrite(w, l),
           \A v \in Writers \ {w} : proc'[v] = proc[v],
           b'.closed = b.closed, b'.opened = b.opened
    PROVE  Alternating' /\ Batched' /\ Opened'
<1>1. UNCHANGED <<runner, flusher, batch, step>> /\ ~Out(w)
  BY DEF InWrite, Out
<1>2. \A v \in Writers : ~Out(v)' => ~Out(v)
  BY <1>1 DEF Out
<1>3. "copier" \in Writers /\ "runner" \in Writers
  BY DEF Writers
<1>4. Alternating'
  <2>1. /\ ~Out("copier")' => ~Out("copier")
        /\ ~Out("runner")' => ~Out("runner")
    BY <1>2, <1>3
  <2>2. QED
    BY <1>1, <2>1 DEF IInv, Alternating
<1>5. QED
  BY <1>1, <1>4 DEF IInv, Batched, Opened

\* What follows when a goroutine in Write takes a step.
LEMMA AloneThen ==
    ASSUME IInv, ~step.overtaken, NEW w \in Writers, ~Out(w),
           \A v \in Writers \ {w} : proc'[v] = proc[v]
    PROVE  /\ \A v \in Writers \ {w} : proc'[v].pc = "out"
           /\ Kept' = IF proc'[w].pc \in {"stopped", "push", "keep"} THEN b'.num - 1 ELSE b'.num
           /\ Offered' = IF proc'[w].pc \in {"stopped", "push"} THEN b'.num - 1 ELSE b'.num
<1>1. \A v \in Writers \ {w} : proc'[v].pc = "out"
  BY AloneInWrite DEF Out
<1>2. QED
  BY <1>1 DEF Kept, Offered

LEMMA EndedKept ==
    ASSUME IInv, ~step.overtaken, NEW w \in Writers, NEW l, l # "out", InWrite(w, l),
           \A v \in Writers \ {w} : proc'[v] = proc[v],
           proc'[w].pc # "prev", b'.opened = b.opened,
           w = "runner" => b'.prev = <<>> \/ (l # "prev" /\ b'.prev = b.prev)
    PROVE  Ended'
<1>1. /\ UNCHANGED <<runner, uploaded>> /\ ~Out(w) /\ Ended
      /\ proc[w].pc = l
  BY DEF InWrite, Out, IInv, InOrder
<1>2. CASE w = "copier"
  <2>1. runner \in {"open", "run", "ran"} /\ proc'["runner"] = proc["runner"]
    BY <1>1, <1>2 DEF IInv, Alternating, TypeOK, Writers
  <2>2. QED
    BY <1>1, <2>1 DEF Ended
<1>3. CASE w = "runner"
  <2>1. runner \in {"ran", "flush"}
    BY <1>1, <1>3 DEF IInv, Alternating
  <2>2. runner = "flush" /\ b.opened = "open" => b'.prev = <<>>
    BY <1>1, <1>3, <2>1 DEF Ended
  <2>3. QED
    BY <1>1, <1>3, <2>1, <2>2 DEF Ended
<1>4. QED
  BY <1>2, <1>3 DEF Writers

LEMMA WriteKeepsOrder ==
    ASSUME IInv, ~step.overtaken, NEW w \in Writers, NEW l, l # "out", InWrite(w, l),
           \A v \in Writers \ {w} : proc'[v] = proc[v],
           Place(proc'[w], b'.prev, b'.num, step.input), b'.num <= Len(Lines),
           proc'[w].pc = "out" => b'.num = Len(Lines) /\ b'.prev = AfterLast(step.input),
           Recent(b'.history, Kept', Lines), Genuine(Held', Offered', Lines), Distinct(Held'), Ended'
    PROVE  InOrder'
<1>1. step' = step /\ ~Out(w) /\ Lines' = Lines
  BY DEF InWrite, Out, Lines
<1>2. \A v \in Writers \ {w} : proc'[v].pc = "out"
  BY <1>1, AloneThen
<1>3. (\A v \in Writers : Place(proc[v], b.prev, b.num, step.input))'
  <2>1. \A v \in Writers \ {w} : Place(proc'[v], b'.prev, b'.num, step.input)
    BY <1>2 DEF Place
  <2>2. QED
    BY <1>1, <2>1
<1>4. Settled'
  BY <1>1 DEF Settled, Out
<1>5. Recent(b.history, Kept, Lines)' /\ Genuine(Held, Offered, Lines)' /\ Distinct(Held)'
      /\ (b.num <= Len(Lines))'
  BY <1>1
<1>6. QED
  BY <1>3, <1>4, <1>5 DEF InOrder

\* The output that the goroutine has in hand, when it has read prev.
LEMMA Resumed ==
    ASSUME IInv, ~step.overtaken, NEW w \in Writers, proc[w].pc = "prev"
    PROVE  /\ proc[w].read = b.prev
           /\ AfterLast(step.input) = AfterLast(proc[w].read \o proc[w].data)
           /\ \E s \in Seq(Seq(Token)) : b.num = Len(s)
                                         /\ Lines = s \o Split(proc[w].read \o proc[w].data)
<1>1. Place(proc[w], b.prev, b.num, step.input)
  BY DEF IInv, InOrder
<1>2. PICK before \in Seq(Token) : /\ step.input = before \o proc[w].data
                                   /\ b.prev = AfterLast(before) /\ b.num = Len(Split(before))
  BY <1>1 DEF Place
<1>3. proc[w].read = b.prev
  BY <1>1 DEF Place
<1>4. proc[w].data \in Seq(Token)
  BY Fields DEF IInv
<1>5. /\ AfterLast(before \o proc[w].data) = AfterLast(AfterLast(before) \o proc[w].data)
      /\ Split(before \o proc[w].data) = Split(before) \o Split(AfterLast(before) \o proc[w].data)
      /\ Split(before) \in Seq(Seq(Token))
  BY <1>4, SplitConcat, SplitType
<1>6. QED
  BY <1>2, <1>3, <1>5 DEF Lines

LEMMA NoNewlines ==
    ASSUME NEW r \in Seq(Token), NEW p \in Seq(Token), Newlines(r) = {}, Newlines(p) = {}
    PROVE  Newlines(r \o p) = {}
<1>1. /\ Len(r) \in Nat /\ Len(p) \in Nat /\ r \o p \in Seq(Token)
      /\ Len(r \o p) = Len(r) + Len(p)
      /\ \A i \in 1..(Len(r) + Len(p)) : (r \o p)[i] = IF i <= Len(r) THEN r[i] ELSE p[i - Len(r)]
  BY ConcatProperties, LenProperties
<1>2. /\ DOMAIN r = 1..Len(r) /\ DOMAIN p = 1..Len(p) /\ DOMAIN (r \o p) = 1..(Len(r) + Len(p))
  BY <1>1, LenProperties
<1>3. (\A i \in 1..Len(r) : r[i] # NL) /\ (\A i \in 1..Len(p) : p[i] # NL)
  BY <1>2 DEF Newlines
<1>4. \A i \in 1..(Len(r) + Len(p)) : ~(i <= Len(r)) => i - Len(r) \in 1..Len(p)
  BY <1>1
<1>5. \A i \in 1..(Len(r) + Len(p)) : i <= Len(r) => i \in 1..Len(r)
  BY <1>1
<1>6. QED
  BY <1>1, <1>2, <1>3, <1>4, <1>5 DEF Newlines

LEMMA FromConcat ==
    ASSUME NEW s \in Seq(Seq(Token)), NEW t \in Seq(Seq(Token))
    PROVE  From(s \o t, Len(s)) = t
<1> DEFINE r == s \o t
           n == Len(s)
           m == Len(t)
           c == SubSeq(r, n + 1, Len(r))
<1>1. /\ n \in Nat /\ m \in Nat /\ r \in Seq(Seq(Token)) /\ Len(r) = n + m
      /\ \A i \in 1..(n + m) : r[i] = IF i <= n THEN s[i] ELSE t[i - n]
  BY ConcatProperties, LenProperties
<1> HIDE DEF r, n, m
<1>2. n + 1 \in Int /\ Len(r) \in Int /\ \A i \in (n + 1)..Len(r) : r[i] \in Seq(Token)
  <2>1. \A i \in (n + 1)..Len(r) : i \in 1..Len(r)
    BY <1>1
  <2>2. QED
    BY <1>1, <2>1, ElementOfSeq
<1>3. /\ c \in Seq(Seq(Token))
      /\ Len(c) = IF n + 1 <= Len(r) THEN Len(r) - (n + 1) + 1 ELSE 0
      /\ \A i \in 1..(Len(r) - (n + 1) + 1) : c[i] = r[n + 1 + i - 1]
  BY <1>2, SubSeqProperties
<1> HIDE DEF c
<1>4. Len(c) = m
  BY <1>1, <1>3
<1>5. ASSUME NEW i \in 1..m PROVE c[i] = t[i]
  <2> DEFINE j == n + i
  <2>1. /\ i \in 1..(Len(r) - (n + 1) + 1) /\ n + 1 + i - 1 = j /\ j \in 1..(n + m)
        /\ ~(j <= n) /\ j - n = i
    BY <1>1
  <2> HIDE DEF j
  <2>2. c[i] = r[j]
    BY <1>3, <2>1
  <2>3. r[j] = t[i]
    BY <1>1, <2>1
  <2>4. QED
    BY <2>2, <2>3
<1>6. c = t
  BY <1>3, <1>4, <1>5, SeqEqual DEF m
<1>7. QED
  BY <1>6 DEF From, c, r, n

LEMMA WriteNoNewlineInv ==
    ASSUME IInv, NEW w \in Writers, InWrite(w, "prev"), WriteNoNewline(w)
    PROVE  IInv'
<1> DEFINE r == proc[w].read
           p == proc[w].data
<1>1. /\ proc[w].pc = "prev" /\ Newlines(p) = {} /\ b' = [b EXCEPT !.prev = r \o p]
      /\ proc' = [proc EXCEPT ![w].pc = "out", ![w].data = <<>>, ![w].read = <<>>]
      /\ UNCHANGED <<runner, flusher, batch, step, stream, uploaded>>
  BY DEF InWrite, WriteNoNewline
<1>2. TypeOK /\ r \in Seq(Token) /\ p \in Seq(Token)
  BY Fields DEF IInv
<1>3. r \o p \in Seq(Token)
  BY <1>2, ConcatProperties
<1>4. TypeOK'
  <2>1. b' \in [opened : {"no", "open", "failed"}, closed : BOOLEAN, ready : BOOLEAN,
                prev : Seq(Token), size : Int, num : Nat, pending : Seq(Line),
                history : Seq(Line), errs : SUBSET Nat]
    BY <1>1, <1>2, <1>3 DEF TypeOK
  <2>2. proc' \in [Writers -> Frame]
    <3>1. proc \in [Writers -> Frame] /\ <<>> \in Seq(Token)
      BY <1>2, Nothing DEF TypeOK, Frame
    <3>2. QED
      BY <1>1, <3>1 DEF Frame
  <2>3. QED
    BY <1>1, <1>2, <2>1, <2>2 DEF TypeOK, Frame
<1>5. /\ b'.closed = b.closed /\ b'.opened = b.opened /\ b'.num = b.num /\ b'.history = b.history
      /\ b'.pending = b.pending /\ b'.prev = r \o p
      /\ proc'[w].pc = "out" /\ \A v \in Writers \ {w} : proc'[v] = proc[v]
  BY <1>1, <1>2 DEF TypeOK
<1>6. Alternating' /\ Batched' /\ Opened'
  BY <1>5, WriteKeeps
<1>7. ASSUME ~step'.overtaken PROVE InOrder'
  <2>1. ~step.overtaken /\ InOrder
    BY <1>1, <1>7 DEF IInv
  <2>2. r = b.prev /\ Newlines(r) = {}
    <3>1. Place(proc[w], b.prev, b.num, step.input)
      BY <2>1 DEF InOrder
    <3>2. PICK before \in Seq(Token) : b.prev = AfterLast(before)
      BY <1>1, <3>1 DEF Place
    <3>3. r = b.prev
      BY <1>1, <3>1 DEF Place
    <3>4. QED
      BY <3>2, <3>3, AfterIs
  <2>3. Newlines(r \o p) = {}
    BY <1>1, <1>2, <2>2, NoNewlines
  <2>4. Split(r \o p) = <<>> /\ AfterLast(r \o p) = r \o p
    BY <1>3, <2>3, SplitWithout, AfterWithout
  <2>5. AfterLast(step.input) = AfterLast(r \o p) /\ b.num = Len(Lines)
    <3>1. AfterLast(step.input) = AfterLast(r \o p)
      BY <1>1, <2>1, Resumed
    <3>2. PICK s \in Seq(Seq(Token)) : b.num = Len(s) /\ Lines = s \o Split(r \o p)
      BY <1>1, <2>1, Resumed
    <3>3. Lines = s
      BY <2>4, <3>2, ConcatEmptySeq
    <3>4. QED
      BY <3>1, <3>2, <3>3
  <2>6. ~Out(w)
    BY <1>1 DEF Out
  <2>7. Kept' = b.num /\ Offered' = b.num /\ Kept = b.num /\ Offered = b.num
    BY <1>1, <1>5, <2>1, <2>6, AloneThen, AloneInWrite
  <2>8. Held' = Held
    BY <1>1, <1>5 DEF Held
  <2>9. Recent(b'.history, Kept', Lines) /\ Genuine(Held', Offered', Lines) /\ Distinct(Held')
    BY <1>5, <2>1, <2>7, <2>8 DEF InOrder
  <2>10. w # "runner"
    BY <1>1, <2>1 DEF InOrder, Ended
  <2>11. Ended'
    BY <1>5, <2>1, <2>10, EndedKept
  <2>12. Place(proc'[w], b'.prev, b'.num, step.input)
    BY <1>5 DEF Place
  <2>13. b'.num <= Len(Lines) /\ b'.num = Len(Lines) /\ b'.prev = AfterLast(step.input)
    BY <1>5, <2>1, <2>4, <2>5 DEF InOrder
  <2>14. QED
    BY <1>5, <2>1, <2>9, <2>11, <2>12, <2>13, WriteKeepsOrder
<1>8. QED
  BY <1>4, <1>6, <1>7 DEF IInv

LEMMA WriteNewlineInv ==
    ASSUME IInv, NEW w \in Writers, InWrite(w, "prev"), WriteNewline(w)
    PROVE  IInv'
<1> DEFINE r == proc[w].read
           p == proc[w].data
<1>1. /\ proc[w].pc = "prev" /\ Newlines(p) # {} /\ b' = [b EXCEPT !.prev = AfterLast(p)]
      /\ proc' = [proc EXCEPT ![w].pc = "parts", ![w].data = <<>>, ![w].read = <<>>,
                              ![w].todo = Split(r \o UpToLast(p))]
      /\ UNCHANGED <<runner, flusher, batch, step, stream, uploaded>>
  BY DEF InWrite, WriteNewline
<1>2. TypeOK /\ r \in Seq(Token) /\ p \in Seq(Token)
  BY Fields DEF IInv
<1>3. /\ r \o p \in Seq(Token) /\ AfterLast(p) \in Seq(Token)
      /\ Split(r \o UpToLast(p)) = Split(r \o p) /\ AfterLast(p) = AfterLast(r \o p)
      /\ Split(r \o p) \in Seq(Seq(Token))
  BY <1>1, <1>2, ConcatProperties, AfterIs, WholeLines, SplitType
<1>4. TypeOK'
  <2>1. b' \in [opened : {"no", "open", "failed"}, closed : BOOLEAN, ready : BOOLEAN,
                prev : Seq(Token), size : Int, num : Nat, pending : Seq(Line),
                history : Seq(Line), errs : SUBSET Nat]
    BY <1>1, <1>2, <1>3 DEF TypeOK
  <2>2. proc' \in [Writers -> Frame]
    <3> DEFINE t == Split(r \o UpToLast(p))
    <3>1. t \in Seq(Seq(Token)) /\ proc \in [Writers -> Frame] /\ <<>> \in Seq(Token)
      BY <1>2, <1>3, Nothing DEF TypeOK, Frame
    <3>2. proc' = [proc EXCEPT ![w].pc = "parts", ![w].data = <<>>, ![w].read = <<>>, ![w].todo = t]
      BY <1>1
    <3> HIDE DEF t
    <3>3. QED
      BY <3>1, <3>2 DEF Frame
  <2>3. QED
    BY <1>1, <1>2, <2>1, <2>2 DEF TypeOK, Frame
<1>5. /\ b'.closed = b.closed /\ b'.opened = b.opened /\ b'.num = b.num /\ b'.history = b.history
      /\ b'.pending = b.pending /\ b'.prev = AfterLast(p)
      /\ proc'[w].pc = "parts" /\ proc'[w].todo = Split(r \o UpToLast(p))
      /\ \A v \in Writers \ {w} : proc'[v] = proc[v]
  BY <1>1, <1>2 DEF TypeOK
<1>6. Alternating' /\ Batched' /\ Opened'
  BY <1>5, WriteKeeps
<1>7. ASSUME ~step'.overtaken PROVE InOrder'
  <2>1. ~step.overtaken /\ InOrder
    BY <1>1, <1>7 DEF IInv
  <2>2. AfterLast(step.input) = AfterLast(r \o p)
    BY <1>1, <2>1, Resumed
  <2>3. PICK s \in Seq(Seq(Token)) : b.num = Len(s) /\ Lines = s \o Split(r \o p)
    BY <1>1, <2>1, Resumed
  <2>4. From(Lines, b.num) = Split(r \o p)
    <3> DEFINE t == Split(r \o p)
    <3>1. t \in Seq(Seq(Token))
      BY <1>3
    <3> HIDE DEF t
    <3>2. From(s \o t, Len(s)) = t
      BY <3>1, FromConcat
    <3>3. QED
      BY <2>3, <3>2 DEF t
  <2>5. ~Out(w)
    BY <1>1 DEF Out
  <2>6. Kept' = b.num /\ Offered' = b.num /\ Kept = b.num /\ Offered = b.num
    BY <1>1, <1>5, <2>1, <2>5, AloneThen, AloneInWrite
  <2>7. Held' = Held
    BY <1>1, <1>5 DEF Held
  <2>8. Recent(b'.history, Kept', Lines) /\ Genuine(Held', Offered', Lines) /\ Distinct(Held')
    BY <1>5, <2>1, <2>6, <2>7 DEF InOrder
  <2>9. w = "runner" => b'.prev = <<>>
    <3>1. SUFFICES ASSUME w = "runner" PROVE AfterLast(p) = <<>>
      BY <1>5
    <3>2. QED
      BY <1>1, <2>1, <3>1 DEF InOrder, Ended
  <2>10. Ended'
    BY <1>5, <2>1, <2>9, EndedKept
  <2>11. Place(proc'[w], b'.prev, b'.num, step.input)
    BY <1>3, <1>5, <2>2, <2>4 DEF Place, Lines
  <2>12. b'.num <= Len(Lines)
    BY <1>5, <2>1 DEF InOrder
  <2>13. QED
    BY <1>5, <2>1, <2>8, <2>10, <2>11, <2>12, WriteKeepsOrder
<1>8. QED
  BY <1>4, <1>6, <1>7 DEF IInv

\* What is known of a goroutine between two steps that are after the reading of prev.
LEMMA InParts ==
    ASSUME IInv, ~step.overtaken, NEW w \in Writers
    PROVE  /\ Place(proc[w], b.prev, b.num, step.input) /\ Lines = Split(step.input)
           /\ Lines \in Seq(Seq(Token)) /\ b.num \in Nat /\ b.num <= Len(Lines) /\ Len(Lines) \in Nat
           /\ Recent(b.history, Kept, Lines) /\ Genuine(Held, Offered, Lines) /\ Distinct(Held)
           /\ Ended
BY Fields, SplitType, LenProperties DEF IInv, InOrder, Lines

LEMMA NewLineInv == ASSUME IInv, NEW w \in Writers, NewLine(w) PROVE IInv'
<1>1. /\ InWrite(w, "parts") /\ proc[w].pc = "parts" /\ proc[w].todo # <<>> /\ b' = b
      /\ proc' = [proc EXCEPT ![w].pc = "admit", ![w].line = Number(w), ![w].todo = Tail(@)]
      /\ UNCHANGED <<runner, flusher, batch, step, stream, uploaded>>
  BY DEF NewLine, InWrite
<1>2. TypeOK /\ b.num \in Nat /\ proc[w].todo \in Seq(Seq(Token))
      /\ proc \in [Writers -> Frame]
  BY Fields DEF IInv, TypeOK, Frame
<1>3. Number(w) \in Line
  <2>1. Head(proc[w].todo) \in Seq(Token)
    BY <1>1, <1>2, HeadTailProperties
  <2>2. QED
    BY <1>2, <2>1, MessageType DEF Number, Line
<1>4. proc' \in [Writers -> Frame]
  <2> DEFINE ln == Number(w)
             t  == Tail(proc[w].todo)
  <2>1. t \in Seq(Seq(Token)) /\ ln \in Line
    BY <1>1, <1>2, <1>3, HeadTailProperties
  <2>2. proc' = [proc EXCEPT ![w].pc = "admit", ![w].line = ln, ![w].todo = t]
    BY <1>1, <1>2
  <2> HIDE DEF ln, t
  <2>3. QED
    BY <1>2, <2>1, <2>2 DEF Frame
<1>5. TypeOK'
  BY <1>1, <1>2, <1>4 DEF TypeOK, Frame
<1>6. /\ proc'[w].pc = "admit" /\ proc'[w].line = Number(w) /\ proc'[w].todo = Tail(proc[w].todo)
      /\ \A v \in Writers \ {w} : proc'[v] = proc[v]
  BY <1>1, <1>2 DEF Frame
<1>7. Alternating' /\ Batched' /\ Opened'
  BY <1>1, <1>6, WriteKeeps
<1>8. ASSUME ~step'.overtaken PROVE InOrder'
  <2>1. ~step.overtaken /\ ~Out(w)
    BY <1>1, <1>8 DEF Out
  <2> DEFINE n == b.num
  <2>2. /\ proc[w].todo = From(Lines, n) /\ b.prev = AfterLast(step.input)
    BY <1>1, <2>1, InParts DEF Place
  <2>3. Lines \in Seq(Seq(Token)) /\ n \in 0..Len(Lines) /\ Lines = Split(step.input)
    BY <2>1, InParts
  <2>4. /\ n < Len(Lines)
        /\ Head(From(Lines, n)) = Lines[n + 1] /\ Tail(From(Lines, n)) = From(Lines, n + 1)
    <3> DEFINE lines == Lines
    <3>1. lines \in Seq(Seq(Token)) /\ n \in 0..Len(lines) /\ From(lines, n) # <<>>
      BY <1>1, <2>2, <2>3
    <3> HIDE DEF lines, n
    <3>2. n # Len(lines) /\ Len(lines) \in Nat
      BY <3>1, FromIs, LenProperties
    <3>3. n < Len(lines)
      BY <3>1, <3>2
    <3>4. /\ Head(From(lines, n)) = lines[n + 1] /\ Tail(From(lines, n)) = From(lines, n + 1)
      BY <3>1, <3>3, FromIs
    <3>5. QED
      BY <3>3, <3>4 DEF lines
  <2>5. Number(w) = Numbered(Lines, n)
    BY <2>2, <2>4 DEF Number, Numbered
  <2>6. Place(proc'[w], b'.prev, b'.num, step.input)
    BY <1>1, <1>6, <2>2, <2>3, <2>4, <2>5 DEF Place
  <2>7. Kept' = n /\ Offered' = n /\ Kept = n /\ Offered = n
    BY <1>1, <1>6, <2>1, AloneThen, AloneInWrite
  <2>8. Held' = Held
    BY <1>1 DEF Held
  <2>9. Recent(b'.history, Kept', Lines) /\ Genuine(Held', Offered', Lines) /\ Distinct(Held')
    BY <1>1, <2>1, <2>7, <2>8, InParts
  <2>10. Ended'
    BY <1>1, <1>6, <2>1, EndedKept
  <2>11. b'.num <= Len(Lines)
    BY <1>1, <2>1, InParts
  <2>12. QED
    BY <1>1, <1>6, <2>1, <2>6, <2>9, <2>10, <2>11, WriteKeepsOrder
<1>9. QED
  BY <1>5, <1>7, <1>8 DEF IInv

\* The oldest lines make room for the line, which is counted.
LEMMA AdmitInv == ASSUME IInv, NEW w \in Writers, Admit(w) PROVE IInv'
<1> DEFINE msg == proc[w].line.msg
           e == Evictions(msg)
           h == SubSeq(b.history, e + 1, Len(b.history))
           z == b.size - Refunds(e) + Len(msg)
<1>1. /\ InWrite(w, "admit") /\ proc[w].pc = "admit"
      /\ b' = [b EXCEPT !.history = h, !.size = z, !.num = b.num + 1]
      /\ proc' = [proc EXCEPT ![w].pc = "stopped"]
      /\ UNCHANGED <<runner, flusher, batch, step, stream, uploaded>>
  <2>1. TypeOK
    BY DEF IInv
  <2>2. b' = [b EXCEPT !.history = SubSeq(@, e + 1, Len(@)),
                       !.size = @ - Refunds(e) + Len(msg), !.num = @ + 1]
    BY DEF Admit
  <2> HIDE DEF msg, e
  <2>3. b' = [b EXCEPT !.history = h, !.size = z, !.num = b.num + 1]
    BY <2>1, <2>2 DEF TypeOK
  <2>4. QED
    BY <2>3 DEF Admit, InWrite, e, msg
<1>2. TypeOK /\ b.num \in Nat /\ b.size \in Int /\ b.history \in Seq(Line) /\ proc[w].line \in Line
      /\ proc \in [Writers -> Frame]
  BY Fields DEF IInv, TypeOK, Frame
<1>3. msg \in Seq(Token) /\ Len(msg) \in Nat
  BY <1>2, LenProperties DEF Line
<1> HIDE DEF msg
<1>4. e \in 0..Len(b.history) /\ Len(b.history) \in Nat
  BY <1>2, <1>3, EvictionsType, LenProperties
<1> HIDE DEF e
<1>5. z \in Int
  BY <1>2, <1>3, <1>4, RefundsType
<1>6. h \in Seq(Line)
  <2>1. \A i \in (e + 1)..Len(b.history) : i \in 1..Len(b.history)
    BY <1>4
  <2>2. e + 1 \in Int /\ Len(b.history) \in Int
        /\ \A i \in (e + 1)..Len(b.history) : b.history[i] \in Line
    BY <1>2, <1>4, <2>1, ElementOfSeq
  <2>3. QED
    BY <2>2, SubSeqProperties
<1> HIDE DEF z
<1>7. TypeOK'
  <2> HIDE DEF h
  <2>1. b' \in [opened : {"no", "open", "failed"}, closed : BOOLEAN, ready : BOOLEAN,
                prev : Seq(Token), size : Int, num : Nat, pending : Seq(Line),
                history : Seq(Line), errs : SUBSET Nat]
    <3> DEFINE k == b.num + 1
    <3>1. k \in Nat /\ b' = [b EXCEPT !.history = h, !.size = z, !.num = k]
      BY <1>1, <1>2
    <3>2. b \in [opened : {"no", "open", "failed"}, closed : BOOLEAN, ready : BOOLEAN,
                 prev : Seq(Token), size : Int, num : Nat, pending : Seq(Line),
                 history : Seq(Line), errs : SUBSET Nat]
      BY <1>2 DEF TypeOK
    <3> HIDE DEF k
    <3>3. QED
      BY <1>5, <1>6, <3>1, <3>2
  <2>2. proc' \in [Writers -> Frame]
    BY <1>1, <1>2 DEF Frame
  <2>3. QED
    BY <1>1, <1>2, <2>1, <2>2 DEF TypeOK, Frame
<1>8. /\ b'.closed = b.closed /\ b'.opened = b.opened /\ b'.num = b.num + 1 /\ b'.history = h
      /\ b'.pending = b.pending /\ b'.prev = b.prev
      /\ proc'[w].pc = "stopped" /\ proc'[w].line = proc[w].line /\ proc'[w].todo = proc[w].todo
      /\ \A v \in Writers \ {w} : proc'[v] = proc[v]
  <2> HIDE DEF h
  <2>1. QED
    BY <1>1, <1>2 DEF TypeOK, Frame
<1>9. Alternating' /\ Batched' /\ Opened'
  BY <1>1, <1>8, WriteKeeps
<1>10. ASSUME ~step'.overtaken PROVE InOrder'
  <2>1. ~step.overtaken /\ ~Out(w)
    BY <1>1, <1>10 DEF Out
  <2>2. /\ b.num < Len(Lines) /\ proc[w].line = Numbered(Lines, b.num)
        /\ proc[w].todo = From(Lines, b.num + 1) /\ b.prev = AfterLast(step.input)
        /\ Lines = Split(step.input) /\ Len(Lines) \in Nat
    BY <1>1, <2>1, InParts DEF Place
  <2>3. b'.num > 0 /\ b'.num - 1 = b.num /\ b'.num <= Len(Lines)
    BY <1>2, <1>8, <2>2
  <2>4. Place(proc'[w], b'.prev, b'.num, step.input)
    BY <1>8, <2>2, <2>3 DEF Place
  <2>5. Kept' = b.num /\ Offered' = b.num /\ Kept = b.num /\ Offered = b.num
    BY <1>1, <1>8, <2>1, <2>3, AloneThen, AloneInWrite
  <2>6. Held' = Held
    BY <1>1, <1>8 DEF Held
  <2>7. Genuine(Held', Offered', Lines) /\ Distinct(Held')
    BY <2>1, <2>5, <2>6, InParts
  <2>8. Recent(b'.history, Kept', Lines)
    <3>1. Recent(b.history, b.num, Lines)
      BY <2>1, <2>5, InParts
    <3>2. Recent(h, b.num, Lines)
      BY <1>2, <1>4, <3>1, RecentEvict
    <3>3. QED
      BY <1>8, <2>5, <3>2
  <2>9. Ended'
    BY <1>1, <1>8, <2>1, EndedKept
  <2>10. QED
    BY <1>1, <1>8, <2>1, <2>3, <2>4, <2>7, <2>8, <2>9, WriteKeepsOrder
<1>11. QED
  BY <1>7, <1>9, <1>10 DEF IInv

\* Of a closed writer the line is not to be sent.
LEMMA TestStoppedInv == ASSUME IInv, NEW w \in Writers, TestStopped(w) PROVE IInv'
<1>1. /\ InWrite(w, "stopped") /\ proc[w].pc = "stopped" /\ b' = b
      /\ proc' = [proc EXCEPT ![w].pc = IF b.closed THEN "keep" ELSE "push"]
      /\ UNCHANGED <<runner, flusher, batch, step, stream, uploaded>>
  BY DEF TestStopped, InWrite
<1>2. TypeOK /\ b.num \in Nat /\ proc \in [Writers -> Frame]
  BY Fields DEF IInv, TypeOK, Frame
<1>3. TypeOK'
  <2>1. proc' \in [Writers -> Frame]
    BY <1>1, <1>2 DEF Frame
  <2>2. QED
    BY <1>1, <1>2, <2>1 DEF TypeOK, Frame
<1>4. /\ proc'[w].pc \in {"keep", "push"}
      /\ proc'[w].line = proc[w].line /\ proc'[w].todo = proc[w].todo
      /\ \A v \in Writers \ {w} : proc'[v] = proc[v]
  BY <1>1, <1>2 DEF Frame
<1>5. Alternating' /\ Batched' /\ Opened'
  BY <1>1, <1>4, WriteKeeps
<1>6. ASSUME ~step'.overtaken PROVE InOrder'
  <2>1. ~step.overtaken /\ ~Out(w)
    BY <1>1, <1>6 DEF Out
  <2>2. Place(proc'[w], b'.prev, b'.num, step.input)
    BY <1>1, <1>4, <2>1, InParts DEF Place
  <2>3. /\ Kept' = b.num - 1 /\ Kept = b.num - 1 /\ Offered = b.num - 1
        /\ Offered' = b.num - 1 \/ Offered' = b.num
    BY <1>1, <1>4, <2>1, AloneThen, AloneInWrite
  <2>4. Held' = Held /\ Held \in [Places -> Seq(Line)]
    BY <1>1, <1>2, HeldNow DEF Held
  <2>5. Recent(b'.history, Kept', Lines) /\ Distinct(Held') /\ Genuine(Held, b.num - 1, Lines)
    BY <1>1, <2>1, <2>3, <2>4, InParts
  <2>6. Genuine(Held', Offered', Lines)
    <3> DEFINE held  == Held
               lines == Lines
               n     == b.num - 1
               m     == b.num
    <3>1. /\ held \in [Places -> Seq(Line)] /\ n \in Int /\ m \in Int /\ n <= m
          /\ Genuine(held, n, lines)
      BY <1>2, <2>4, <2>5
    <3> HIDE DEF held, lines, n, m
    <3>2. Genuine(held, m, lines)
      BY <3>1, GenuineMore
    <3>3. QED
      BY <2>3, <2>4, <3>1, <3>2 DEF held, lines, n, m
  <2>7. Ended'
    BY <1>1, <1>4, <2>1, EndedKept
  <2>8. b'.num <= Len(Lines)
    BY <1>1, <2>1, InParts
  <2>9. QED
    BY <1>1, <1>4, <2>1, <2>2, <2>5, <2>6, <2>7, <2>8, WriteKeepsOrder
<1>7. QED
  BY <1>3, <1>5, <1>6 DEF IInv

\* The line is the next one to be offered, and it waits behind the others.
LEMMA PushInv == ASSUME IInv, NEW w \in Writers, Push(w) PROVE IInv'
<1> DEFINE ln == proc[w].line
           q  == Append(b.pending, ln)
<1>1. /\ InWrite(w, "push") /\ proc[w].pc = "push" /\ b' = [b EXCEPT !.pending = q]
      /\ proc' = [proc EXCEPT ![w].pc = "keep"]
      /\ UNCHANGED <<runner, flusher, batch, step, stream, uploaded>>
  <2>1. TypeOK
    BY DEF IInv
  <2> HIDE DEF ln
  <2>2. b' = [b EXCEPT !.pending = Append(@, ln)]
    BY DEF Push, ln
  <2>3. b' = [b EXCEPT !.pending = q]
    BY <2>1, <2>2 DEF TypeOK
  <2>4. QED
    BY <2>3 DEF Push, InWrite
<1>2. TypeOK /\ b.num \in Nat /\ b.pending \in Seq(Line) /\ ln \in Line
      /\ proc \in [Writers -> Frame]
  BY Fields DEF IInv, TypeOK, Frame
<1>3. q \in Seq(Line)
  BY <1>2, AppendProperties
<1>4. TypeOK'
  <2> HIDE DEF q
  <2>1. b \in [opened : {"no", "open", "failed"}, closed : BOOLEAN, ready : BOOLEAN,
               prev : Seq(Token), size : Int, num : Nat, pending : Seq(Line),
               history : Seq(Line), errs : SUBSET Nat]
    BY <1>2 DEF TypeOK
  <2>2. b' \in [opened : {"no", "open", "failed"}, closed : BOOLEAN, ready : BOOLEAN,
                prev : Seq(Token), size : Int, num : Nat, pending : Seq(Line),
                history : Seq(Line), errs : SUBSET Nat]
    BY <1>1, <1>3, <2>1
  <2>3. proc' \in [Writers -> Frame]
    BY <1>1, <1>2 DEF Frame
  <2>4. QED
    BY <1>1, <1>2, <2>2, <2>3 DEF TypeOK, Frame
<1>5. /\ b'.closed = b.closed /\ b'.opened = b.opened /\ b'.num = b.num /\ b'.history = b.history
      /\ b'.pending = q /\ b'.prev = b.prev
      /\ proc'[w].pc = "keep" /\ proc'[w].line = ln /\ proc'[w].todo = proc[w].todo
      /\ \A v \in Writers \ {w} : proc'[v] = proc[v]
  <2> HIDE DEF q
  <2>1. QED
    BY <1>1, <1>2 DEF TypeOK, Frame
<1>6. Alternating' /\ Batched' /\ Opened'
  BY <1>1, <1>5, WriteKeeps
<1>7. ASSUME ~step'.overtaken PROVE InOrder'
  <2>1. ~step.overtaken /\ ~Out(w)
    BY <1>1, <1>7 DEF Out
  <2> DEFINE n == b.num - 1
  <2>2. /\ b.num > 0 /\ ln = Numbered(Lines, n) /\ proc[w].todo = From(Lines, b.num)
        /\ b.prev = AfterLast(step.input) /\ Lines = Split(step.input)
    BY <1>1, <2>1, InParts DEF Place
  <2>3. n \in Nat /\ n < Len(Lines) /\ n + 1 = b.num /\ Lines \in Seq(Seq(Token))
        /\ b.num <= Len(Lines)
    BY <1>2, <2>1, <2>2, InParts
  <2>4. Place(proc'[w], b'.prev, b'.num, step.input)
    BY <1>5, <2>2 DEF Place
  <2>5. Kept' = n /\ Offered' = b.num /\ Kept = n /\ Offered = n
    BY <1>1, <1>5, <2>1, AloneThen, AloneInWrite
  <2>6. Recent(b'.history, Kept', Lines) /\ Distinct(Held) /\ Genuine(Held, n, Lines)
    BY <1>5, <2>1, <2>5, InParts
  <2>7. Genuine(Held', Offered', Lines) /\ Distinct(Held')
    <3>1. /\ Held \in [Places -> Seq(Line)] /\ Held' \in [Places -> Seq(Line)]
          /\ Held'["pending"] = Append(Held["pending"], ln)
          /\ \A p \in Places \ {"pending"} : Held'[p] = Held[p]
      BY <1>1, <1>2, <1>4, <1>5, HeldNow, HeldThen DEF Places
    <3> DEFINE held  == Held
               after == Held'
               lines == Lines
    <3>2. /\ held \in [Places -> Seq(Line)] /\ after \in [Places -> Seq(Line)]
          /\ lines \in Seq(Seq(Token)) /\ n \in Nat /\ n < Len(lines)
          /\ after["pending"] = Append(held["pending"], Numbered(lines, n))
          /\ \A p \in Places \ {"pending"} : after[p] = held[p]
          /\ Distinct(held) /\ Genuine(held, n, lines)
      BY <2>2, <2>3, <2>6, <3>1
    <3> HIDE DEF held, after, lines, n
    <3>3. Distinct(after) /\ Genuine(after, n + 1, lines)
      BY <3>2, Joined
    <3>4. QED
      BY <2>3, <2>5, <3>3 DEF after, lines
  <2>8. Ended'
    BY <1>1, <1>5, <2>1, EndedKept
  <2>9. b'.num <= Len(Lines)
    BY <1>5, <2>3
  <2>10. QED
    BY <1>1, <1>5, <2>1, <2>4, <2>6, <2>7, <2>8, <2>9, WriteKeepsOrder
<1>8. QED
  BY <1>4, <1>6, <1>7 DEF IInv

LEMMA KeepInv == ASSUME IInv, NEW w \in Writers, Keep(w) PROVE IInv'
<1> DEFINE ln == proc[w].line
           h  == Append(b.history, ln)
<1>1. /\ InWrite(w, "keep") /\ proc[w].pc = "keep" /\ b' = [b EXCEPT !.history = h]
      /\ proc' = [proc EXCEPT ![w].pc = "parts", ![w].line = NoLine]
      /\ UNCHANGED <<runner, flusher, batch, step, stream, uploaded>>
  <2>1. TypeOK
    BY DEF IInv
  <2> HIDE DEF ln
  <2>2. b' = [b EXCEPT !.history = Append(@, ln)]
    BY DEF Keep, ln
  <2>3. b' = [b EXCEPT !.history = h]
    BY <2>1, <2>2 DEF TypeOK
  <2>4. QED
    BY <2>3 DEF Keep, InWrite
<1>2. TypeOK /\ b.num \in Nat /\ b.history \in Seq(Line) /\ ln \in Line
      /\ proc \in [Writers -> Frame]
  BY Fields DEF IInv, TypeOK, Frame
<1>3. h \in Seq(Line)
  BY <1>2, AppendProperties
<1>4. TypeOK'
  <2> HIDE DEF h
  <2>1. b \in [opened : {"no", "open", "failed"}, closed : BOOLEAN, ready : BOOLEAN,
               prev : Seq(Token), size : Int, num : Nat, pending : Seq(Line),
               history : Seq(Line), errs : SUBSET Nat]
    BY <1>2 DEF TypeOK
  <2>2. b' \in [opened : {"no", "open", "failed"}, closed : BOOLEAN, ready : BOOLEAN,
                prev : Seq(Token), size : Int, num : Nat, pending : Seq(Line),
                history : Seq(Line), errs : SUBSET Nat]
    BY <1>1, <1>3, <2>1
  <2>3. proc' \in [Writers -> Frame]
    BY <1>1, <1>2, Nothing DEF Frame
  <2>4. QED
    BY <1>1, <1>2, <2>2, <2>3 DEF TypeOK, Frame
<1>5. /\ b'.closed = b.closed /\ b'.opened = b.opened /\ b'.num = b.num /\ b'.history = h
      /\ b'.pending = b.pending /\ b'.prev = b.prev
      /\ proc'[w].pc = "parts" /\ proc'[w].todo = proc[w].todo
      /\ \A v \in Writers \ {w} : proc'[v] = proc[v]
  <2> HIDE DEF h
  <2>1. QED
    BY <1>1, <1>2 DEF TypeOK, Frame
<1>6. Alternating' /\ Batched' /\ Opened'
  BY <1>1, <1>5, WriteKeeps
<1>7. ASSUME ~step'.overtaken PROVE InOrder'
  <2>1. ~step.overtaken /\ ~Out(w)
    BY <1>1, <1>7 DEF Out
  <2> DEFINE n == b.num - 1
  <2>2. /\ b.num > 0 /\ ln = Numbered(Lines, n) /\ proc[w].todo = From(Lines, b.num)
        /\ b.prev = AfterLast(step.input) /\ Lines = Split(step.input)
    BY <1>1, <2>1, InParts DEF Place
  <2>3. n \in Nat /\ n < Len(Lines) /\ n + 1 = b.num /\ Lines \in Seq(Seq(Token))
        /\ b.num <= Len(Lines)
    BY <1>2, <2>1, <2>2, InParts
  <2>4. Place(proc'[w], b'.prev, b'.num, step.input)
    BY <1>5, <2>2 DEF Place
  <2>5. Kept' = b.num /\ Offered' = b.num /\ Kept = n /\ Offered = b.num
    BY <1>1, <1>5, <2>1, AloneThen, AloneInWrite
  <2>6. Held' = Held
    BY <1>1, <1>5 DEF Held
  <2>7. Genuine(Held', Offered', Lines) /\ Distinct(Held') /\ Recent(b.history, n, Lines)
    BY <2>1, <2>5, <2>6, InParts
  <2>8. Recent(b'.history, Kept', Lines)
    <3> DEFINE lines == Lines
    <3>1. lines \in Seq(Seq(Token)) /\ n \in Nat /\ n < Len(lines) /\ Recent(b.history, n, lines)
      BY <2>3, <2>7
    <3> HIDE DEF lines, n
    <3>2. Recent(Append(b.history, Numbered(lines, n)), n + 1, lines)
      BY <1>2, <3>1, RecentAppend
    <3>3. QED
      BY <1>5, <2>2, <2>3, <2>5, <3>2 DEF lines
  <2>9. Ended'
    BY <1>1, <1>5, <2>1, EndedKept
  <2>10. b'.num <= Len(Lines)
    BY <1>5, <2>3
  <2>11. QED
    BY <1>1, <1>5, <2>1, <2>4, <2>7, <2>8, <2>9, <2>10, WriteKeepsOrder
<1>8. QED
  BY <1>4, <1>6, <1>7 DEF IInv

\* Nothing is left to be logged: every line of the output has been counted.
LEMMA SignalInv == ASSUME IInv, NEW w \in Writers, Signal(w) PROVE IInv'
<1>1. /\ InWrite(w, "parts") /\ proc[w].pc = "parts" /\ proc[w].todo = <<>>
      /\ b' = [b EXCEPT !.ready = TRUE] /\ proc' = [proc EXCEPT ![w].pc = "out"]
      /\ UNCHANGED <<runner, flusher, batch, step, stream, uploaded>>
  BY DEF Signal, InWrite
<1>2. TypeOK /\ b.num \in Nat /\ proc \in [Writers -> Frame]
  BY Fields DEF IInv, TypeOK, Frame
<1>3. TypeOK'
  <2>1. proc' \in [Writers -> Frame]
    BY <1>1, <1>2 DEF Frame
  <2>2. QED
    BY <1>1, <1>2, <2>1 DEF TypeOK, Frame
<1>4. /\ b'.closed = b.closed /\ b'.opened = b.opened /\ b'.num = b.num /\ b'.history = b.history
      /\ b'.pending = b.pending /\ b'.prev = b.prev
      /\ proc'[w].pc = "out" /\ \A v \in Writers \ {w} : proc'[v] = proc[v]
  BY <1>1, <1>2 DEF TypeOK, Frame
<1>5. Alternating' /\ Batched' /\ Opened'
  BY <1>1, <1>4, WriteKeeps
<1>6. ASSUME ~step'.overtaken PROVE InOrder'
  <2>1. ~step.overtaken /\ ~Out(w)
    BY <1>1, <1>6 DEF Out
  <2>2. From(Lines, b.num) = <<>> /\ b.prev = AfterLast(step.input)
    BY <1>1, <2>1, InParts DEF Place
  <2>3. b.num = Len(Lines)
    <3> DEFINE lines == Lines
               n     == b.num
    <3>1. lines \in Seq(Seq(Token)) /\ n \in 0..Len(lines) /\ From(lines, n) = <<>>
      BY <2>1, <2>2, InParts
    <3> HIDE DEF lines, n
    <3>2. n = Len(lines)
      BY <3>1, FromIs
    <3>3. QED
      BY <3>2 DEF lines, n
  <2>4. Place(proc'[w], b'.prev, b'.num, step.input)
    BY <1>4 DEF Place
  <2>5. Kept' = b.num /\ Offered' = b.num /\ Kept = b.num /\ Offered = b.num
    BY <1>1, <1>4, <2>1, AloneThen, AloneInWrite
  <2>6. Held' = Held
    BY <1>1, <1>4 DEF Held
  <2>7. Recent(b'.history, Kept', Lines) /\ Genuine(Held', Offered', Lines) /\ Distinct(Held')
    BY <1>4, <2>1, <2>5, <2>6, InParts
  <2>8. Ended'
    BY <1>1, <1>4, <2>1, EndedKept
  <2>9. b'.num <= Len(Lines) /\ b'.num = Len(Lines) /\ b'.prev = AfterLast(step.input)
    BY <1>4, <2>1, <2>2, <2>3, InParts
  <2>10. QED
    BY <1>1, <1>4, <2>1, <2>4, <2>7, <2>8, <2>9, WriteKeepsOrder
<1>7. QED
  BY <1>3, <1>5, <1>6 DEF IInv

LEMMA WriteStepInv == ASSUME IInv, NEW w \in Writers, WriteStep(w) PROVE IInv'
<1>1. CASE WritePrev(w)
  BY <1>1, WriteNoNewlineInv, WriteNewlineInv DEF WritePrev
<1>2. CASE NewLine(w)
  BY <1>2, NewLineInv
<1>3. CASE Admit(w)
  BY <1>3, AdmitInv
<1>4. CASE TestStopped(w)
  BY <1>4, TestStoppedInv
<1>5. CASE Push(w)
  BY <1>5, PushInv
<1>6. CASE Keep(w)
  BY <1>6, KeepInv
<1>7. CASE Signal(w)
  BY <1>7, SignalInv
<1>8. QED
  BY <1>1, <1>2, <1>3, <1>4, <1>5, <1>6, <1>7 DEF WriteStep

LEMMA NextInv == IInv /\ [Next]_vars => IInv'
<1> SUFFICES ASSUME IInv, [Next]_vars PROVE IInv'
  OBVIOUS
<1>1. ASSUME NEW shape \in Shapes, CopyChunk(shape) PROVE IInv'
  BY <1>1, CopyChunkInv
<1>2. CASE CopyEnd
  BY <1>2, CopyEndInv
<1>3. ASSUME NEW w \in Writers, WriteStep(w) PROVE IInv'
  BY <1>3, WriteStepInv
<1>4. CASE Flusher
  BY <1>4, FlusherRestsInv, FlusherCopyInv, FlusherSendInv DEF Flusher
<1>5. CASE Open
  BY <1>5, OpenInv
<1>6. CASE Return \/ Remark \/ Stop
  BY <1>6, ReturnInv, RemarkInv, StopInv
<1>7. CASE CloseStep
  BY <1>7, WriteRestInv, NoRestInv, CloseCopyInv, CloseSendInv, CheckErrInLogsInv, UploadInv
     DEF CloseStep
<1>8. CASE UNCHANGED vars
  <2>1. /\ b' = b /\ proc' = proc /\ runner' = runner /\ flusher' = flusher /\ batch' = batch
        /\ step' = step /\ stream' = stream /\ uploaded' = uploaded
    BY <1>8 DEF vars
  <2>2. TypeOK' /\ Alternating' /\ Batched' /\ Opened'
    BY <2>1 DEF IInv, TypeOK, Alternating, Batched, Opened, Out
  <2>3. ASSUME ~step'.overtaken PROVE InOrder'
    <3>1. InOrder
      BY <2>1, <2>3 DEF IInv
    <3>2. Ended' /\ Held' = Held
      BY <2>1, <3>1 DEF InOrder, Ended, Held
    <3>3. Distinct(Held') /\ Genuine(Held', Offered, Lines)
      BY <3>1, <3>2 DEF InOrder
    <3>4. QED
      BY <2>1, <3>1, <3>2, <3>3, InOrderAgain
  <2>4. QED
    BY <2>2, <2>3 DEF IInv
<1>9. QED
  BY <1>1, <1>2, <1>3, <1>4, <1>5, <1>6, <1>7, <1>8 DEF Next

-----------------------------------------------------------------------------
(* What the invariant says of the contents.                                  *)

LEMMA Restored ==
    ASSUME NEW m \in Seq(Token)
    PROVE  Append(Front(Append(m, NL)), NL) = Append(m, NL)
<1> DEFINE n == Len(m)
           c == Append(m, NL)
<1>1. /\ n \in Nat /\ c \in Seq(Token) /\ Len(c) = n + 1 /\ \A i \in 1..n : c[i] = m[i]
  BY TokenNL, AppendProperties, LenProperties
<1> HIDE DEF c
<1>2. 1 \in Int /\ n \in Int /\ \A i \in 1..n : c[i] \in Token
  BY <1>1, ElementOfSeq
<1> DEFINE f == SubSeq(c, 1, n)
<1>3. /\ f \in Seq(Token) /\ Len(f) = IF 1 <= n THEN n - 1 + 1 ELSE 0
      /\ \A i \in 1..(n - 1 + 1) : f[i] = c[1 + i - 1]
  BY <1>2, SubSeqProperties
<1> HIDE DEF f
<1>4. Len(f) = n
  BY <1>1, <1>3
<1>5. ASSUME NEW i \in 1..n PROVE f[i] = m[i]
  <2>1. i \in 1..(n - 1 + 1) /\ 1 + i - 1 = i
    BY <1>1
  <2>2. QED
    BY <1>1, <1>3, <2>1
<1>6. f = m
  BY <1>3, <1>4, <1>5, SeqEqual
<1>7. Front(c) = f
  <2>1. Len(c) - 1 = n
    BY <1>1
  <2>2. QED
    BY <2>1 DEF Front, f
<1>8. QED
  BY <1>6, <1>7 DEF c

\* The text of a history is the end of the output that was logged, all of it when it has every line.
LEMMA TextIs ==
    ASSUME NEW p \in Seq(Token), NEW history \in Seq(Line),
           Recent(history, Len(Split(p)), Split(p))
    PROVE  /\ Text(history) \in Seq(Token)
           /\ \E older \in Seq(Token) :
                 /\ p = older \o (Text(history) \o AfterLast(p))
                 /\ Len(history) = Len(Split(p)) => older = <<>>
<1> DEFINE lines == Split(p)
           n == Len(lines)
           m == Len(history)
           k == n - m
           t == [i \in DOMAIN history |->
                   IF TrimSuffix THEN Append(history[i].msg, NL) ELSE history[i].msg]
           head == SubSeq(lines, 1, k)
           tail == SubSeq(lines, k + 1, n)
<1>1. /\ lines \in Seq(Seq(Token)) /\ n \in Nat /\ m \in Nat /\ m <= n /\ k \in 0..n
      /\ DOMAIN history = 1..m
      /\ \A i \in 1..m : history[i] = Numbered(lines, k + i - 1)
      /\ \A i \in 1..n : \E q \in Seq(Token) : lines[i] = Append(q, NL)
  <2>1. lines \in Seq(Seq(Token)) /\ n \in Nat /\ m \in Nat /\ DOMAIN history = 1..m
    BY SplitType, LenProperties
  <2>2. m <= n /\ \A i \in 1..m : history[i] = Numbered(lines, k + i - 1)
    BY DEF Recent
  <2>3. \A i \in 1..n : \E q \in Seq(Token) : lines[i] = Append(q, NL)
    BY SplitEnds
  <2> HIDE DEF lines, n, m
  <2>4. k \in 0..n
    BY <2>1, <2>2
  <2> HIDE DEF k
  <2>5. QED
    BY <2>1, <2>2, <2>3, <2>4
<1>2. FlattenSeq(lines) \o AfterLast(p) = p /\ AfterLast(p) \in Seq(Token)
  BY SplitFlattens, AfterIs
<1> HIDE DEF lines, m
<1>3. head \in Seq(Seq(Token))
  <2>1. \A i \in 1..k : i \in 1..n
    BY <1>1
  <2>2. 1 \in Int /\ k \in Int /\ \A i \in 1..k : lines[i] \in Seq(Token)
    BY <1>1, <2>1, ElementOfSeq
  <2>3. QED
    BY <2>2, SubSeqProperties
<1>4. /\ tail \in Seq(Seq(Token)) /\ Len(tail) = m
      /\ \A i \in 1..m : tail[i] = lines[k + i]
  <2>1. \A i \in (k + 1)..n : i \in 1..n
    BY <1>1
  <2>2. k + 1 \in Int /\ n \in Int /\ \A i \in (k + 1)..n : lines[i] \in Seq(Token)
    BY <1>1, <2>1, ElementOfSeq
  <2>3. /\ tail \in Seq(Seq(Token)) /\ Len(tail) = IF k + 1 <= n THEN n - (k + 1) + 1 ELSE 0
        /\ \A i \in 1..(n - (k + 1) + 1) : tail[i] = lines[k + 1 + i - 1]
    BY <2>2, SubSeqProperties
  <2> HIDE DEF tail
  <2>4. n - (k + 1) + 1 = m /\ (~(k + 1 <= n) => m = 0) /\ \A i \in 1..m : k + 1 + i - 1 = k + i
    BY <1>1
  <2> HIDE DEF k, n
  <2>5. QED
    BY <2>3, <2>4
<1>5. head \o tail = lines
  <2> DEFINE o == 1
  <2>1. /\ o \in 1..Len(lines) + 1 /\ k \in o - 1..Len(lines) /\ n \in k..Len(lines)
    BY <1>1
  <2> HIDE DEF o, k
  <2>2. SubSeq(lines, o, k) \o SubSeq(lines, k + 1, n) = SubSeq(lines, o, n)
    BY <1>1, <2>1, ConcatAdjacentSubSeq
  <2>3. SubSeq(lines, 1, n) = lines
    BY <1>1, SubSeqFull
  <2>4. QED
    BY <2>2, <2>3 DEF o
<1>6. t = tail
  <2>1. ASSUME NEW i \in 1..m
        PROVE  t[i] = tail[i]
    <3>1. k + i \in 1..n /\ k + i - 1 + 1 = k + i
      BY <1>1
    <3>2. t[i] = IF TrimSuffix THEN Append(history[i].msg, NL) ELSE history[i].msg
      BY <1>1
    <3>3. history[i].msg = Message(lines[k + i])
      BY <1>1, <3>1 DEF Numbered
    <3>4. PICK q \in Seq(Token) : lines[k + i] = Append(q, NL)
      BY <1>1, <3>1
    <3>5. t[i] = lines[k + i]
      BY <3>2, <3>3, <3>4, Restored DEF Message
    <3>6. QED
      BY <1>4, <3>5
  <2>2. t \in Seq(Seq(Token)) /\ Len(t) = m
    <3>1. ASSUME NEW i \in 1..m PROVE t[i] \in Seq(Token)
      <4>1. tail[i] \in Seq(Token)
        BY <1>4, ElementOfSeq
      <4>2. QED
        BY <2>1, <4>1
    <3>2. t = [i \in 1..m |-> t[i]]
      BY <1>1
    <3> HIDE DEF t
    <3>3. t \in [1..m -> Seq(Token)]
      BY <3>1, <3>2
    <3>4. t \in Seq(Seq(Token))
      BY <1>1, <3>3, FunctionIsSeq
    <3>5. DOMAIN t = 1..m
      BY <3>3
    <3>6. Len(t) \in Nat /\ DOMAIN t = 1..Len(t)
      BY <3>4, LenProperties
    <3>7. QED
      BY <1>1, <3>4, <3>5, <3>6
  <2> HIDE DEF t, tail
  <2>3. QED
    BY <1>4, <2>1, <2>2, SeqEqual
<1>7. Text(history) = FlattenSeq(tail)
  BY <1>6 DEF Text
<1> HIDE DEF tail, head, t
<1>8. /\ FlattenSeq(head) \in Seq(Token) /\ FlattenSeq(tail) \in Seq(Token)
      /\ FlattenSeq(lines) = FlattenSeq(head) \o FlattenSeq(tail)
  BY <1>3, <1>4, <1>5, FlattenType, FlattenConcat
<1>9. p = FlattenSeq(head) \o (Text(history) \o AfterLast(p))
  <2> DEFINE x == FlattenSeq(head)
             y == FlattenSeq(tail)
             z == AfterLast(p)
  <2>1. x \in Seq(Token) /\ y \in Seq(Token) /\ z \in Seq(Token) /\ p = (x \o y) \o z
    BY <1>2, <1>8
  <2> HIDE DEF x, y, z
  <2>2. p = x \o (y \o z)
    BY <2>1, Reassociate
  <2>3. QED
    BY <1>7, <2>2 DEF x, y, z
<1>10. m = n => FlattenSeq(head) = <<>>
  <2>1. m = n => k < 1 /\ k \in Int /\ 1 \in Int
    BY <1>1
  <2> HIDE DEF k
  <2>2. m = n => head = <<>>
    BY <2>1, SubSeqEmpty DEF head
  <2>3. QED
    BY <2>2, FlattenEmpty
<1>11. QED
  BY <1>7, <1>8, <1>9, <1>10 DEF m, lines

\* The stream and whatever is on its way to it have no two lines of one number.
LEMMA AllDistinct ==
    ASSUME NEW s \in Seq(Line), NEW f \in Seq(Line), NEW r \in Seq(Line), NEW p \in Seq(Line),
           Distinct(HeldIn(s, f, r, p)), NEW offered, NEW lines,
           Genuine(HeldIn(s, f, r, p), offered, lines)
    PROVE  \A i, j \in DOMAIN (s \o f \o r \o p) :
               i # j => (s \o f \o r \o p)[i].num # (s \o f \o r \o p)[j].num
<1> DEFINE e  == <<>>
           h0 == HeldIn(s, f, r, p)
           h1 == HeldIn(s \o f, e, r, p)
           h2 == HeldIn(s \o f \o r, e, e, p)
           h3 == HeldIn(s \o f \o r \o p, e, e, e)
<1>1. e \in Seq(Line) /\ s \o f \in Seq(Line) /\ s \o f \o r \in Seq(Line)
      /\ s \o f \o r \o p \in Seq(Line)
  BY Nothing, ConcatProperties
<1>2. /\ h0 \in [Places -> Seq(Line)] /\ h1 \in [Places -> Seq(Line)]
      /\ h2 \in [Places -> Seq(Line)] /\ h3 \in [Places -> Seq(Line)]
  BY <1>1, HeldIs
<1>3. /\ h0["stream"] = s /\ h0["flusher"] = f /\ h0["runner"] = r /\ h0["pending"] = p
      /\ h1["stream"] = s \o f /\ h1["flusher"] = e /\ h1["runner"] = r /\ h1["pending"] = p
      /\ h2["stream"] = s \o f \o r /\ h2["flusher"] = e /\ h2["runner"] = e /\ h2["pending"] = p
      /\ h3["stream"] = s \o f \o r \o p /\ h3["flusher"] = e /\ h3["runner"] = e
      /\ h3["pending"] = e
  BY DEF HeldIn, Places
<1>4. Distinct(h0) /\ Genuine(h0, offered, lines)
  OBVIOUS
<1> HIDE DEF h0, h1, h2, h3
<1>5. Distinct(h1) /\ Genuine(h1, offered, lines)
  <2>1. /\ "stream" \in Places /\ "flusher" \in Places /\ "stream" # "flusher"
        /\ h1["stream"] = h0["stream"] \o h0["flusher"] /\ h1["flusher"] = <<>>
        /\ \A x \in Places \ {"stream", "flusher"} : h1[x] = h0[x]
    BY <1>3 DEF Places
  <2>2. QED
    BY <1>2, <1>4, <2>1, Moved
<1>6. Distinct(h2) /\ Genuine(h2, offered, lines)
  <2>1. /\ "stream" \in Places /\ "runner" \in Places /\ "stream" # "runner"
        /\ h2["stream"] = h1["stream"] \o h1["runner"] /\ h2["runner"] = <<>>
        /\ \A x \in Places \ {"stream", "runner"} : h2[x] = h1[x]
    BY <1>3 DEF Places
  <2>2. QED
    BY <1>2, <1>5, <2>1, Moved
<1>7. Distinct(h3)
  <2>1. /\ "stream" \in Places /\ "pending" \in Places /\ "stream" # "pending"
        /\ h3["stream"] = h2["stream"] \o h2["pending"] /\ h3["pending"] = <<>>
        /\ \A x \in Places \ {"stream", "pending"} : h3[x] = h2[x]
    BY <1>3 DEF Places
  <2>2. QED
    BY <1>2, <1>6, <2>1, Moved
<1> DEFINE all == s \o f \o r \o p
<1>8. all \in Seq(Line) /\ h3["stream"] = all
  BY <1>1, <1>3
<1> HIDE DEF all
<1>9. DOMAIN all = 1..Len(all)
  BY <1>8, LenProperties
<1>10. \A i, j \in 1..Len(all) : all[i].num = all[j].num => i = j
  <2>1. "stream" \in Places
    BY DEF Places
  <2>2. QED
    BY <1>7, <1>8, <2>1 DEF Distinct
<1>11. \A i, j \in DOMAIN all : i # j => all[i].num # all[j].num
  BY <1>9, <1>10
<1>12. QED
  BY <1>11 DEF all

-----------------------------------------------------------------------------
\* The invariant holds throughout.
THEOREM Invariant == Spec => []IInv
<1>1. Init => IInv
  BY InitInv
<1>2. IInv /\ [Next]_vars => IInv'
  BY NextInv
<1>3. QED
  BY <1>1, <1>2, PTL DEF Spec

(* Each piece of state keeps its type, for any shapes, number and limit.     *)
THEOREM TypeCorrect == Spec => []TypeOK
<1>1. IInv => TypeOK
  BY DEF IInv
<1>2. QED
  BY <1>1, Invariant, PTL

(* Between two Writes what is kept, and what waits for its newline, is the   *)
(* end of what the step wrote, numbered without a gap (livelog.go:85-158).   *)
THEOREM HistoryIsOutputAlways == Spec => []HistoryIsOutput
<1>1. IInv => HistoryIsOutput
  <2> SUFFICES ASSUME IInv, ~step.overtaken, \A w \in Writers : proc[w].pc = "out"
               PROVE  /\ IsSuffix(Text(b.history) \o b.prev, step.input)
                      /\ Len(b.history) = b.num => Text(b.history) \o b.prev = step.input
                      /\ \A i \in DOMAIN b.history :
                            b.history[i].num = b.num - Len(b.history) + i - 1
    BY DEF HistoryIsOutput
  <2> DEFINE p == step.input
             h == b.history
  <2>1. /\ p \in Seq(Token) /\ h \in Seq(Line) /\ b.num = Len(Split(p)) /\ b.prev = AfterLast(p)
        /\ Recent(h, Len(Split(p)), Split(p))
    <3>1. \A w \in Writers : Out(w)
      BY DEF Out
    <3>2. Kept = b.num
      BY <3>1, NobodyInWrite
    <3>3. InOrder /\ TypeOK
      BY DEF IInv
    <3>4. QED
      BY <3>1, <3>2, <3>3, Fields DEF InOrder, Settled, Lines
  <2>2. \A i \in DOMAIN h : h[i].num = b.num - Len(h) + i - 1
    <3>1. DOMAIN h = 1..Len(h)
      BY <2>1, LenProperties
    <3>2. \A i \in 1..Len(h) : h[i] = Numbered(Split(p), Len(Split(p)) - Len(h) + i - 1)
      BY <2>1 DEF Recent
    <3>3. \A lines, j : Numbered(lines, j).num = j
      BY DEF Numbered
    <3> HIDE DEF p, h
    <3>4. QED
      BY <2>1, <3>1, <3>2, <3>3
  <2> HIDE DEF p, h
  <2>3. PICK older \in Seq(Token) : /\ p = older \o (Text(h) \o AfterLast(p))
                                    /\ Len(h) = Len(Split(p)) => older = <<>>
    BY <2>1, TextIs
  <2>4. Text(h) \o AfterLast(p) \in Seq(Token)
    BY <2>1, TextIs, AfterIs, ConcatProperties
  <2>5. IsSuffix(Text(h) \o AfterLast(p), p)
    <3> DEFINE c == Text(h) \o AfterLast(p)
    <3>1. c \in Seq(Token) /\ p = older \o c
      BY <2>3, <2>4
    <3> HIDE DEF c
    <3>2. IsSuffix(c, older \o c)
      BY <3>1, SuffixOfConcat
    <3>3. QED
      BY <3>1, <3>2 DEF c
  <2>6. Len(h) = b.num => Text(h) \o AfterLast(p) = p
    BY <2>1, <2>3, <2>4, ConcatEmptySeq
  <2>7. QED
    BY <2>1, <2>2, <2>5, <2>6 DEF p, h
<1>2. QED
  BY <1>1, Invariant, PTL

(* No line is sent twice, whoever flushes (livelog.go:175-181, 201-216,      *)
(* 255-278).                                                                 *)
THEOREM SentOnceAlways == Spec => []SentOnce
<1>1. IInv => SentOnce
  <2> SUFFICES ASSUME IInv, ~step.overtaken
               PROVE  \A i, j \in DOMAIN Leaving : i # j => Leaving[i].num # Leaving[j].num
    BY DEF SentOnce
  <2> DEFINE s == stream
             f == batch["flusher"]
             r == batch["runner"]
             p == b.pending
  <2>1. s \in Seq(Line) /\ f \in Seq(Line) /\ r \in Seq(Line) /\ p \in Seq(Line)
    BY Fields DEF IInv
  <2>2. Distinct(HeldIn(s, f, r, p)) /\ Genuine(HeldIn(s, f, r, p), Offered, Lines)
    BY DEF IInv, InOrder, Held
  <2> HIDE DEF s, f, r, p
  <2>3. \A i, j \in DOMAIN (s \o f \o r \o p) :
            i # j => (s \o f \o r \o p)[i].num # (s \o f \o r \o p)[j].num
    BY <2>1, <2>2, AllDistinct
  <2>4. QED
    BY <2>3 DEF Leaving, s, f, r, p
<1>2. QED
  BY <1>1, Invariant, PTL

(* The line numbered k that is in the stream is the (k+1)-th line of the     *)
(* output, so the numbers put the stream right (livelog.go:116-119, 201-216).*)
THEOREM StreamSortsToOutputAlways == Spec => []StreamSortsToOutput
<1>1. IInv => StreamSortsToOutput
  <2> SUFFICES ASSUME IInv, ~step.overtaken, NEW i \in DOMAIN stream
               PROVE  /\ stream[i].num + 1 \in DOMAIN Lines
                      /\ stream[i].msg = Message(Lines[stream[i].num + 1])
    BY DEF StreamSortsToOutput, Lines
  <2>1. stream \in Seq(Line) /\ TypeOK
    BY Fields DEF IInv
  <2>2. i \in 1..Len(stream)
    BY <2>1, LenProperties
  <2>3. stream[i] \in Line
    BY <2>1, <2>2, ElementOfSeq
  <2>4. stream[i].num < Offered /\ stream[i] = Numbered(Lines, stream[i].num)
    <3>1. Held["stream"] = stream /\ "stream" \in Places
      BY <2>1, HeldNow DEF Places
    <3>2. Genuine(Held, Offered, Lines)
      BY DEF IInv, InOrder
    <3>3. QED
      BY <2>2, <3>1, <3>2 DEF Genuine
  <2>5. Offered <= Len(Lines) /\ Offered \in Nat /\ Len(Lines) \in Nat
    <3>1. Offered \in Nat /\ Len(Lines) \in Nat /\ Offered <= b.num /\ b.num <= Len(Lines)
      BY Counts
    <3>2. b.num \in Nat
      BY <2>1, Fields
    <3>3. QED
      BY <3>1, <3>2
  <2>6. stream[i].num \in Nat /\ DOMAIN Lines = 1..Len(Lines)
    BY <2>1, <2>3, Fields, SplitType, LenProperties DEF Line, Lines
  <2>7. stream[i].num + 1 \in 1..Len(Lines)
    BY <2>4, <2>5, <2>6
  <2>8. stream[i].msg = Message(Lines[stream[i].num + 1])
    BY <2>4 DEF Numbered
  <2>9. QED
    BY <2>6, <2>7, <2>8
<1>2. QED
  BY <1>1, Invariant, PTL

(* Close of a stream that was opened leaves nothing in prev, and what it     *)
(* uploads is the end of the output (livelog.go:172-197).                    *)
THEOREM UploadCompleteAlways == Spec => []UploadComplete
<1>1. IInv => UploadComplete
  <2> SUFFICES ASSUME IInv, ~step.overtaken, b.opened = "open", NEW i \in DOMAIN uploaded
               PROVE  b.prev = <<>> /\ IsSuffix(Text(uploaded[i]), step.input)
    BY DEF UploadComplete
  <2> DEFINE p == step.input
             h == b.history
  <2>1. InOrder /\ Ended /\ TypeOK /\ Alternating
    BY DEF IInv, InOrder
  <2>2. runner = "done" /\ uploaded = <<h>>
    BY <2>1 DEF Ended
  <2>3. uploaded[i] = h /\ b.prev = <<>>
    BY <2>1, <2>2 DEF Ended
  <2>4. \A w \in Writers : Out(w)
    BY <2>1, <2>2 DEF Alternating, Writers
  <2>5. /\ p \in Seq(Token) /\ h \in Seq(Line) /\ b.prev = AfterLast(p)
        /\ Recent(h, Len(Split(p)), Split(p))
    <3>1. Kept = b.num
      BY <2>4, NobodyInWrite
    <3>2. QED
      BY <2>1, <2>4, <3>1, Fields DEF InOrder, Settled, Lines
  <2> HIDE DEF p, h
  <2>6. PICK older \in Seq(Token) : p = older \o (Text(h) \o AfterLast(p))
    BY <2>5, TextIs
  <2>7. Text(h) \in Seq(Token)
    BY <2>5, TextIs
  <2>8. Text(h) \o AfterLast(p) = Text(h)
    BY <2>3, <2>5, <2>7, ConcatEmptySeq
  <2>9. IsSuffix(Text(h), p)
    <3> DEFINE c == Text(h)
    <3>1. c \in Seq(Token) /\ p = older \o c
      BY <2>6, <2>7, <2>8
    <3> HIDE DEF c
    <3>2. IsSuffix(c, older \o c)
      BY <3>1, SuffixOfConcat
    <3>3. QED
      BY <3>1, <3>2 DEF c
  <2>10. QED
    BY <2>3, <2>9 DEF p, h
<1>2. QED
  BY <1>1, Invariant, PTL
-----------------------------------------------------------------------------
(* The account of the history.  A line is on the account from Admit on and   *)
(* in the history from Keep on; between the two it is in the hands of the    *)
(* goroutine in Write.                                                       *)

Counted(w) == proc[w].pc \in {"stopped", "push", "keep"}

\* The account of num lines of which `lines` are kept and `more` is still to be put there.
Balanced(size, num, lines, more) ==
    size + Overhead * (num - Len(lines)) = Bytes(lines) + more

Accounted ==
    /\ \A w \in Writers : Counted(w) =>
          /\ Balanced(b.size, b.num - 1, b.history, Len(proc[w].line.msg))
          /\ Len(b.history) > 0 => b.size <= Limit
    /\ (\A w \in Writers : ~Counted(w)) =>
          /\ Balanced(b.size, b.num, b.history, 0)
          /\ Len(b.history) > 1 => b.size <= Limit

AccountInv == IInv /\ (~step.overtaken => Accounted)

\* The messages of a list of lines, as a sequence of their own.
LEMMA MessagesOf ==
    ASSUME NEW h \in Seq(Line)
    PROVE  /\ [i \in DOMAIN h |-> h[i].msg] \in Seq(Seq(Token))
           /\ Len([i \in DOMAIN h |-> h[i].msg]) = Len(h)
           /\ Bytes(h) \in Nat
<1> DEFINE f == [i \in DOMAIN h |-> h[i].msg]
<1>1. Len(h) \in Nat /\ DOMAIN h = 1..Len(h)
  BY LenProperties
<1>2. \A i \in 1..Len(h) : h[i].msg \in Seq(Token)
  <2>1. \A i \in 1..Len(h) : h[i] \in Line
    BY ElementOfSeq
  <2>2. QED
    BY <2>1 DEF Line
<1>3. f \in [1..Len(h) -> Seq(Token)]
  BY <1>1, <1>2
<1> HIDE DEF f
<1>4. f \in Seq(Seq(Token)) /\ Len(f) = Len(h)
  BY <1>1, <1>3, FunctionIsSeq
<1>5. FlattenSeq(f) \in Seq(Token)
  BY <1>4, FlattenType
<1>6. Len(FlattenSeq(f)) \in Nat
  BY <1>5, LenProperties
<1>7. QED
  BY <1>4, <1>6 DEF f, Bytes

\* One more line is as much as its message.
LEMMA BytesAppend ==
    ASSUME NEW h \in Seq(Line), NEW ln \in Line
    PROVE  Bytes(Append(h, ln)) = Bytes(h) + Len(ln.msg)
<1> DEFINE k == Append(h, ln)
           f == [i \in DOMAIN h |-> h[i].msg]
           g == [i \in DOMAIN k |-> k[i].msg]
<1>1. /\ k \in Seq(Line) /\ Len(k) = Len(h) + 1 /\ Len(h) \in Nat /\ k[Len(h) + 1] = ln
      /\ \A i \in 1..Len(h) : k[i] = h[i]
  BY AppendProperties, LenProperties
<1>2. ln.msg \in Seq(Token)
  BY DEF Line
<1> HIDE DEF k
<1>3. /\ DOMAIN k = 1..(Len(h) + 1) /\ DOMAIN h = 1..Len(h)
  BY <1>1, LenProperties
<1>4. /\ f \in Seq(Seq(Token)) /\ Len(f) = Len(h) /\ g \in Seq(Seq(Token)) /\ Len(g) = Len(h) + 1
  BY <1>1, MessagesOf
<1>5. /\ g[Len(h) + 1] = ln.msg /\ \A i \in 1..Len(h) : g[i] = f[i]
  BY <1>1, <1>3
<1> HIDE DEF f, g
<1>6. g = Append(f, ln.msg)
  <2>1. /\ Append(f, ln.msg) \in Seq(Seq(Token)) /\ Len(Append(f, ln.msg)) = Len(h) + 1
        /\ Append(f, ln.msg)[Len(h) + 1] = ln.msg
        /\ \A i \in 1..Len(h) : Append(f, ln.msg)[i] = f[i]
    BY <1>2, <1>4, AppendProperties
  <2>2. \A i \in 1..(Len(h) + 1) : g[i] = Append(f, ln.msg)[i]
    BY <1>1, <1>5, <2>1
  <2>3. QED
    BY <1>4, <2>1, <2>2, SeqEqual
<1>7. FlattenSeq(g) = FlattenSeq(f) \o ln.msg /\ FlattenSeq(f) \in Seq(Token)
  BY <1>2, <1>4, <1>6, FlattenAppend, FlattenType
<1>8. Len(FlattenSeq(g)) = Len(FlattenSeq(f)) + Len(ln.msg)
  BY <1>2, <1>7, ConcatProperties
<1>9. QED
  BY <1>8 DEF Bytes, f, g, k

\* What is evicted and what stays are together what there was.
LEMMA BytesEvict ==
    ASSUME NEW h \in Seq(Line), NEW n \in 0..Len(h)
    PROVE  /\ Bytes(h) = Len(FlattenSeq([i \in 1..n |-> h[i].msg]))
                         + Bytes(SubSeq(h, n + 1, Len(h)))
           /\ Len(FlattenSeq([i \in 1..n |-> h[i].msg])) \in Nat
           /\ SubSeq(h, n + 1, Len(h)) \in Seq(Line)
           /\ Len(SubSeq(h, n + 1, Len(h))) = Len(h) - n
<1> DEFINE m == Len(h)
           r == SubSeq(h, n + 1, m)
           a == [i \in 1..n |-> h[i].msg]
           c == [i \in DOMAIN r |-> r[i].msg]
           f == [i \in DOMAIN h |-> h[i].msg]
<1>1. /\ m \in Nat /\ n \in Nat /\ n <= m /\ m = Len(h) /\ DOMAIN h = 1..m
      /\ \A i \in 1..m : h[i] \in Line
  BY LenProperties, ElementOfSeq
<1> HIDE DEF m
<1>2. r \in Seq(Line) /\ Len(r) = m - n /\ \A i \in 1..(m - n) : r[i] = h[n + i]
  <2>1. n + 1 \in Int /\ m \in Int /\ \A i \in (n + 1)..m : h[i] \in Line
    BY <1>1
  <2>2. /\ r \in Seq(Line) /\ Len(r) = IF n + 1 <= m THEN m - (n + 1) + 1 ELSE 0
        /\ \A i \in 1..(m - (n + 1) + 1) : r[i] = h[n + 1 + i - 1]
    BY <2>1, SubSeqProperties
  <2>3. m - (n + 1) + 1 = m - n /\ (~(n + 1 <= m) => m - n = 0)
    BY <1>1
  <2>4. \A i \in 1..(m - n) : n + 1 + i - 1 = n + i
    BY <1>1
  <2> HIDE DEF r
  <2>5. QED
    BY <2>2, <2>3, <2>4
<1> HIDE DEF r
<1>3. a \in Seq(Seq(Token)) /\ Len(a) = n
  <2>1. \A i \in 1..n : h[i] \in Line
    BY <1>1
  <2>2. \A i \in 1..n : h[i].msg \in Seq(Token)
    BY <2>1 DEF Line
  <2>3. a \in [1..n -> Seq(Token)]
    BY <2>2
  <2> HIDE DEF a
  <2>4. QED
    BY <1>1, <2>3, FunctionIsSeq
<1>4. c \in Seq(Seq(Token)) /\ Len(c) = m - n /\ f \in Seq(Seq(Token)) /\ Len(f) = m /\ Bytes(r) \in Nat
  <2>1. h \in Seq(Line) /\ r \in Seq(Line)
    BY <1>2
  <2>2. c \in Seq(Seq(Token)) /\ Len(c) = Len(r) /\ Bytes(r) \in Nat
    BY <2>1, MessagesOf
  <2>3. f \in Seq(Seq(Token)) /\ Len(f) = Len(h)
    BY <2>1, MessagesOf
  <2> HIDE DEF c, f
  <2>4. QED
    BY <1>1, <1>2, <2>2, <2>3
<1>5. f = a \o c
  <2>1. DOMAIN r = 1..(m - n)
    BY <1>2, LenProperties
  <2>2. /\ \A i \in 1..n : a[i] = h[i].msg
        /\ \A i \in 1..(m - n) : c[i] = h[n + i].msg
        /\ \A i \in 1..m : f[i] = h[i].msg
    BY <1>1, <1>2, <2>1
  <2> HIDE DEF a, c, f, m
  <2>3. /\ a \o c \in Seq(Seq(Token)) /\ Len(a \o c) = m
        /\ \A i \in 1..m : (a \o c)[i] = IF i <= n THEN a[i] ELSE c[i - n]
    <3>1. Len(a) + Len(c) = m
      BY <1>1, <1>3, <1>4
    <3>2. QED
      BY <1>3, <1>4, <3>1, ConcatProperties
  <2>4. ASSUME NEW i \in 1..m PROVE f[i] = (a \o c)[i]
    <3>1. CASE i <= n
      BY <1>1, <2>2, <2>3, <3>1
    <3>2. CASE ~(i <= n)
      <4>1. i - n \in 1..(m - n) /\ n + (i - n) = i
        BY <1>1, <3>2
      <4>2. QED
        BY <2>2, <2>3, <3>2, <4>1
    <3>3. QED
      BY <3>1, <3>2
  <2>5. QED
    BY <1>4, <2>3, <2>4, SeqEqual
<1> HIDE DEF a, c, f
<1>6. FlattenSeq(f) = FlattenSeq(a) \o FlattenSeq(c)
  BY <1>3, <1>4, <1>5, FlattenConcat
<1>7. FlattenSeq(a) \in Seq(Token) /\ FlattenSeq(c) \in Seq(Token)
  BY <1>3, <1>4, FlattenType
<1>8. /\ Len(FlattenSeq(f)) = Len(FlattenSeq(a)) + Len(FlattenSeq(c))
      /\ Len(FlattenSeq(a)) \in Nat
  BY <1>6, <1>7, ConcatProperties, LenProperties
<1>9. QED
  BY <1>2, <1>8 DEF Bytes, a, c, f, r, m

\* Room was made, or nothing is left.
LEMMA EvictionsFit ==
    ASSUME TypeOK, NEW msg \in Seq(Token)
    PROVE  \/ Evictions(msg) = Len(b.history)
           \/ b.size - Refunds(Evictions(msg)) + Len(msg) <= Limit
<1> DEFINE T == {n \in 0..Len(b.history) :
                    n = Len(b.history) \/ b.size - Refunds(n) + Len(msg) <= Limit}
<1>1. Len(b.history) \in Nat
  BY Fields, LenProperties
<1>2. T \subseteq Nat /\ T # {}
  BY <1>1
<1>3. Evictions(msg) = Min(T)
  BY DEF Evictions
<1> HIDE DEF T
<1>4. Evictions(msg) \in T
  BY <1>2, <1>3, SmallestOf
<1>5. QED
  BY <1>4 DEF T

\* A line gives back what it was charged and one Overhead more.
LEMMA Refunded ==
    ASSUME NEW s \in Int, NEW o \in Int, NEW m \in Int, NEW l \in Int, NEW n \in Int,
           NEW gone \in Int, NEW left \in Int, NEW more \in Int, s + o * (m - l) = gone + left
    PROVE  (s - (gone + n * o) + more) + o * (m - (l - n)) = left + more
<1>1. o * (m - (l - n)) = o * (m - l) + n * o
  <2>1. \A x, y, z \in Int : x * (y + z) = x * y + z * x
    OBVIOUS
  <2>2. m - (l - n) = (m - l) + n
    OBVIOUS
  <2>3. QED
    BY <2>1, <2>2
<1> DEFINE p == o * (m - l)
           q == n * o
<1>2. p \in Int /\ q \in Int
  OBVIOUS
<1>3. s + p = gone + left
  OBVIOUS
<1>4. o * (m - (l - n)) = p + q
  BY <1>1
<1> HIDE DEF p, q
<1>5. (s - (gone + q) + more) + (p + q) = left + more
  BY <1>2, <1>3
<1>6. QED
  BY <1>4, <1>5 DEF q

\* What neither counts a line nor keeps one leaves the account as it was.
LEMMA AccountStays ==
    ASSUME Accounted, b'.size = b.size, b'.num = b.num, b'.history = b.history,
           \A w \in Writers : (Counted(w)' <=> Counted(w)) /\ (Counted(w) => proc'[w].line = proc[w].line)
    PROVE  Accounted'
<1>1. /\ \A w \in Writers : Counted(w)' =>
            /\ Balanced(b'.size, b'.num - 1, b'.history, Len(proc'[w].line.msg))
            /\ Len(b'.history) > 0 => b'.size <= Limit
      /\ (\A w \in Writers : ~Counted(w)') =>
            /\ Balanced(b'.size, b'.num, b'.history, 0)
            /\ Len(b'.history) > 1 => b'.size <= Limit
  <2> HIDE DEF Counted
  <2>1. QED
    BY DEF Accounted
<1>2. QED
  BY <1>1 DEF Accounted, Balanced, Bytes

\* Admit makes room by what Refunds says and charges the line.
LEMMA AdmitAccount ==
    ASSUME IInv, Accounted, ~step.overtaken, NEW w \in Writers, Admit(w)
    PROVE  Accounted'
<1> DEFINE msg == proc[w].line.msg
           e == Evictions(msg)
           gone == Len(FlattenSeq([i \in 1..e |-> b.history[i].msg]))
           h == SubSeq(b.history, e + 1, Len(b.history))
<1>1. /\ TypeOK /\ b.num \in Nat /\ b.size \in Int /\ b.history \in Seq(Line)
      /\ proc[w].line \in Line /\ proc \in [Writers -> Frame] /\ Overhead \in Nat
      /\ Len(b.history) \in Nat
  BY Fields, LenProperties, LiveLogAssumption DEF IInv, TypeOK, Frame
<1>2. msg \in Seq(Token) /\ Len(msg) \in Nat
  BY <1>1, LenProperties DEF Line
<1>3. \A v \in Writers : ~Counted(v)
  <2>1. ~Out(w) /\ proc[w].pc = "admit"
    BY DEF Admit, InWrite, Out
  <2>2. \A v \in Writers : v # w => Out(v)
    BY <2>1, AloneInWrite
  <2>3. QED
    BY <2>1, <2>2 DEF Counted, Out
<1>4. Balanced(b.size, b.num, b.history, 0)
  BY <1>3 DEF Accounted
<1>5. /\ b'.history = h /\ b'.size = b.size - Refunds(e) + Len(msg) /\ b'.num = b.num + 1
      /\ proc' = [proc EXCEPT ![w].pc = "stopped"]
  <2>1. /\ b' = [b EXCEPT !.history = SubSeq(@, e + 1, Len(@)),
                          !.size = @ - Refunds(e) + Len(msg), !.num = @ + 1]
        /\ proc' = [proc EXCEPT ![w].pc = "stopped"]
    BY DEF Admit
  <2> HIDE DEF msg, e
  <2>2. QED
    BY <1>1, <2>1 DEF TypeOK
<1> HIDE DEF msg
<1>6. e \in 0..Len(b.history)
  BY <1>1, <1>2, EvictionsType
<1>7. e = Len(b.history) \/ b.size - Refunds(e) + Len(msg) <= Limit
  BY <1>1, <1>2, EvictionsFit
<1> HIDE DEF e
<1>8. Bytes(b.history) = gone + Bytes(h) /\ gone \in Nat /\ h \in Seq(Line) /\ Len(h) = Len(b.history) - e
  BY <1>1, <1>6, BytesEvict
<1>9. Bytes(h) \in Nat
  BY <1>8, MessagesOf
<1>10. Refunds(e) = gone + e * Overhead
  BY DEF Refunds
<1> HIDE DEF h, gone
<1>11. Balanced(b'.size, b'.num - 1, b'.history, Len(msg))
  <2>1. b.size + Overhead * (b.num - Len(b.history)) = gone + Bytes(h)
    BY <1>4, <1>8, <1>9 DEF Balanced
  <2>2. e \in Int /\ gone \in Int /\ Bytes(h) \in Int /\ Overhead \in Int
    BY <1>1, <1>6, <1>8, <1>9
  <2>3. (b.size - (gone + e * Overhead) + Len(msg)) + Overhead * (b.num - (Len(b.history) - e))
        = Bytes(h) + Len(msg)
    <3> DEFINE s == b.size
               m == b.num
               l == Len(b.history)
               left == Bytes(h)
               more == Len(msg)
    <3>1. s \in Int /\ m \in Int /\ l \in Int /\ left \in Int /\ more \in Int
      BY <1>1, <1>2, <2>2
    <3>2. s + Overhead * (m - l) = gone + left
      BY <2>1
    <3> HIDE DEF s, m, l, left, more
    <3>3. (s - (gone + e * Overhead) + more) + Overhead * (m - (l - e)) = left + more
      BY <2>2, <3>1, <3>2, Refunded
    <3>4. QED
      BY <3>3 DEF s, m, l, left, more
  <2>4. b'.num - 1 = b.num
    BY <1>1, <1>5
  <2>5. QED
    BY <1>5, <1>8, <1>10, <2>3, <2>4 DEF Balanced
<1>12. Len(b'.history) > 0 => b'.size <= Limit
  BY <1>1, <1>5, <1>6, <1>7, <1>8
<1>13. /\ Counted(w)' /\ proc'[w].line = proc[w].line
       /\ \A v \in Writers : v # w => ~Counted(v)'
  <2>1. /\ proc'[w].pc = "stopped" /\ proc'[w].line = proc[w].line
        /\ \A v \in Writers : v # w => proc'[v] = proc[v]
    BY <1>1, <1>5 DEF Frame
  <2>2. QED
    BY <1>3, <2>1 DEF Counted
<1>14. QED
  <2>1. /\ \A v \in Writers : Counted(v)' =>
              /\ Balanced(b'.size, b'.num - 1, b'.history, Len(proc'[v].line.msg))
              /\ Len(b'.history) > 0 => b'.size <= Limit
        /\ ~(\A v \in Writers : ~Counted(v)')
    <3> HIDE DEF Counted
    <3>1. QED
      BY <1>11, <1>12, <1>13 DEF msg
  <2>2. QED
    BY <2>1 DEF Accounted, Balanced, Bytes

\* Keep puts the line that was counted into the history.
LEMMA KeepAccount ==
    ASSUME IInv, Accounted, ~step.overtaken, NEW w \in Writers, Keep(w)
    PROVE  Accounted'
<1> DEFINE ln == proc[w].line
           h == Append(b.history, ln)
<1>1. /\ TypeOK /\ b.num \in Nat /\ b.size \in Int /\ b.history \in Seq(Line)
      /\ ln \in Line /\ proc \in [Writers -> Frame] /\ Overhead \in Nat
      /\ Len(b.history) \in Nat
  BY Fields, LenProperties, LiveLogAssumption DEF IInv, TypeOK, Frame
<1>2. ln.msg \in Seq(Token) /\ Len(ln.msg) \in Nat
  BY <1>1, LenProperties DEF Line
<1>3. Counted(w) /\ \A v \in Writers : v # w => ~Counted(v)
  <2>1. ~Out(w) /\ proc[w].pc = "keep"
    BY DEF Keep, InWrite, Out
  <2>2. \A v \in Writers : v # w => Out(v)
    BY <2>1, AloneInWrite
  <2>3. QED
    BY <2>1, <2>2 DEF Counted, Out
<1>4. Balanced(b.size, b.num - 1, b.history, Len(ln.msg)) /\ (Len(b.history) > 0 => b.size <= Limit)
  <2> HIDE DEF Counted
  <2>1. QED
    BY <1>3 DEF Accounted
<1>5. /\ b'.history = h /\ b'.size = b.size /\ b'.num = b.num
      /\ proc' = [proc EXCEPT ![w].pc = "parts", ![w].line = NoLine]
  <2>1. /\ b' = [b EXCEPT !.history = Append(@, ln)]
        /\ proc' = [proc EXCEPT ![w].pc = "parts", ![w].line = NoLine]
    BY DEF Keep
  <2> HIDE DEF ln
  <2>2. QED
    BY <1>1, <2>1 DEF TypeOK
<1> HIDE DEF ln
<1>6. Len(h) = Len(b.history) + 1 /\ Bytes(h) = Bytes(b.history) + Len(ln.msg) /\ Bytes(b.history) \in Nat
  <2>1. Len(h) = Len(b.history) + 1
    BY <1>1, AppendProperties
  <2>2. Bytes(h) = Bytes(b.history) + Len(ln.msg) /\ Bytes(b.history) \in Nat
    BY <1>1, BytesAppend, MessagesOf
  <2>3. QED
    BY <2>1, <2>2
<1> HIDE DEF h
<1>7. Balanced(b'.size, b'.num, b'.history, 0)
  <2>1. b.num - 1 - Len(b.history) = b.num - Len(h)
    <3> DEFINE m == b.num
               l == Len(b.history)
    <3>1. m \in Int /\ l \in Int /\ Len(h) = l + 1
      BY <1>1, <1>6
    <3> HIDE DEF m, l
    <3>2. m - 1 - l = m - Len(h)
      BY <3>1
    <3>3. QED
      BY <3>2 DEF m, l
  <2>2. b.size + Overhead * (b.num - Len(h)) = Bytes(h)
    BY <1>4, <1>6, <2>1 DEF Balanced
  <2>3. Bytes(h) + 0 = Bytes(h)
    BY <1>2, <1>6
  <2>4. QED
    BY <1>5, <2>2, <2>3 DEF Balanced
<1>8. Len(b'.history) > 1 => b'.size <= Limit
  BY <1>1, <1>4, <1>5, <1>6
<1>9. \A v \in Writers : ~Counted(v)'
  <2>1. /\ proc'[w].pc = "parts" /\ \A v \in Writers : v # w => proc'[v] = proc[v]
    BY <1>1, <1>5 DEF Frame
  <2>2. QED
    BY <1>3, <2>1 DEF Counted
<1>10. QED
  <2>1. /\ \A v \in Writers : ~Counted(v)'
        /\ Balanced(b'.size, b'.num, b'.history, 0)
        /\ Len(b'.history) > 1 => b'.size <= Limit
    BY <1>7, <1>8, <1>9
  <2>2. QED
    BY <2>1 DEF Accounted, Balanced, Bytes

\* The other steps of a Write move no line to the account or from it.
LEMMA WriteStepAccount ==
    ASSUME IInv, Accounted, ~step.overtaken, NEW w \in Writers, WriteStep(w)
    PROVE  Accounted'
<1>1. /\ TypeOK /\ proc \in [Writers -> Frame]
  BY DEF IInv, TypeOK, Frame
<1>2. CASE Admit(w)
  BY <1>2, AdmitAccount
<1>3. CASE Keep(w)
  BY <1>3, KeepAccount
<1>4. CASE WritePrev(w) \/ NewLine(w) \/ Signal(w)
  <2>1. /\ b'.size = b.size /\ b'.num = b.num /\ b'.history = b.history
    BY <1>1, <1>4
       DEF TypeOK, WritePrev, WriteNoNewline, WriteNewline, NewLine, Signal
  <2>2. /\ proc[w].pc \in {"prev", "parts"} /\ proc'[w].pc \in {"out", "parts", "admit"}
        /\ \A v \in Writers : v # w => proc'[v] = proc[v]
    <3>1. CASE WritePrev(w)
      <4> DEFINE parts == Split(proc[w].read \o UpToLast(proc[w].data))
      <4>1. /\ proc[w].pc = "prev"
            /\ \/ proc' = [proc EXCEPT ![w].pc = "out", ![w].data = <<>>, ![w].read = <<>>]
               \/ proc' = [proc EXCEPT ![w].pc = "parts", ![w].data = <<>>, ![w].read = <<>>,
                                       ![w].todo = parts]
        BY <3>1 DEF WritePrev, WriteNoNewline, WriteNewline, InWrite
      <4> HIDE DEF parts
      <4>2. QED
        BY <1>1, <4>1 DEF Frame
    <3>2. CASE NewLine(w)
      <4> DEFINE ln == Number(w)
      <4>1. proc[w].pc = "parts"
        BY <3>2 DEF NewLine, InWrite
      <4>2. proc' = [proc EXCEPT ![w].pc = "admit", ![w].line = ln, ![w].todo = Tail(@)]
        BY <3>2 DEF NewLine
      <4> HIDE DEF ln
      <4>3. QED
        BY <1>1, <4>1, <4>2 DEF Frame
    <3>3. CASE Signal(w)
      BY <1>1, <3>3 DEF Frame, Signal, InWrite
    <3>4. QED
      BY <1>4, <3>1, <3>2, <3>3
  <2>3. \A v \in Writers : (Counted(v)' <=> Counted(v)) /\ (Counted(v) => proc'[v].line = proc[v].line)
    BY <2>2 DEF Counted
  <2>4. QED
    BY <2>1, <2>3, AccountStays
<1>5. CASE TestStopped(w) \/ Push(w)
  <2>1. /\ b'.size = b.size /\ b'.num = b.num /\ b'.history = b.history
    BY <1>1, <1>5 DEF TypeOK, TestStopped, Push
  <2>2. /\ proc[w].pc \in {"stopped", "push"} /\ proc'[w].pc \in {"push", "keep"}
        /\ proc'[w].line = proc[w].line
        /\ \A v \in Writers : v # w => proc'[v] = proc[v]
    BY <1>1, <1>5 DEF Frame, TestStopped, Push, InWrite
  <2>3. \A v \in Writers : (Counted(v)' <=> Counted(v)) /\ (Counted(v) => proc'[v].line = proc[v].line)
    BY <2>2 DEF Counted
  <2>4. QED
    BY <2>1, <2>3, AccountStays
<1>6. QED
  BY <1>2, <1>3, <1>4, <1>5 DEF WriteStep

\* A Write that begins has counted nothing.
LEMMA BeginAccount ==
    ASSUME IInv, Accounted, NEW w \in Writers, NEW p, WriteBegin(w, p),
           b'.size = b.size, b'.num = b.num, b'.history = b.history
    PROVE  Accounted'
<1>1. proc \in [Writers -> Frame]
  BY DEF IInv, TypeOK, Frame
<1>2. /\ proc[w].pc = "out" /\ proc'[w].pc = "prev"
      /\ \A v \in Writers : v # w => proc'[v] = proc[v]
  BY <1>1 DEF Frame, WriteBegin
<1>3. \A v \in Writers : (Counted(v)' <=> Counted(v)) /\ (Counted(v) => proc'[v].line = proc[v].line)
  BY <1>2 DEF Counted
<1>4. QED
  BY <1>3, AccountStays

\* Once overtaken, always overtaken.
LEMMA StaysOvertaken ==
    ASSUME TypeOK, [Next]_vars, ~step'.overtaken
    PROVE  ~step.overtaken
<1>1. TypeOK
  OBVIOUS
<1>2. QED
  <2>1. ASSUME NEW shape \in Shapes, CopyChunk(shape) PROVE step'.overtaken = step.overtaken
    <3> DEFINE p == [j \in DOMAIN shape |-> IF shape[j] = "n" THEN NL ELSE step.writes + 1]
    <3>1. step' = [step EXCEPT !.writes = @ + 1, !.input = @ \o p]
      BY <2>1 DEF CopyChunk
    <3> HIDE DEF p
    <3>2. QED
      BY <1>1, <3>1 DEF TypeOK
  <2>2. CASE CopyEnd
    BY <1>1, <2>2 DEF TypeOK, CopyEnd
  <2>3. CASE WriteRest
    <3>1. \E p : step' = [step EXCEPT !.rest = TRUE, !.input = p]
      BY <2>3 DEF WriteRest
    <3>2. QED
      BY <1>1, <3>1 DEF TypeOK
  <2>4. ASSUME Remark \/ Stop PROVE ~step.overtaken
    <3> DEFINE o == step.overtaken \/ step.copying
               k == step.input \o <<step.writes + 1, NL>>
    <3>1. \/ step' = [step EXCEPT !.overtaken = o, !.writes = @ + 1, !.input = k]
          \/ step' = [step EXCEPT !.overtaken = o]
      BY <2>4 DEF Remark, Stop, Overtaken
    <3> HIDE DEF o, k
    <3>2. ~o
      BY <1>1, <3>1 DEF TypeOK
    <3>3. QED
      BY <3>2 DEF o
  <2>5. ASSUME NEW w \in Writers, WriteStep(w) PROVE step' = step
    BY <2>5
       DEF WriteStep, InWrite, WritePrev, NewLine, Admit, TestStopped, Push, Keep, Signal
  <2>6. CASE Flusher \/ Open \/ Return
    BY <2>6
       DEF Flusher, FlusherEnd, FlusherArm, FlusherCopy, FlusherSend, FlusherMove, Open, Return
  <2>7. CASE NoRest \/ CloseCopy \/ CloseSend \/ CheckErrInLogs \/ Upload
    BY <2>7 DEF NoRest, CloseCopy, CloseSend, CheckErrInLogs, Upload
  <2>8. CASE UNCHANGED vars
    BY <2>8 DEF vars
  <2>9. QED
    BY <2>1, <2>2, <2>3, <2>4, <2>5, <2>6, <2>7, <2>8 DEF Next, CloseStep

\* Nothing but Admit and Keep moves the account and the history.
LEMMA NextAccount == AccountInv /\ [Next]_vars => AccountInv'
<1> SUFFICES ASSUME IInv, ~step.overtaken => Accounted, [Next]_vars, ~step'.overtaken
             PROVE  Accounted'
  BY NextInv DEF AccountInv
<1>1. TypeOK
  BY DEF IInv
<1>2. ~step.overtaken
  BY <1>1, StaysOvertaken
<1>3. Accounted
  BY <1>2
<1>4. ASSUME NEW w \in Writers, WriteStep(w) PROVE Accounted'
  BY <1>2, <1>3, <1>4, WriteStepAccount
<1>5. ASSUME NEW shape \in Shapes, CopyChunk(shape) PROVE Accounted'
  <2>1. PICK p : WriteBegin("copier", p) /\ UNCHANGED b
    BY <1>5 DEF CopyChunk, CopyOnly
  <2>2. QED
    BY <1>3, <2>1, BeginAccount DEF Writers
<1>6. CASE Remark \/ WriteRest
  <2>1. PICK p : WriteBegin("runner", p) /\ UNCHANGED b
    BY <1>6 DEF Remark, WriteRest
  <2>2. QED
    BY <1>3, <2>1, BeginAccount DEF Writers
<1>7. ASSUME proc' = proc, b'.size = b.size, b'.num = b.num, b'.history = b.history
      PROVE  Accounted'
  BY <1>3, <1>7, AccountStays DEF Counted
<1>8. CASE CopyEnd \/ Flusher \/ Open \/ Return \/ Stop
  <2>1. /\ proc' = proc /\ b'.size = b.size /\ b'.num = b.num /\ b'.history = b.history
    BY <1>1, <1>8
       DEF TypeOK, CopyEnd, CopyOnly, Flusher, FlusherEnd, FlusherArm, FlusherCopy, FlusherSend,
           FlusherMove, FlushCopy, Open, Return, Stop
  <2>2. QED
    BY <1>7, <2>1
<1>9. CASE NoRest \/ CloseCopy \/ CloseSend \/ CheckErrInLogs \/ Upload
  <2>1. /\ proc' = proc /\ b'.size = b.size /\ b'.num = b.num /\ b'.history = b.history
    BY <1>1, <1>9 DEF TypeOK, NoRest, CloseCopy, FlushCopy, CloseSend, CheckErrInLogs, Upload
  <2>2. QED
    BY <1>7, <2>1
<1>10. CASE UNCHANGED vars
  BY <1>7, <1>10 DEF vars
<1>11. QED
  BY <1>4, <1>5, <1>6, <1>8, <1>9, <1>10 DEF Next, CloseStep

LEMMA InitAccount == Init => AccountInv
<1> SUFFICES ASSUME Init PROVE Accounted
  BY InitInv DEF AccountInv
<1>1. b.size = 0 /\ b.num = 0 /\ b.history = <<>> /\ \A w \in Writers : ~Counted(w)
  BY DEF Init, Counted
<1>2. Overhead \in Nat /\ Len(<<>>) = 0 /\ Bytes(<<>>) = 0
  <2>1. [i \in DOMAIN <<>> |-> <<>>[i].msg] = <<>>
    OBVIOUS
  <2>2. QED
    BY <2>1, FlattenEmpty, LiveLogAssumption DEF Bytes
<1>3. Balanced(0, 0, <<>>, 0)
  BY <1>2 DEF Balanced
<1>4. QED
  BY <1>1, <1>2, <1>3 DEF Accounted

(* Between two Writes the account of the kept history is off by the Overhead *)
(* of every line evicted and by nothing else, so the history exceeds the     *)
(* limit by no more than that (livelog.go:124-149).                          *)
THEOREM KeptWithinDriftAlways == Spec => []KeptWithinDrift
<1>1. AccountInv => KeptWithinDrift
  <2> SUFFICES ASSUME AccountInv, ~step.overtaken, \A w \in Writers : proc[w].pc = "out"
               PROVE  LET drift == Overhead * (b.num - Len(b.history)) IN
                      /\ b.size = Bytes(b.history) - drift
                      /\ Len(b.history) > 1 => Bytes(b.history) <= Limit + drift
    BY DEF KeptWithinDrift
  <2> DEFINE drift == Overhead * (b.num - Len(b.history))
  <2>1. /\ b.size \in Int /\ Bytes(b.history) \in Nat /\ Limit \in Nat
    BY Fields, MessagesOf, LiveLogAssumption DEF AccountInv, IInv
  <2>2. drift \in Int
    BY Fields, LenProperties, LiveLogAssumption DEF AccountInv, IInv
  <2>3. \A w \in Writers : ~Counted(w)
    BY DEF Counted
  <2>4. b.size + drift = Bytes(b.history) + 0 /\ (Len(b.history) > 1 => b.size <= Limit)
    BY <2>3 DEF AccountInv, Accounted, Balanced
  <2> HIDE DEF drift
  <2>5. b.size = Bytes(b.history) - drift /\ (Len(b.history) > 1 => Bytes(b.history) <= Limit + drift)
    BY <2>1, <2>2, <2>4
  <2>6. QED
    BY <2>5 DEF drift
<1>2. Init => AccountInv
  BY InitAccount
<1>3. AccountInv /\ [Next]_vars => AccountInv'
  BY NextAccount
<1>4. QED
  BY <1>1, <1>2, <1>3, PTL DEF Spec

-----------------------------------------------------------------------------
(* What is on its way to the stream, by the numbers of its lines.  Every     *)
(* line that was offered is, but for the one that Close ends: closed by      *)
(* then, the writer offers it to nobody.                                     *)

Nums(lines) == {lines[i].num : i \in DOMAIN lines}

Sent == Nums(stream) \cup Nums(batch["flusher"]) \cup Nums(batch["runner"]) \cup Nums(b.pending)

Whole ==
    /\ step.rest => /\ runner \notin {"open", "run", "ran", "rest"}
                    /\ \A w \in Writers : proc[w].pc # "push"
    /\ runner = "flush" /\ ~Out("runner") => step.rest
    /\ b.opened # "failed" => Sent = 0..(IF step.rest THEN Len(Lines) - 2 ELSE Offered - 1)

DropInv == IInv /\ (~step.overtaken => Whole)

LEMMA NumsOfNone == Nums(<<>>) = {}
BY DEF Nums

LEMMA NumsConcat ==
    ASSUME NEW s \in Seq(Line), NEW t \in Seq(Line)
    PROVE  Nums(s \o t) = Nums(s) \cup Nums(t)
<1> DEFINE a == s \o t
           m == Len(s)
           n == Len(t)
<1>1. /\ m \in Nat /\ n \in Nat /\ DOMAIN s = 1..m /\ DOMAIN t = 1..n
      /\ a \in Seq(Line) /\ Len(a) = m + n
      /\ \A i \in 1..(m + n) : a[i] = IF i <= m THEN s[i] ELSE t[i - m]
  BY ConcatProperties, LenProperties
<1>2. DOMAIN a = 1..(m + n)
  BY <1>1, LenProperties
<1> HIDE DEF a, m, n
<1>3. \A i \in 1..(m + n) : (i \in 1..m /\ a[i] = s[i]) \/ (i - m \in 1..n /\ a[i] = t[i - m])
  BY <1>1
<1>4. \A i \in 1..m : i \in 1..(m + n) /\ a[i] = s[i]
  BY <1>1
<1>5. ASSUME NEW i \in 1..n PROVE i + m \in 1..(m + n) /\ a[i + m] = t[i]
  <2>1. i + m \in 1..(m + n) /\ ~(i + m <= m) /\ (i + m) - m = i
    BY <1>1
  <2>2. a[i + m] = IF i + m <= m THEN s[i + m] ELSE t[(i + m) - m]
    BY <1>1, <2>1
  <2>3. a[i + m] = t[(i + m) - m]
    BY <2>1, <2>2
  <2>4. QED
    BY <2>1, <2>3
<1>6. Nums(a) = Nums(s) \cup Nums(t)
  <2>1. Nums(a) \subseteq Nums(s) \cup Nums(t)
    BY <1>1, <1>2, <1>3 DEF Nums
  <2>2. Nums(s) \subseteq Nums(a)
    BY <1>1, <1>2, <1>4 DEF Nums
  <2>3. Nums(t) \subseteq Nums(a)
    <3>1. ASSUME NEW i \in 1..n PROVE t[i].num \in Nums(a)
      BY <1>2, <1>5 DEF Nums
    <3>2. QED
      BY <1>1, <3>1 DEF Nums
  <2>4. QED
    BY <2>1, <2>2, <2>3
<1>7. QED
  BY <1>6 DEF a

LEMMA NumsAppend ==
    ASSUME NEW s \in Seq(Line), NEW e \in Line
    PROVE  Nums(Append(s, e)) = Nums(s) \cup {e.num}
<1>1. Append(s, e) = s \o <<e>> /\ <<e>> \in Seq(Line)
  BY AppendIsConcat, OneElement
<1>2. Nums(<<e>>) = {e.num}
  BY DEF Nums
<1>3. QED
  BY <1>1, <1>2, NumsConcat

\* flush takes nothing away: what it clears it has copied, what it has copied it sends.
LEMMA FlushKeepsSent ==
    ASSUME TypeOK, NEW f \in {"flusher", "runner"},
           \/ FlushCopy(f) /\ batch[f] = <<>> /\ UNCHANGED stream
           \/ FlushSend(f) /\ UNCHANGED b
    PROVE  Sent' = Sent
<1>1. /\ stream \in Seq(Line) /\ batch[f] \in Seq(Line)
      /\ batch \in [{"runner", "flusher"} -> Seq(Line)]
  BY DEF TypeOK
<1>2. CASE FlushCopy(f) /\ batch[f] = <<>> /\ UNCHANGED stream
  <2>1. /\ batch'[f] = b.pending /\ b'.pending = <<>> /\ stream' = stream
        /\ \A g \in {"flusher", "runner"} \ {f} : batch'[g] = batch[g]
    BY <1>1, <1>2 DEF FlushCopy, TypeOK
  <2>2. QED
    BY <1>2, <2>1, NumsOfNone DEF Sent
<1>3. CASE FlushSend(f) /\ UNCHANGED b
  <2>1. /\ batch'[f] = <<>> /\ b' = b /\ stream' = stream \o batch[f]
        /\ \A g \in {"flusher", "runner"} \ {f} : batch'[g] = batch[g]
    BY <1>1, <1>3 DEF FlushSend
  <2>2. Nums(stream') = Nums(stream) \cup Nums(batch[f])
    BY <1>1, <2>1, NumsConcat
  <2>3. QED
    BY <2>1, <2>2, NumsOfNone DEF Sent
<1>4. QED
  BY <1>2, <1>3

\* What the steps that move no line and end none do to the count.
LEMMA WholeStays ==
    ASSUME Whole, Sent' = Sent, Offered' = Offered, step'.rest = step.rest,
           step.rest => Lines' = Lines, b'.opened # "failed" => b.opened # "failed",
           step.rest => runner' \notin {"open", "run", "ran", "rest"},
           \A w \in Writers : proc'[w].pc = "push" => proc[w].pc = "push",
           runner' = "flush" /\ ~Out("runner")' => runner = "flush" /\ ~Out("runner")
    PROVE  Whole'
BY DEF Whole

\* Whoever finds the writer closed, of a stream that did not fail, logs what Close has ended.
LEMMA ClosedIsRest ==
    ASSUME IInv, Whole, ~step.overtaken, b.opened # "failed", b.closed,
           NEW w \in Writers, ~Out(w)
    PROVE  step.rest
<1>1. runner \notin {"open", "run", "ran"}
  BY DEF IInv, Opened
<1>2. w # "copier"
  BY <1>1 DEF IInv, Alternating
<1>3. w = "runner" /\ runner = "flush"
  BY <1>1, <1>2 DEF IInv, Alternating, Writers
<1>4. QED
  BY <1>3 DEF Whole

LEMMA WriteStepWhole ==
    ASSUME IInv, Whole, ~step.overtaken, NEW w \in Writers, WriteStep(w)
    PROVE  Whole'
<1>1. TypeOK /\ proc \in [Writers -> Frame] /\ proc[w].line \in Line /\ b.num \in Nat
      /\ b.pending \in Seq(Line) /\ "runner" \in Writers
  BY Fields DEF IInv, TypeOK, Frame, Writers
<1>2. PICK l \in {"prev", "parts", "admit", "stopped", "push", "keep"} : InWrite(w, l)
  BY DEF WriteStep, WritePrev, NewLine, Admit, TestStopped, Push, Keep, Signal
<1>3. /\ UNCHANGED <<runner, flusher, batch, step, stream, uploaded>> /\ Lines' = Lines /\ ~Out(w)
  BY <1>2 DEF InWrite, Lines, Out
<1>4. ASSUME NEW v \in Writers \ {w} PROVE proc'[v] = proc[v]
  BY <1>1
     DEF WriteStep, WritePrev, WriteNoNewline, WriteNewline, NewLine, Admit, TestStopped, Push,
         Keep, Signal, Frame
<1>5. Out("runner") => Out("runner")'
  BY <1>1, <1>3, <1>4 DEF Out
<1>6. /\ Offered  = IF proc[w].pc \in {"stopped", "push"} THEN b.num - 1 ELSE b.num
      /\ Offered' = IF proc'[w].pc \in {"stopped", "push"} THEN b'.num - 1 ELSE b'.num
  BY <1>3, <1>4, AloneInWrite, AloneThen
<1>7. CASE WritePrev(w) \/ NewLine(w) \/ Signal(w)
  <2>1. /\ b'.pending = b.pending /\ b'.num = b.num /\ b'.closed = b.closed /\ b'.opened = b.opened
    BY <1>1, <1>7 DEF TypeOK, WritePrev, WriteNoNewline, WriteNewline, NewLine, Signal
  <2>2. proc[w].pc \in {"prev", "parts"} /\ proc'[w].pc \in {"out", "parts", "admit"}
    <3>1. CASE WritePrev(w)
      <4> DEFINE parts == Split(proc[w].read \o UpToLast(proc[w].data))
      <4>1. /\ proc[w].pc = "prev"
            /\ \/ proc' = [proc EXCEPT ![w].pc = "out", ![w].data = <<>>, ![w].read = <<>>]
               \/ proc' = [proc EXCEPT ![w].pc = "parts", ![w].data = <<>>, ![w].read = <<>>,
                                       ![w].todo = parts]
        BY <3>1 DEF WritePrev, WriteNoNewline, WriteNewline, InWrite
      <4> HIDE DEF parts
      <4>2. QED
        BY <1>1, <4>1 DEF Frame
    <3>2. CASE NewLine(w)
      <4> DEFINE ln == Number(w)
      <4>1. proc[w].pc = "parts"
        BY <3>2 DEF NewLine, InWrite
      <4>2. proc' = [proc EXCEPT ![w].pc = "admit", ![w].line = ln, ![w].todo = Tail(@)]
        BY <3>2 DEF NewLine
      <4> HIDE DEF ln
      <4>3. QED
        BY <1>1, <4>1, <4>2 DEF Frame
    <3>3. CASE Signal(w)
      BY <1>1, <3>3 DEF Frame, Signal, InWrite
    <3>4. QED
      BY <1>7, <3>1, <3>2, <3>3
  <2>3. Sent' = Sent /\ Offered' = Offered
    BY <1>3, <1>6, <2>1, <2>2 DEF Sent
  <2>4. \A v \in Writers : proc'[v].pc = "push" => proc[v].pc = "push"
    BY <1>4, <2>2
  <2>5. QED
    BY <1>3, <1>5, <2>1, <2>3, <2>4, WholeStays DEF Whole
<1>8. CASE Admit(w)
  <2>1. /\ b'.pending = b.pending /\ b'.num = b.num + 1 /\ b'.closed = b.closed /\ b'.opened = b.opened
    BY <1>1, <1>8 DEF TypeOK, Admit
  <2>2. proc[w].pc = "admit" /\ proc'[w].pc = "stopped"
    BY <1>1, <1>8 DEF Admit, InWrite, Frame
  <2>3. Sent' = Sent /\ Offered' = Offered
    BY <1>1, <1>3, <1>6, <2>1, <2>2 DEF Sent
  <2>4. \A v \in Writers : proc'[v].pc = "push" => proc[v].pc = "push"
    BY <1>4, <2>2
  <2>5. QED
    BY <1>3, <1>5, <2>1, <2>3, <2>4, WholeStays DEF Whole
<1>9. CASE Keep(w)
  <2>1. /\ b'.pending = b.pending /\ b'.num = b.num /\ b'.closed = b.closed /\ b'.opened = b.opened
    BY <1>1, <1>9 DEF TypeOK, Keep
  <2>2. proc[w].pc = "keep" /\ proc'[w].pc = "parts"
    BY <1>1, <1>9 DEF Keep, InWrite, Frame
  <2>3. Sent' = Sent /\ Offered' = Offered
    BY <1>1, <1>3, <1>6, <2>1, <2>2 DEF Sent
  <2>4. \A v \in Writers : proc'[v].pc = "push" => proc[v].pc = "push"
    BY <1>4, <2>2
  <2>5. QED
    BY <1>3, <1>5, <2>1, <2>3, <2>4, WholeStays DEF Whole
<1>10. CASE TestStopped(w)
  <2>1. b' = b /\ proc[w].pc = "stopped" /\ proc'[w].pc = IF b.closed THEN "keep" ELSE "push"
    BY <1>1, <1>10 DEF TestStopped, InWrite, Frame
  <2>2. Sent' = Sent
    BY <1>3, <2>1 DEF Sent
  <2>3. CASE ~b.closed
    <3>1. ~step.rest /\ Offered' = Offered
      BY <1>6, <2>1, <2>3 DEF IInv, Opened, Whole
    <3>2. QED
      BY <1>3, <1>5, <2>1, <2>2, <3>1 DEF Whole
  <2>4. CASE b.closed
    <3>1. \A v \in Writers : proc'[v].pc = "push" => proc[v].pc = "push"
      BY <1>4, <2>1, <2>4
    <3>2. b.opened # "failed" => step.rest
      BY <1>3, <2>4, ClosedIsRest
    <3>3. QED
      BY <1>3, <1>5, <2>1, <2>2, <3>1, <3>2 DEF Whole
  <2>5. QED
    BY <2>3, <2>4
<1>11. CASE Push(w)
  <2>1. /\ b'.pending = Append(b.pending, proc[w].line) /\ b'.num = b.num
        /\ b'.closed = b.closed /\ b'.opened = b.opened
        /\ proc[w].pc = "push" /\ proc'[w].pc = "keep"
    BY <1>1, <1>11 DEF Push, InWrite, Frame, TypeOK
  <2>2. proc[w].line.num = b.num - 1 /\ b.num > 0
    <3>1. Place(proc[w], b.prev, b.num, step.input)
      BY InParts
    <3>2. QED
      BY <2>1, <3>1 DEF Place, Numbered
  <2>3. Sent' = Sent \cup {b.num - 1}
    BY <1>1, <1>3, <2>1, <2>2, NumsAppend DEF Sent
  <2>4. ~step.rest /\ Offered = b.num - 1 /\ Offered' = b.num
    BY <1>6, <2>1 DEF Whole
  <2>5. 0..(b.num - 1 - 1) \cup {b.num - 1} = 0..(b.num - 1)
    BY <1>1, <2>2
  <2>6. QED
    BY <1>3, <1>5, <2>1, <2>3, <2>4, <2>5 DEF Whole
<1>12. QED
  BY <1>7, <1>8, <1>9, <1>10, <1>11 DEF WriteStep

\* A Write that begins has offered nothing.
LEMMA BeginOffered ==
    ASSUME TypeOK, NEW w \in Writers, NEW p, WriteBegin(w, p), UNCHANGED b
    PROVE  /\ Offered' = Offered
           /\ \A v \in Writers : proc'[v].pc = "push" => proc[v].pc = "push"
           /\ \A v \in Writers \ {w} : proc'[v] = proc[v]
<1>1. proc \in [Writers -> Frame]
  BY DEF TypeOK, Frame
<1>2. /\ proc[w].pc = "out" /\ proc'[w].pc = "prev"
      /\ \A v \in Writers \ {w} : proc'[v] = proc[v]
  BY <1>1 DEF Frame, WriteBegin
<1>3. \A v \in Writers : proc'[v].pc \in {"stopped", "push"} <=> proc[v].pc \in {"stopped", "push"}
  BY <1>2
<1>4. QED
  BY <1>2, <1>3 DEF Offered

\* The line that Close ends is one, and the last.
LEMMA RestWhole ==
    ASSUME IInv, Whole, ~step.overtaken, WriteRest
    PROVE  Whole'
<1>1. /\ runner = "rest" /\ runner' = "flush" /\ WriteBegin("runner", <<NL>>) /\ UNCHANGED b
      /\ step' = [step EXCEPT !.rest = TRUE, !.input = Append(@, NL)]
      /\ UNCHANGED <<flusher, batch, stream, uploaded>>
  BY DEF WriteRest, RunnerMove
<1>2. /\ TypeOK /\ step.input \in Seq(Token) /\ ~step.rest /\ b.closed \in BOOLEAN
  BY <1>1, Fields DEF IInv, Whole
<1>3. step'.rest /\ step'.input = Append(step.input, NL)
  BY <1>1, <1>2 DEF TypeOK
<1>4. \A v \in Writers : Out(v)
  BY <1>1 DEF IInv, Alternating, Writers
<1>5. Offered = Len(Lines) /\ Len(Lines) \in Nat
  <2>1. Offered = b.num /\ b.num = Len(Lines)
    BY <1>4, NobodyInWrite DEF IInv, InOrder, Settled
  <2>2. QED
    BY <2>1, Counts
<1>6. Len(Lines') = Len(Lines) + 1
  <2>1. Lines' = Append(Lines, Append(AfterLast(step.input), NL))
    BY <1>2, <1>3, TokenNL, SplitAppend DEF Lines
  <2>2. Lines \in Seq(Seq(Token)) /\ Append(AfterLast(step.input), NL) \in Seq(Token)
    BY <1>2, TokenNL, SplitType, AfterIs, AppendProperties DEF Lines
  <2>3. QED
    BY <2>1, <2>2, AppendProperties
<1>7. \A w \in Writers : proc'[w].pc # "push"
  BY <1>1, <1>2, <1>4, BeginOffered DEF Out, Writers
<1>8. Sent' = Sent
  BY <1>1 DEF Sent
<1>9. Len(Lines') - 2 = Offered - 1
  BY <1>5, <1>6
<1>10. QED
  BY <1>1, <1>2, <1>3, <1>7, <1>8, <1>9 DEF Whole

LEMMA NextWhole == DropInv /\ [Next]_vars => DropInv'
<1> SUFFICES ASSUME IInv, ~step.overtaken => Whole, [Next]_vars, ~step'.overtaken
             PROVE  Whole'
  BY NextInv DEF DropInv
<1>1. TypeOK
  BY DEF IInv
<1>2. ~step.overtaken
  BY <1>1, StaysOvertaken
<1>3. Whole
  BY <1>2
<1>4. ASSUME NEW w \in Writers, WriteStep(w) PROVE Whole'
  BY <1>2, <1>3, <1>4, WriteStepWhole
<1>5. ASSUME NEW shape \in Shapes, CopyChunk(shape) PROVE Whole'
  <2> DEFINE p == [j \in DOMAIN shape |-> IF shape[j] = "n" THEN NL ELSE step.writes + 1]
  <2>1. /\ WriteBegin("copier", p) /\ UNCHANGED <<b, runner, flusher, batch, stream, uploaded>>
        /\ step' = [step EXCEPT !.writes = @ + 1, !.input = @ \o p] /\ step.copying
    BY <1>5 DEF CopyChunk, CopyOnly
  <2> HIDE DEF p
  <2>2. step'.rest = step.rest
    BY <1>1, <2>1 DEF TypeOK
  <2>3. ~step.rest
    BY <1>2, <1>3, <2>1 DEF IInv, Alternating, Whole
  <2>4. /\ Offered' = Offered /\ \A v \in Writers : proc'[v].pc = "push" => proc[v].pc = "push"
        /\ proc'["runner"] = proc["runner"]
    BY <1>1, <2>1, BeginOffered DEF Writers
  <2>5. Sent' = Sent
    BY <2>1 DEF Sent
  <2>6. QED
    BY <1>3, <2>1, <2>2, <2>3, <2>4, <2>5, WholeStays DEF Out
<1>6. CASE Remark
  <2> DEFINE p == <<step.writes + 1, NL>>
             o == step.overtaken \/ step.copying
  <2>1. /\ WriteBegin("runner", p) /\ UNCHANGED <<b, flusher, batch, stream, uploaded>>
        /\ step' = [step EXCEPT !.overtaken = o, !.writes = @ + 1, !.input = @ \o p]
        /\ runner = "ran" /\ runner' = "ran"
    BY <1>6 DEF Remark, RunnerUses, RunnerMove, Overtaken
  <2> HIDE DEF p, o
  <2>2. step'.rest = step.rest
    BY <1>1, <2>1 DEF TypeOK
  <2>3. ~step.rest
    BY <1>3, <2>1 DEF Whole
  <2>4. Offered' = Offered /\ \A v \in Writers : proc'[v].pc = "push" => proc[v].pc = "push"
    BY <1>1, <2>1, BeginOffered DEF Writers
  <2>5. Sent' = Sent
    BY <2>1 DEF Sent
  <2>6. QED
    BY <1>3, <2>1, <2>2, <2>3, <2>4, <2>5, WholeStays
<1>7. CASE WriteRest
  BY <1>2, <1>3, <1>7, RestWhole
<1>8. ASSUME proc' = proc, b'.num = b.num, step'.rest = step.rest, step'.input = step.input,
             Sent' = Sent, b'.opened # "failed" => b.opened # "failed",
             runner' \in {"open", "run", "ran", "rest"} => runner \in {"open", "run", "ran", "rest"},
             runner' = "flush" => runner = "flush" \/ Out("runner")
      PROVE  Whole'
  <2>1. Offered' = Offered /\ Lines' = Lines /\ (Out("runner")' <=> Out("runner"))
    BY <1>8 DEF Offered, Lines, Out
  <2>2. QED
    BY <1>3, <1>8, <2>1, WholeStays DEF Whole
<1>9. CASE CopyEnd \/ FlusherEnd \/ FlusherArm \/ Open \/ Return \/ CheckErrInLogs \/ Upload
  <2>1. /\ proc' = proc /\ stream' = stream /\ batch' = batch
        /\ b'.num = b.num /\ b'.pending = b.pending
        /\ b'.opened # "failed" => b.opened # "failed"
    <3>1. CASE CheckErrInLogs
      <4> DEFINE last == {b.history[i] :
                            i \in {j \in DOMAIN b.history : j > Len(b.history) - NudgeWindow}}
                 errs == {ln.num : ln \in {l \in last : Range(l.msg) \cap Nudges # {}}}
      <4>1. b' = [b EXCEPT !.errs = errs] /\ UNCHANGED <<proc, batch, step, stream, uploaded>>
        BY <3>1 DEF CheckErrInLogs
      <4> HIDE DEF errs
      <4>2. QED
        BY <1>1, <4>1 DEF TypeOK
    <3>2. CASE Open
      BY <1>1, <3>2 DEF TypeOK, IInv, Opened, Open, RunnerMove
    <3>3. CASE CopyEnd \/ FlusherEnd \/ FlusherArm \/ Return \/ Upload
      BY <1>1, <3>3
         DEF TypeOK, CopyEnd, CopyOnly, FlusherEnd, FlusherArm, FlusherMove, Return, Upload
    <3>4. QED
      BY <1>9, <3>1, <3>2, <3>3
  <2>2. step'.rest = step.rest /\ step'.input = step.input
    BY <1>1, <1>9
       DEF TypeOK, CopyEnd, FlusherEnd, FlusherArm, FlusherMove, Open, Return, CheckErrInLogs, Upload
  <2>3. \/ runner' = runner
        \/ runner' \in {"upload", "done"}
        \/ runner = "open" /\ runner' = "run"
        \/ runner = "run" /\ runner' = "ran"
    BY <1>9
       DEF CopyEnd, CopyOnly, FlusherEnd, FlusherArm, FlusherMove, Open, Return, CheckErrInLogs,
           Upload, RunnerMove
  <2>4. Sent' = Sent
    BY <2>1 DEF Sent
  <2>5. QED
    BY <1>8, <2>1, <2>2, <2>3, <2>4
<1>10. CASE Stop \/ NoRest
  <2>1. /\ proc' = proc /\ stream' = stream /\ batch' = batch
        /\ b'.num = b.num /\ b'.pending = b.pending /\ b'.opened = b.opened
    BY <1>1, <1>10 DEF TypeOK, Stop, RunnerUses, NoRest
  <2>2. step'.rest = step.rest /\ step'.input = step.input
    BY <1>1, <1>10 DEF TypeOK, Stop, NoRest
  <2>3. \/ runner = "ran" /\ runner' \in {"check", "rest"}
        \/ runner = "rest" /\ runner' = "flush" /\ Out("runner")
    BY <1>10 DEF Stop, NoRest, RunnerMove, IInv, Alternating
  <2>4. Sent' = Sent
    BY <2>1 DEF Sent
  <2>5. QED
    BY <1>8, <2>1, <2>2, <2>3, <2>4
<1>11. CASE FlusherCopy \/ FlusherSend \/ CloseCopy \/ CloseSend
  <2>1. Sent' = Sent
    <3>1. CASE FlusherCopy
      BY <1>1, <3>1, FlushKeepsSent DEF FlusherCopy, FlusherMove, IInv, Batched
    <3>2. CASE FlusherSend
      BY <1>1, <3>2, FlushKeepsSent DEF FlusherSend
    <3>3. CASE CloseCopy
      BY <1>1, <3>3, FlushKeepsSent DEF CloseCopy, RunnerMove, IInv, Batched
    <3>4. CASE CloseSend
      BY <1>1, <3>4, FlushKeepsSent DEF CloseSend
    <3>5. QED
      BY <1>11, <3>1, <3>2, <3>3, <3>4
  <2>2. /\ proc' = proc /\ step' = step /\ b'.num = b.num /\ b'.opened = b.opened
    BY <1>1, <1>11
       DEF TypeOK, FlusherCopy, FlusherSend, FlusherMove, CloseCopy, CloseSend, FlushCopy
  <2>3. runner' = runner \/ runner' \in {"send", "check"}
    BY <1>11 DEF FlusherCopy, FlusherSend, FlusherMove, CloseCopy, CloseSend, RunnerMove
  <2>4. QED
    BY <1>8, <2>1, <2>2, <2>3
<1>12. CASE UNCHANGED vars
  BY <1>8, <1>12 DEF vars, Sent
<1>13. QED
  BY <1>4, <1>5, <1>6, <1>7, <1>9, <1>10, <1>11, <1>12 DEF Next, Flusher, CloseStep

LEMMA InitWhole == Init => DropInv
<1> SUFFICES ASSUME Init PROVE Whole
  BY InitInv DEF DropInv
<1>1. /\ b.num = 0 /\ b.pending = <<>> /\ stream = <<>> /\ ~step.rest /\ runner = "open"
      /\ batch["flusher"] = <<>> /\ batch["runner"] = <<>>
      /\ \A w \in Writers : proc[w].pc = "out"
  BY DEF Init
<1>2. Sent = {} /\ Offered = 0
  BY <1>1, NumsOfNone DEF Sent, Offered
<1>3. 0..(Offered - 1) = {}
  BY <1>2
<1>4. QED
  BY <1>1, <1>2, <1>3 DEF Whole

(* Of a stream that was opened no line is dropped between Write and the      *)
(* client, but the one that Close ends after stop() (livelog.go:151-155,     *)
(* 172-181, 201-216, 255-278).                                               *)
THEOREM NothingDroppedAlways == Spec => []NothingDropped
<1>1. DropInv => NothingDropped
  <2> SUFFICES ASSUME DropInv, ~step.overtaken, b.opened = "open",
                      \A w \in Writers : proc[w].pc = "out"
               PROVE  {Leaving[i].num : i \in DOMAIN Leaving}
                          = 0..(b.num - IF step.rest THEN 2 ELSE 1)
    BY DEF NothingDropped
  <2> DEFINE s == stream
             f == batch["flusher"]
             r == batch["runner"]
             p == b.pending
  <2>1. s \in Seq(Line) /\ f \in Seq(Line) /\ r \in Seq(Line) /\ p \in Seq(Line)
    BY Fields DEF DropInv, IInv
  <2>2. Leaving = s \o f \o r \o p
    BY DEF Leaving
  <2>3. Sent = Nums(s) \cup Nums(f) \cup Nums(r) \cup Nums(p)
    BY DEF Sent
  <2> HIDE DEF s, f, r, p
  <2>4. s \o f \in Seq(Line) /\ s \o f \o r \in Seq(Line)
    BY <2>1, ConcatProperties
  <2>5. Nums(s \o f \o r \o p) = Sent
    <3>1. Nums(s \o f) = Nums(s) \cup Nums(f)
      BY <2>1, NumsConcat
    <3>2. Nums(s \o f \o r) = Nums(s \o f) \cup Nums(r)
      BY <2>1, <2>4, NumsConcat
    <3>3. Nums(s \o f \o r \o p) = Nums(s \o f \o r) \cup Nums(p)
      BY <2>1, <2>4, NumsConcat
    <3>4. QED
      BY <2>3, <3>1, <3>2, <3>3
  <2>6. b.num = Len(Lines) /\ Offered = b.num
    <3>1. \A w \in Writers : Out(w)
      BY DEF Out
    <3>2. InOrder
      BY DEF DropInv, IInv
    <3>3. QED
      BY <3>1, <3>2, NobodyInWrite DEF InOrder, Settled
  <2>7. Sent = 0..(IF step.rest THEN Len(Lines) - 2 ELSE Offered - 1)
    BY DEF DropInv, Whole
  <2>8. Nums(Leaving) = 0..(b.num - IF step.rest THEN 2 ELSE 1)
    BY <2>2, <2>5, <2>6, <2>7
  <2>9. QED
    BY <2>8 DEF Nums
<1>2. Init => DropInv
  BY InitWhole
<1>3. DropInv /\ [Next]_vars => DropInv'
  BY NextWhole
<1>4. QED
  BY <1>1, <1>2, <1>3, PTL DEF Spec

=============================================================================
