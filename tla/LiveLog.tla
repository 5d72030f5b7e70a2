------------------------------ MODULE LiveLog ------------------------------
(***************************************************************************)
(* The log of one step on its way to the log service (livelog/livelog.go). *)
(*                                                                         *)
(* Three goroutines share a Writer, the record b.  The copier hands the    *)
(* output of the step to Write; the runner of the step opens the stream,   *)
(* waits for the step and calls Close; the flusher, started by New, sends  *)
(* what is pending every interval.  pending, history and closed have a     *)
(* mutex, but prev, size and num have none.  For a process (engine/exec)   *)
(* the copier has ended when the run returns; for a container              *)
(* (engine/docker) tail starts the copier and nobody waits for it, so the  *)
(* runner, who logs remarks to the same Writer and closes it, can overtake *)
(* the copier.  What is said of the contents below is said of runs in      *)
(* which it did not.                                                       *)
(*                                                                         *)
(* Abstraction: output is a sequence of tokens, 0 is the newline and i > 0 *)
(* a character of the i-th Write.  Times, names and levels of a line are   *)
(* left out.  What the runner prints before the engine runs the step is    *)
(* output of the copier here: neither is in Write beside the other.  The   *)
(* error of client.Write is only logged, so nothing depends on it.         *)
(***************************************************************************)
EXTENDS Integers, SequencesExt

CONSTANTS Shapes,       \* the shapes of a chunk: sequences of "c" (character) and "n" (newline)
          MaxWrites,    \* bound: how many chunks the step writes
          Limit,        \* b.limit
          Overhead,     \* len(json.Marshal(line)) - len(line.Message)
          TrimSuffix,   \* b.trimNewLineSuffix
          Nudges,       \* the tokens some nudge matches
          NudgeWindow   \* how many of the last lines checkErrInLogs reads

ASSUME LiveLogAssumption ==
    /\ Shapes \subseteq Seq({"c", "n"}) \ {<<>>}
    /\ MaxWrites \in Nat /\ Limit \in Nat /\ Overhead \in Nat \ {0} /\ NudgeWindow \in Nat
    /\ TrimSuffix \in BOOLEAN /\ Nudges \subseteq Nat

NL     == 0
Token  == 0..MaxWrites
Line   == [num : Nat, msg : Seq(Token)]
NoLine == [num |-> 0, msg |-> <<>>]

Writers == {"copier", "runner"}

VARIABLES
    b,        \* the Writer: opened, closed, ready, prev, size, num, pending, history, errs
    proc,     \* [Writers -> the goroutine in Write: pc, data, read, todo, line]
    runner,   \* where the runner of the step is outside Write
    flusher,  \* where the flusher is
    batch,    \* [{"runner", "flusher"} -> Seq(Line)], copied by flush, not sent yet
    step,     \* the step: copying (output may come), writes and input (what came), and for the
              \* properties only overtaken (the runner used b before the copier had ended) and
              \* rest (Close gave prev its newline)
    stream,   \* the lines handed to client.Write, in order
    uploaded  \* the lists of lines passed to client.Upload

vars == <<b, proc, runner, flusher, batch, step, stream, uploaded>>

-----------------------------------------------------------------------------
(* splitLast and split.  split cuts after every newline; its argument in    *)
(* Write ends with one.                                                     *)

Newlines(p)    == {i \in DOMAIN p : p[i] = NL}
LastNewline(p) == IF Newlines(p) = {} THEN 0 ELSE Max(Newlines(p))
UpToLast(p)    == SubSeq(p, 1, LastNewline(p))
AfterLast(p)   == SubSeq(p, LastNewline(p) + 1, Len(p))

LineAt(p, i) == IF p[i] = NL THEN <<Append(AfterLast(SubSeq(p, 1, i - 1)), NL)>> ELSE <<>>

Split(p) == FlattenSeq([i \in 1..Len(p) |-> LineAt(p, i)])

Message(part) == IF TrimSuffix THEN Front(part) ELSE part

(* A message is charged its own length when it is admitted; an evicted line *)
(* gives back the length of its JSON form.  Lines are evicted, oldest first,*)
(* until the account is within the limit or no line is left.                *)
Refunds(n) == Len(FlattenSeq([i \in 1..n |-> b.history[i].msg])) + n * Overhead

\* Mutant: the test for room does not count the line that comes.
EvictionsLate(msg) ==
    Min({n \in 0..Len(b.history) : n = Len(b.history) \/ b.size - Refunds(n) <= Limit})

Evictions(msg) ==
    Min({n \in 0..Len(b.history) :
            n = Len(b.history) \/ b.size - Refunds(n) + Len(msg) <= Limit})

-----------------------------------------------------------------------------
Init ==
    /\ b = [opened |-> "no", closed |-> FALSE, ready |-> FALSE, prev |-> <<>>, size |-> 0,
            num |-> 0, pending |-> <<>>, history |-> <<>>, errs |-> {}]
    /\ proc = [w \in Writers |-> [pc |-> "out", data |-> <<>>, read |-> <<>>,
                                  todo |-> <<>>, line |-> NoLine]]
    /\ runner = "open" /\ flusher = "idle"
    /\ batch = [f \in {"runner", "flusher"} |-> <<>>]
    /\ step = [copying |-> TRUE, overtaken |-> FALSE, rest |-> FALSE, writes |-> 0,
             input |-> <<>>]
    /\ stream = <<>> /\ uploaded = <<>>

(* Write.  Its steps interleave with those of any other goroutine; only the *)
(* test of closed and the two appends are under the mutex.                  *)

InWrite(w, l) == proc[w].pc = l /\ UNCHANGED <<runner, flusher, batch, step, stream, uploaded>>

\* Write is called with p and reads prev.
WriteBegin(w, p) ==
    /\ proc[w].pc = "out"
    /\ proc' = [proc EXCEPT ![w].pc = "prev", ![w].data = p, ![w].read = b.prev]

\* Without a newline the output only piles up in prev.
WriteNoNewline(w) ==
    /\ Newlines(proc[w].data) = {}
    /\ b' = [b EXCEPT !.prev = proc[w].read \o proc[w].data]
    /\ proc' = [proc EXCEPT ![w].pc = "out", ![w].data = <<>>, ![w].read = <<>>]

\* Mutant: what follows the last newline is dropped.
WriteWholeLines(w) ==
    /\ Newlines(proc[w].data) # {}
    /\ b' = [b EXCEPT !.prev = <<>>]
    /\ proc' = [proc EXCEPT ![w].pc = "parts", ![w].data = <<>>, ![w].read = <<>>,
                  ![w].todo = Split(proc[w].read \o UpToLast(proc[w].data))]

\* With one, the parts up to the last newline are logged and prev is what is left.
WriteNewline(w) ==
    /\ Newlines(proc[w].data) # {}
    /\ b' = [b EXCEPT !.prev = AfterLast(proc[w].data)]
    /\ proc' = [proc EXCEPT ![w].pc = "parts", ![w].data = <<>>, ![w].read = <<>>,
                  ![w].todo = Split(proc[w].read \o UpToLast(proc[w].data))]

WritePrev(w) == InWrite(w, "prev") /\ (WriteNoNewline(w) \/ WriteNewline(w))

\* Mutant: a line is numbered by its place in what is kept.
NumberKept(w) == [num |-> Len(b.history), msg |-> Message(Head(proc[w].todo))]

\* Mutant: lines are numbered one too low.
NumberLow(w) == [num |-> b.num - 1, msg |-> Message(Head(proc[w].todo))]

Number(w) == [num |-> b.num, msg |-> Message(Head(proc[w].todo))]

NewLine(w) ==
    /\ InWrite(w, "parts")
    /\ proc[w].todo # <<>>
    /\ proc' = [proc EXCEPT ![w].pc = "admit", ![w].line = Number(w), ![w].todo = Tail(@)]
    /\ UNCHANGED b

\* Room is made for the line, and it is counted.
Admit(w) ==
    LET msg == proc[w].line.msg
        n   == Evictions(msg) IN
    /\ InWrite(w, "admit")
    /\ b' = [b EXCEPT !.history = SubSeq(@, n + 1, Len(@)),
                      !.size = @ - Refunds(n) + Len(msg), !.num = @ + 1]
    /\ proc' = [proc EXCEPT ![w].pc = "stopped"]

TestStopped(w) ==
    /\ InWrite(w, "stopped")
    /\ proc' = [proc EXCEPT ![w].pc = IF b.closed THEN "keep" ELSE "push"]
    /\ UNCHANGED b

Push(w) ==
    /\ InWrite(w, "push")
    /\ b' = [b EXCEPT !.pending = Append(@, proc[w].line)]
    /\ proc' = [proc EXCEPT ![w].pc = "keep"]

Keep(w) ==
    /\ InWrite(w, "keep")
    /\ b' = [b EXCEPT !.history = Append(@, proc[w].line)]
    /\ proc' = [proc EXCEPT ![w].pc = "parts", ![w].line = NoLine]

\* Mutant: Write returns without telling the flusher.
SignalLost(w) ==
    /\ InWrite(w, "parts")
    /\ proc[w].todo = <<>>
    /\ proc' = [proc EXCEPT ![w].pc = "out"]
    /\ UNCHANGED b

\* The signal is sent without waiting: one already there is enough.
Signal(w) ==
    /\ InWrite(w, "parts")
    /\ proc[w].todo = <<>>
    /\ b' = [b EXCEPT !.ready = TRUE]
    /\ proc' = [proc EXCEPT ![w].pc = "out"]

WriteStep(w) ==
    WritePrev(w) \/ NewLine(w) \/ Admit(w) \/ TestStopped(w) \/ Push(w) \/ Keep(w) \/ Signal(w)

-----------------------------------------------------------------------------
(* The copier: the output arrives in chunks of any shape, and ends.         *)

CopyOnly == step.copying /\ runner # "open" /\ UNCHANGED <<b, runner, flusher, batch, stream, uploaded>>

CopyChunk(shape) ==
    LET p == [j \in DOMAIN shape |-> IF shape[j] = "n" THEN NL ELSE step.writes + 1] IN
    /\ CopyOnly
    /\ step.writes < MaxWrites
    /\ step' = [step EXCEPT !.writes = @ + 1, !.input = @ \o p]
    /\ WriteBegin("copier", p)

CopyEnd ==
    /\ CopyOnly
    /\ proc["copier"].pc = "out"
    /\ step' = [step EXCEPT !.copying = FALSE]
    /\ UNCHANGED proc

-----------------------------------------------------------------------------
(* flush: copy and clear under the mutex, client.Write outside it.          *)

\* Mutant: the lines are copied and left pending.
FlushOnlyCopy(f) == batch' = [batch EXCEPT ![f] = b.pending] /\ UNCHANGED b

\* Mutant: what arrived while nobody flushed is cleared, all but its first line.
FlushFirst(f) ==
    /\ batch' = [batch EXCEPT ![f] = SubSeq(b.pending, 1, Min({1, Len(b.pending)}))]
    /\ b' = [b EXCEPT !.pending = <<>>]

FlushCopy(f) ==
    /\ batch' = [batch EXCEPT ![f] = b.pending]
    /\ b' = [b EXCEPT !.pending = <<>>]

FlushSend(f) ==
    /\ stream' = stream \o batch[f]
    /\ batch' = [batch EXCEPT ![f] = <<>>]

(* Start, the flusher: wait for a signal, then for the timer, which may fire*)
(* at any time; stop when the writer is closed.                             *)
FlusherMove(from, to) ==
    flusher = from /\ flusher' = to /\ UNCHANGED <<proc, runner, step, uploaded>>

\* Mutant: only the inner select looks at b.close.
FlusherEndArmed ==
    FlusherMove("armed", "ended") /\ b.closed /\ UNCHANGED <<b, batch, stream>>

FlusherEnd ==
    /\ FlusherMove("idle", "ended") \/ FlusherMove("armed", "ended")
    /\ b.closed
    /\ UNCHANGED <<b, batch, stream>>

FlusherArm ==
    /\ FlusherMove("idle", "armed")
    /\ b.ready
    /\ b' = [b EXCEPT !.ready = FALSE]
    /\ UNCHANGED <<batch, stream>>

FlusherCopy == FlusherMove("armed", "send") /\ FlushCopy("flusher") /\ UNCHANGED stream
FlusherSend == FlusherMove("send", "idle") /\ FlushSend("flusher") /\ UNCHANGED b

Flusher == FlusherEnd \/ FlusherArm \/ FlusherCopy \/ FlusherSend

-----------------------------------------------------------------------------
(* The runner of the step: Open, the run, what is logged after it, Close.   *)

RunnerMove(from, to) == runner = from /\ runner' = to /\ UNCHANGED flusher

\* A stream that could not be opened stops the streaming for good.
Open ==
    /\ RunnerMove("open", "run")
    /\ b' \in {[b EXCEPT !.opened = "open"], [b EXCEPT !.opened = "failed", !.closed = TRUE]}
    /\ UNCHANGED <<proc, batch, step, stream, uploaded>>

\* engine.Run returns, with the copier of a container perhaps still at work.
Return == RunnerMove("run", "ran") /\ UNCHANGED <<b, proc, batch, step, stream, uploaded>>

\* What the runner does to b from here on, it may do beside the copier.
RunnerUses == proc["runner"].pc = "out" /\ UNCHANGED <<batch, stream, uploaded>>
Overtaken  == step.overtaken \/ step.copying

\* Until Close the runner logs, a line at a time, what went wrong after the run.
Remark ==
    /\ RunnerMove("ran", "ran") /\ RunnerUses
    /\ step.writes < MaxWrites
    /\ WriteBegin("runner", <<step.writes + 1, NL>>)
    /\ step' = [step EXCEPT !.overtaken = Overtaken, !.writes = @ + 1,
                            !.input = @ \o <<step.writes + 1, NL>>]
    /\ UNCHANGED b

(* Close begins with stop(): only the one who closes the writer flushes     *)
(* what is left.                                                            *)
Stop ==
    /\ RunnerMove("ran", IF b.closed THEN "check" ELSE "rest") /\ RunnerUses
    /\ b' = [b EXCEPT !.closed = TRUE]
    /\ step' = [step EXCEPT !.overtaken = Overtaken]
    /\ UNCHANGED proc

\* Output that waits for its newline is given one.
WriteRest ==
    /\ RunnerMove("rest", "flush")
    /\ b.prev # <<>>
    /\ WriteBegin("runner", <<NL>>)
    /\ step' = [step EXCEPT !.rest = TRUE, !.input = Append(@, NL)]
    /\ UNCHANGED <<b, batch, stream, uploaded>>

\* Mutant: Close does not look at prev.
NeverRest ==
    RunnerMove("rest", "flush") /\ UNCHANGED <<b, proc, batch, step, stream, uploaded>>

NoRest ==
    /\ RunnerMove("rest", "flush")
    /\ b.prev = <<>>
    /\ UNCHANGED <<b, proc, batch, step, stream, uploaded>>

CloseCopy ==
    /\ RunnerMove("flush", "send")
    /\ proc["runner"].pc = "out"
    /\ FlushCopy("runner")
    /\ UNCHANGED <<proc, step, stream, uploaded>>

CloseSend ==
    RunnerMove("send", "check") /\ FlushSend("runner") /\ UNCHANGED <<b, proc, step, uploaded>>

\* The last lines are searched for nudges.
CheckErrInLogs ==
    LET last == {b.history[i] : i \in {j \in DOMAIN b.history : j > Len(b.history) - NudgeWindow}} IN
    /\ RunnerMove("check", "upload")
    /\ b' = [b EXCEPT !.errs = {ln.num : ln \in {l \in last : Range(l.msg) \cap Nudges # {}}}]
    /\ UNCHANGED <<proc, batch, step, stream, uploaded>>

\* The history is uploaded and the stream closed; Close has returned.
Upload ==
    /\ RunnerMove("upload", "done")
    /\ uploaded' = Append(uploaded, b.history)
    /\ UNCHANGED <<b, proc, batch, step, stream>>

CloseStep == WriteRest \/ NoRest \/ CloseCopy \/ CloseSend \/ CheckErrInLogs \/ Upload

-----------------------------------------------------------------------------
Next ==
    \/ \E shape \in Shapes : CopyChunk(shape)
    \/ CopyEnd
    \/ \E w \in Writers : WriteStep(w)
    \/ Flusher
    \/ Open \/ Return \/ Remark \/ Stop \/ CloseStep

Spec == Init /\ [][Next]_vars

(* A goroutine in Write, the flusher and Close go on: their waits are for   *)
(* timers and for calls of the client that return.  Nothing is assumed of   *)
(* the step, which may write for ever or never end.                         *)
Fairness ==
    /\ \A w \in Writers : WF_vars(WriteStep(w))
    /\ WF_vars(Flusher)
    /\ WF_vars(CloseStep)

FairSpec == Spec /\ Fairness

-----------------------------------------------------------------------------
\* Each piece of state keeps its type.
TypeOK ==
    /\ b \in [opened : {"no", "open", "failed"}, closed : BOOLEAN, ready : BOOLEAN,
              prev : Seq(Token), size : Int, num : Nat, pending : Seq(Line),
              history : Seq(Line), errs : SUBSET Nat]
    /\ proc \in [Writers ->
                   [pc : {"out", "prev", "parts", "admit", "stopped", "push", "keep"},
                    data : Seq(Token), read : Seq(Token), todo : Seq(Seq(Token)), line : Line]]
    /\ runner \in {"open", "run", "ran", "rest", "flush", "send", "check", "upload", "done"}
    /\ flusher \in {"idle", "armed", "send", "ended"}
    /\ batch \in [{"runner", "flusher"} -> Seq(Line)]
    /\ step \in [copying : BOOLEAN, overtaken : BOOLEAN, rest : BOOLEAN,
                 writes : 0..MaxWrites, input : Seq(Token)]
    /\ stream \in Seq(Line)
    /\ uploaded \in Seq(Seq(Line))

\* How much the messages of a list of lines hold.
Bytes(lines) == Len(FlattenSeq([i \in DOMAIN lines |-> lines[i].msg]))

\* The output a list of lines stands for.
Text(lines) ==
    FlattenSeq([i \in DOMAIN lines |->
                  IF TrimSuffix THEN Append(lines[i].msg, NL) ELSE lines[i].msg])

(* The history is the output: between two Writes, if the copier has not been*)
(* overtaken, what is kept followed by what waits for a newline is the end *)
(* of what was written, all of it when no line was evicted, and the lines   *)
(* are numbered without a gap up to num (livelog.go:85-158).                *)
HistoryIsOutput ==
    ~step.overtaken /\ (\A w \in Writers : proc[w].pc = "out") =>
        /\ IsSuffix(Text(b.history) \o b.prev, step.input)
        /\ Len(b.history) = b.num => Text(b.history) \o b.prev = step.input
        /\ \A i \in DOMAIN b.history : b.history[i].num = b.num - Len(b.history) + i - 1

(* The account drifts by exactly the Overhead of every line evicted, and    *)
(* never further: between two Writes it is what the history holds less that *)
(* drift, and a history of more than one line exceeds the limit by no more  *)
(* than the drift (livelog.go:124-149: charged as len(part), given back as  *)
(* len(hline), and the line itself appended after both).                    *)
KeptWithinDrift ==
    ~step.overtaken /\ (\A w \in Writers : proc[w].pc = "out") =>
        LET drift == Overhead * (b.num - Len(b.history)) IN
        /\ b.size = Bytes(b.history) - drift
        /\ Len(b.history) > 1 => Bytes(b.history) <= Limit + drift

\* The lines that have left Write, wherever they are.
Leaving == stream \o batch["flusher"] \o batch["runner"] \o b.pending

(* No line is sent twice: pending, the two copies flush has made and the    *)
(* stream share no line, and none repeats one, although flusher and Close   *)
(* flush side by side (livelog.go:175-181, 201-216, 255-278).               *)
SentOnce ==
    ~step.overtaken =>
        \A i, j \in DOMAIN Leaving : i # j => Leaving[i].num # Leaving[j].num

(* No line is dropped on its way to an open stream, evicted from the history*)
(* or not and however flusher and Close share the flushing, but for one: the*)
(* line that Close ends itself, after stop() (livelog.go:172-181, the part  *)
(* of the output that had no newline).                                      *)
NothingDropped ==
    ~step.overtaken /\ b.opened = "open" /\ (\A w \in Writers : proc[w].pc = "out") =>
        {Leaving[i].num : i \in DOMAIN Leaving} = 0..(b.num - IF step.rest THEN 2 ELSE 1)

(* Whatever order the batches arrive in, the numbers of the lines put the   *)
(* stream right: the line numbered k is the (k+1)-th line of the output     *)
(* (livelog.go:116-119, 201-216: flush sends outside the mutex, so a batch  *)
(* of the flusher can come after the one Close has copied).                 *)
StreamSortsToOutput ==
    ~step.overtaken =>
        LET lines == Split(step.input) IN
        \A i \in DOMAIN stream :
            /\ stream[i].num + 1 \in DOMAIN lines
            /\ stream[i].msg = Message(lines[stream[i].num + 1])

(* Close of a stream that was opened uploads every line that is kept, the   *)
(* last one with or without its newline: nothing is left in prev            *)
(* (livelog.go:172-197).                                                    *)
UploadComplete ==
    ~step.overtaken /\ b.opened = "open" =>
        \A i \in DOMAIN uploaded : b.prev = <<>> /\ IsSuffix(Text(uploaded[i]), step.input)

(* What a Write leaves pending is flushed, by the flusher or by Close       *)
(* (livelog.go:152-155, 180, 255-278).                                      *)
PendingIsFlushed == (~step.overtaken /\ b.pending # <<>>) ~> (b.pending = <<>>)

\* A closed writer leaves no goroutine behind (livelog.go:235-245, 255-265).
FlusherStops == b.closed ~> (flusher = "ended")

-----------------------------------------------------------------------------
(* What the comments of livelog.go say and the code does not do.            *)

(* livelog.go:172: Close uploads the full contents, whether or not the      *)
(* stream could be opened.                                                  *)
FullContentsUploaded ==
    ~step.overtaken => \A i \in DOMAIN uploaded :
        Len(uploaded[i]) = b.num => IsPrefix(step.input, Text(uploaded[i]))

(* livelog.go:125: what is uploaded is the last b.limit of the log, or its  *)
(* last line when that is longer.                                           *)
LimitRespected ==
    ~step.overtaken => \A i \in DOMAIN uploaded :
        Len(uploaded[i]) > 1 => Bytes(uploaded[i]) <= Limit
=============================================================================
