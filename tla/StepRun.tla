------------------------------ MODULE StepRun ------------------------------
(***************************************************************************)
(* A step from the request to its result (pipeline/runtime/run.go,         *)
(* runtest.go, runtestsV2.go, with engine/engine.go and                    *)
(* engine/exec/exec.go under them): the command is completed and printed,  *)
(* the engine runs it, its output is copied into the step's log and its    *)
(* files are read into the result.  The runner of the step, the copier of  *)
(* its output (StdCopy), the subscribers of a drone step's log (StepLog)   *)
(* and the step itself are processes.  The log of any other step is a      *)
(* masked writer (Masking) in front of livelog, the sequence `sink`.       *)
(*                                                                         *)
(* A step id is run up to MaxRuns times with one request (a retry of the   *)
(* build): each run finds the files the earlier ones have left in the      *)
(* shared directory.  Bound: a run whose program has output, and a drone   *)
(* step's, is the last.                                                    *)
(*                                                                         *)
(* A program is external, a record: own (the lines it appends to           *)
(* DRONE_OUTPUT), secretLines, artifact, env (what its shell has for the   *)
(* declared variables), private (the runner may not read its files),       *)
(* chunks (its output) and ends (the ways in which it may end).            *)
(***************************************************************************)
EXTENDS StepResult, StdCopy, StepLog, Masking

CONSTANTS Requests,        \* the requests that are followed
          Programs(_, _),  \* what the step of a request may be in the n-th run
          MaxRuns,         \* bound: runs of the step
          Remark           \* a byte only the runner writes

IsProgram(program) ==
    /\ program.own \in Seq(Text) /\ program.secretLines \in Seq(Text)
    /\ program.artifact \in Seq(Text)
    /\ \A var \in DOMAIN program.env : program.env[var] \in Text
    /\ program.private \in BOOLEAN /\ program.chunks \in Seq(Chunk)
    /\ program.ends \subseteq [code : ExitCodes, oom : BOOLEAN, reached : BOOLEAN]

\* A drone step is of kind Run (step_executor.go:203), and no secret is written with the mask.
ASSUME StepRunAssumption ==
    /\ MaxRuns \in Nat \ {0} /\ Remark \in Nat
    /\ \A req \in Requests : req \in Request /\ (req.drone => req.kind = "Run")
    /\ \A req \in Requests : \A secret \in Range(req.secrets) : Masked \notin Range(secret)
    /\ \A req \in Requests, n \in 1..MaxRuns : \A program \in Programs(req, n) : IsProgram(program)

VARIABLES
    run,      \* the runner: pc, n, req, program, todo (what it has to print), parts (what
              \* the masked writer looks for), res (what the engine returned), and for the
              \* properties only through (every command was run)
    files,    \* [Files -> the files of the step]
    sink,     \* the chunks the masked writer has passed to livelog in this run
    results   \* what each run has returned

vars == <<run, files, sink, results, wire, copier, stepLog, sub>>

stepVars == <<run, files, sink, results>>

Pending == Failure("run failed")

StepRunInit ==
    /\ \E req \in Requests :
          \E program \in Programs(req, 1) :
             run = [pc |-> IF req.drone THEN "start" ELSE "idle", n |-> 1, req |-> req,
                    program |-> program, todo |-> <<>>, parts |-> Parts(req.secrets),
                    res |-> Pending, through |-> FALSE]
    /\ files = [f \in Files |-> NoFile]
    /\ sink = <<>>
    /\ results = <<>>
    /\ StdCopyInit
    /\ StepLogInit
    /\ \/ run.req.drone  \* nobody follows the log of another step
       \/ \A s \in Subscribers, offset \in Offsets : sub[s].offset <= offset

Req == run.req

\* A panic of any goroutine ends the whole runner; none of them recovers from one.
Alive == run.pc # "panic" /\ ~stepLog.panicked

\* The runner moves on.
Runs(from, to) == run.pc = from /\ Alive /\ run' = [run EXCEPT !.pc = to]

-----------------------------------------------------------------------------
(* Up to the engine.                                                        *)

Declares == DeclaredOf(Req) # <<>>

\* run.go:36, runtest.go:46, runtestsV2.go:51: the commands of RunTest and RunTestsV2 are
\* made by the runner and never empty there.
Rejected == Declares /\ (Req.shell = "none" \/ (Req.kind = "Run" /\ Req.command = <<>>))

\* runtestsV2.go:45 takes the first command before it looks whether there is one.
NoFirstCommand == Req.kind = "RunTestsV2" /\ Req.command = <<>>

(* printCommand: a heading and the lines of the command, to which the       *)
(* commands for the declared variables were added, or the entrypoint.       *)
ActualCommand ==
    IF Req.command # <<>> \/ Req.kind = "RunTest"
    THEN Req.command \o [i \in DOMAIN DeclaredOf(Req) |-> <<Remark>>]
    ELSE IF Req.shell # "none" THEN <<<<Remark>>>> ELSE <<>>

Printed == IF ActualCommand = <<>> THEN <<>> ELSE <<<<Remark>>>> \o ActualCommand

\* Mutant: the context is left to its timeout.
ReturnOnly(result) == results' = Append(results, result) /\ UNCHANGED stepLogVars

\* A result is returned, and with it the context of a drone step is cancelled.
Return(result) ==
    /\ results' = Append(results, result)
    /\ IF Req.drone THEN Cancel ELSE UNCHANGED stepLogVars

\* The result of a step that was not run.
Unrun == Result(Failure("run failed"), NoVars, {})

\* executeStepDrone makes the log before it runs the step.
MakeLog ==
    /\ Runs("start", "idle")
    /\ NewStepLog
    /\ UNCHANGED <<files, sink, results, stdCopyVars>>

\* instrumentation.GetCmd or SetupRunTestV2, external, fails.
SetupFails ==
    /\ Runs("idle", "done")
    /\ Req.kind # "Run"
    /\ results' = Append(results, Unrun)
    /\ UNCHANGED <<files, sink, stdCopyVars, stepLogVars>>

\* Mutant: the error is returned later, after the step has been run.
RejectLate ==
    /\ Runs("idle", "print")
    /\ Rejected /\ ~NoFirstCommand
    /\ Return(Unrun)
    /\ UNCHANGED <<files, sink, stdCopyVars>>

Reject ==
    /\ Runs("idle", "done")
    /\ Rejected /\ ~NoFirstCommand
    /\ Return(Unrun)
    /\ UNCHANGED <<files, sink, stdCopyVars>>

\* An index out of range, or a write to the nil map of a request without variables.
PanicUnprepared ==
    /\ Runs("idle", "panic")
    /\ NoFirstCommand \/ (~Rejected /\ ~Req.envs)
    /\ UNCHANGED <<files, sink, results, stdCopyVars, stepLogVars>>

Prepare ==
    /\ run.pc = "idle" /\ Alive
    /\ Req.envs /\ ~Rejected /\ ~NoFirstCommand
    /\ run' = [run EXCEPT !.pc = "print", !.todo = Printed]
    /\ UNCHANGED <<files, sink, results, stdCopyVars, stepLogVars>>

(* The runner writes what it has to print, the heading before the run or a  *)
(* remark after it.                                                         *)
Mask(data) == Replace(data, run.parts)

PrintMasked ==
    /\ run.pc \in {"print", "remark"} /\ Alive
    /\ ~Req.drone
    /\ run.todo # <<>>
    /\ sink' = sink \o [i \in DOMAIN run.todo |-> Mask(run.todo[i])]
    /\ run' = [run EXCEPT !.todo = <<>>]
    /\ UNCHANGED <<files, results, stdCopyVars, stepLogVars>>

PrintLock ==
    /\ run.pc \in {"print", "remark"} /\ Alive
    /\ Req.drone
    /\ run.todo # <<>>
    /\ WriteLock("runner", Head(run.todo))
    /\ UNCHANGED <<stepVars, stdCopyVars>>

PrintUnlock ==
    /\ Alive
    /\ WriteUnlock("runner")
    /\ run' = [run EXCEPT !.todo = Tail(@)]
    /\ UNCHANGED <<files, sink, results, stdCopyVars>>

-----------------------------------------------------------------------------
(* The engine: engine.Run, Docker's Run and tail, exec.Run.  When it has    *)
(* returned res, what lite-engine has to say of reports, or the runner of   *)
(* the test summary, is written to the log of the step.  Bound: nothing is  *)
(* said of a program without output or of a run that failed (LiveLog has    *)
(* what is logged after any run).                                           *)
EngineGives(from, res) ==
    /\ run.pc = from /\ Alive
    /\ \E remarks \in {<<>>, <<<<Remark>>>>} :
          /\ remarks # <<>> => run.program.chunks # <<>> /\ res # Pending
          /\ run' = [run EXCEPT !.pc = "remark", !.todo = remarks, !.res = res]
    /\ UNCHANGED <<files, sink, results, stdCopyVars, stepLogVars>>

\* A file, the container or the process cannot be made or started, or not be followed.
EngineFails == run.todo = <<>> /\ EngineGives("print", Pending)

EngineStarts ==
    /\ Runs("print", "running")
    /\ run.todo = <<>>
    /\ Req.host => Req.shell # "none"
    /\ IF Req.host THEN RawStart ELSE StdCopyStart
    /\ UNCHANGED <<files, sink, results, stepLogVars>>

\* The next chunk of the output gets through; it may come after a container has exited.
Output ==
    /\ copier.pc # "off" /\ Alive
    /\ Len(wire.sent) < Len(run.program.chunks)
    /\ Req.host => run.pc = "running"
    /\ Transmit(run.program.chunks[Len(wire.sent) + 1], ~Req.host)
    /\ UNCHANGED <<stepVars, stepLogVars>>

\* A pipe is closed when the process has ended; a connection to the daemon can break at any
\* time, with bytes under way.
OutputEnds ==
    /\ copier.pc # "off" /\ Alive
    /\ \/ run.pc # "running" /\ HangUp("eof", 0)
       \/ ~Req.host /\ \E lost \in 1..Len(wire.bytes) : HangUp("eof", lost)
       \/ ~Req.host /\ \E lost \in 0..Len(wire.bytes) : HangUp("broken", lost)
    /\ UNCHANGED <<stepVars, stepLogVars>>

(* The step ends.  Its own commands have written some of their lines; the   *)
(* commands that were added have run unless it ended before them, and their *)
(* success is then the exit code of the shell.                              *)
Shut(file) == IF run.program.private /\ file.there # "absent"
              THEN [file EXCEPT !.there = "locked"] ELSE file

Wrote(file, texts) == IF texts = <<>> THEN file ELSE Shut(AppendLines(file, texts, run.n))

Written(k, reached) ==
    LET own  == SubSeq(run.program.own, 1, k)
        decl == SubSeq(DeclaredOf(Req), 1, Writable(DeclaredOf(Req), run.program.env, Req.shell))
        tail == IF reached THEN DeclaredLines(decl, run.program.env, Delimiter(Req.dotenv))
                ELSE <<>>
        text == [f \in Files |-> CASE f = "out"      -> own \o tail
                                   [] f = "secret"   -> run.program.secretLines
                                   [] f = "artifact" -> run.program.artifact]
    IN  [f \in Files |-> Wrote(files[f], text[f])]

\* The exit codes of a step that has reached its last command.
LastCodes ==
    IF ~Declares THEN ExitCodes
    ELSE IF Writable(DeclaredOf(Req), run.program.env, Req.shell) = Len(DeclaredOf(Req))
         THEN {0} ELSE ExitCodes \ {0}

Exit(code, oom, reached) ==
    /\ run.pc = "running" /\ Alive
    /\ oom => ~Req.host /\ ~reached
    /\ reached => code \in LastCodes
    /\ \E k \in (IF reached THEN {Len(run.program.own)} ELSE 0..Len(run.program.own)) :
          files' = Written(k, reached)
    /\ run' = [run EXCEPT !.pc = "exited", !.through = reached,
                 !.res = [state |-> [Exited |-> TRUE, ExitCode |-> code, OOMKilled |-> oom],
                          err   |-> <<>>]]
    /\ UNCHANGED <<sink, results, stdCopyVars, stepLogVars>>

StepExits == \E end \in run.program.ends : Exit(end.code, end.oom, end.reached)

\* The wait for a container fails while it still runs.
WaitFails == ~Req.host /\ EngineGives("running", Pending)

\* Mutant: the process is waited for, its output is not.
EngineReturnsEarly == EngineGives("exited", run.res)

(* cmd.Wait joins the copying of a process; nobody waits for the copier of  *)
(* a container.                                                             *)
EngineReturns == (Req.host => copier.pc = "eof") /\ EngineGives("exited", run.res)

\* It can fail for another reason than the exit code, and the state is lost.
CmdWaitFails == Req.host /\ copier.pc = "eof" /\ EngineGives("exited", Pending)

RemarkMade ==
    /\ Runs("remark", "collect")
    /\ run.todo = <<>>
    /\ UNCHANGED <<files, sink, results, stdCopyVars, stepLogVars>>

-----------------------------------------------------------------------------
(* The copier's writes.                                                     *)

CopierWrites == Alive /\ copier.pc \in {"write", "rawwrite"}

Piece == IF copier.pc = "write" THEN Payload ELSE copier.buf

CopierDone(n) == IF copier.pc = "write" THEN FrameWritten(n) ELSE RawWritten

CopyMasked ==
    /\ CopierWrites /\ ~Req.drone
    /\ sink' = Append(sink, Mask(Piece))
    /\ CopierDone(WriteReturn(Piece, run.parts))
    /\ UNCHANGED <<run, files, results, stepLogVars>>

CopyLock ==
    /\ CopierWrites /\ Req.drone
    /\ WriteLock("copier", Piece)
    /\ UNCHANGED <<stepVars, stdCopyVars>>

CopyUnlock ==
    /\ Alive
    /\ WriteUnlock("copier")
    /\ CopierDone(Len(Piece))
    /\ UNCHANGED stepVars

CopierReads == Alive /\ (StdCopyStep \/ RawStep) /\ UNCHANGED <<stepVars, stepLogVars>>

Copier ==
    \/ CopierReads
    \/ CopyMasked
    \/ CopyLock
    \/ CopyUnlock

-----------------------------------------------------------------------------
(* The result.                                                              *)

Removed(names) == [f \in Files |-> IF f \in names THEN NoFile ELSE files[f]]

LinesRead ==
    LET read == IF ReadVars(Req, files).err THEN {} ELSE Range(files["out"].lines)
        secrets == IF Req.kind = "RunTest" \/ ~Req.dotenv THEN {} ELSE Range(files["secret"].lines)
    IN  IF ReadsOutputs(Req, run.res) THEN read \cup secrets ELSE {}

(* The files are read and removed; a removal that fails is only logged.     *)
Collect ==
    /\ Runs("collect", "done")
    /\ \E tested \in BOOLEAN, kept \in SUBSET Cleaned(Req, run.res, files) :
          LET sum == SummaryOf(Req, tested) IN
          /\ ~TestPanics(Req, run.res, files, sum)
          /\ files' = Removed(Cleaned(Req, run.res, files) \ kept)
          /\ Return([ResultOf(Req, run.res, files, sum) EXCEPT
                       !.artifact = ArtifactOf(Req, run.res, files),
                       !.from = LinesRead, !.kept = kept])
    /\ UNCHANGED <<sink, stdCopyVars>>

PanicCollect ==
    /\ Runs("collect", "panic")
    /\ TestPanics(Req, run.res, files, SummaryOf(Req, TRUE))
    /\ UNCHANGED <<files, sink, results, stdCopyVars, stepLogVars>>

\* The deadline of a drone step passes; what still runs is not stopped by that alone.
Expire ==
    /\ run.pc # "start" /\ Alive
    /\ Req.drone /\ Req.timeout
    /\ ~stepLog.done
    /\ Cancel
    /\ UNCHANGED <<stepVars, stdCopyVars>>

\* The step is run once more, under its id.
RunAgain ==
    /\ run.pc = "done" /\ Alive
    /\ run.n < MaxRuns
    /\ run.program.chunks = <<>> /\ ~Req.drone
    /\ copier.pc \in {"off", "eof", "failed"}
    /\ \E program \in Programs(Req, run.n + 1) :
          run' = [run EXCEPT !.pc = "idle", !.n = @ + 1, !.program = program,
                             !.res = Pending, !.through = FALSE]
    /\ sink' = <<>>
    /\ wire' = [bytes |-> <<>>, state |-> "open", sent |-> <<>>, cut |-> FALSE]
    /\ copier' = [pc |-> "off", buf |-> <<>>, cap |-> 0, handed |-> <<>>]
    /\ UNCHANGED <<files, results, stepLogVars>>

-----------------------------------------------------------------------------
Runner ==
    \/ MakeLog \/ SetupFails \/ Reject \/ PanicUnprepared \/ Prepare
    \/ PrintMasked \/ PrintLock \/ PrintUnlock
    \/ EngineFails \/ EngineStarts
    \/ EngineReturns \/ CmdWaitFails \/ RemarkMade
    \/ Collect \/ PanicCollect

Step == Output \/ OutputEnds \/ StepExits \/ WaitFails \/ Expire \/ RunAgain

(* Those who follow the log of a drone step, and the sends of a Write.      *)
SendOn(w) == Alive /\ WriteStep(w) /\ UNCHANGED <<stepVars, stdCopyVars>>

Stream(s) == Alive /\ Req.drone /\ StreamOutput(s) /\ UNCHANGED <<stepVars, stdCopyVars>>

ClientLeaves(s) == Alive /\ Leave(s) /\ UNCHANGED <<stepVars, stdCopyVars>>

Next ==
    \/ Runner
    \/ Step
    \/ Copier
    \/ \E w \in LogWriters : SendOn(w)
    \/ \E s \in Subscribers : Stream(s) \/ ClientLeaves(s)

Spec == StepRunInit /\ [][Next]_vars

(* A goroutine in a Write, the copier and the goroutines of the subscribers *)
(* go on.  Nothing is assumed of the step, of the daemon or of the clients: *)
(* they may stop for ever.                                                  *)
Fairness ==
    /\ WF_vars(Copier)
    /\ WF_vars(PrintUnlock)
    /\ \A w \in LogWriters : WF_vars(SendOn(w))
    /\ \A s \in Subscribers : WF_vars(Stream(s))

FairSpec == Spec /\ Fairness

-----------------------------------------------------------------------------
\* Each piece of state keeps its type.
TypeOK ==
    /\ run.pc \in {"start", "idle", "print", "running", "exited", "remark", "collect", "done",
                   "panic"}
    /\ run.n \in 1..MaxRuns /\ run.req \in Requests /\ run.todo \in Seq(Seq(Nat))
    /\ run.res.state \in State \cup {NoState} /\ run.through \in BOOLEAN
    /\ \A f \in Files :
          /\ files[f].there \in {"absent", "locked", "present"}
          /\ \A i \in DOMAIN files[f].lines : files[f].lines[i].by \in 1..MaxRuns
    /\ sink \in Seq(Seq(Nat))
    /\ Len(results) <= run.n
    /\ StdCopyTypeOK
    /\ StepLogTypeOK

(* What the copier hands to the log is the output of the step: the payloads *)
(* of whole frames in the order they were sent, however the connection cuts *)
(* them up and whatever has been read ahead; for a process the bytes of the *)
(* pipe.  Nothing is left out when the connection lost nothing and every    *)
(* frame names a stream (stdcopy.go:119-191, docker.go:429-434).            *)
Sent == [i \in DOMAIN wire.sent |-> wire.sent[i].data]

OutputIsCopied ==
    /\ IF Req.host THEN IsPrefix(FlattenSeq(copier.handed), FlattenSeq(Sent))
                   ELSE IsPrefix(copier.handed, Sent)
    /\ (/\ copier.pc \in {"eof", "failed"} /\ wire.state # "open" /\ ~wire.cut
        /\ \A i \in DOMAIN wire.sent : wire.sent[i].stream \in Streams) =>
            FlattenSeq(copier.handed) = FlattenSeq(Sent)

(* When a process of the host has been run, all its output is in the log    *)
(* before the run returns: what the runner does next, such as closing the   *)
(* log, comes after it (exec.go:27-35; LiveLog tells what happens to a step *)
(* for which this does not hold).                                           *)
ProcessOutputComplete ==
    Req.host /\ run.pc \in {"remark", "collect", "done"} /\ run.res.state # NoState =>
        /\ wire.bytes = <<>>
        /\ FlattenSeq(copier.handed) = FlattenSeq(Sent)

(* No line of a secret can be read in what is written to the log, neither   *)
(* in the output nor in the command that is printed; blanks around a line   *)
(* are not part of it, a line of one byte is none (replacer.go:22-55).      *)
SecretLines(secret) ==
    LET places == (DOMAIN secret) \X (DOMAIN secret)
        lines  == {p \in places :
                      /\ NewLine \notin Range(SubSeq(secret, p[1], p[2]))
                      /\ p[1] = 1 \/ secret[p[1] - 1] = NewLine
                      /\ p[2] = Len(secret) \/ secret[p[2] + 1] = NewLine}
    IN  {line \in {TrimSpace(SubSeq(secret, p[1], p[2])) : p \in lines} : Len(line) >= 2}

SecretsMasked ==
    \A i \in DOMAIN sink, k \in DOMAIN Req.secrets :
        \A line \in SecretLines(Req.secrets[k]) : ~Shows(sink[i], <<line>>)

(* A copier whose connection has ended ends: it does not read into a buffer *)
(* without room, nor wait for a frame that will not come.  Only a Write of  *)
(* a drone step that is stuck can hold it (stdcopy.go:119-174).             *)
CopierEnds ==
    (copier.pc # "off" /\ wire.state # "open" /\ ~Req.drone) ~>
        (copier.pc \in {"off", "eof", "failed"} \/ run.pc = "panic")

(* A client that follows a drone step is told of its end, whichever way the *)
(* run returned: its channel is closed and taken out of the map, unless a   *)
(* Write panics or is stuck on a refused channel (step_executor.go:141-171, *)
(* 181-202).                                                                *)
StreamEnds ==
    \A s \in Subscribers :
        (run.pc = "done" /\ sub[s].pc = "on") ~>
            (\/ s \notin stepLog.subscribers
             \/ stepLog.panicked
             \/ \E other \in stepLog.subscribers : sub[other].pc = "refused")

(* Every result is one that executeStep was written for: an error without a *)
(* state, a state without an error, or an unreadable output file after an   *)
(* exit with 0 (run.go:167-204, runtest.go:125-154, runtestsV2.go:178-220). *)
ResultIsRunResult ==
    \A i \in DOMAIN results :
        [state |-> results[i].state, err |-> results[i].err] \in RunResult

(* A variable the step declares is reported with the value its shell had,   *)
(* when the step succeeded, all its commands were run and no summary of     *)
(* tests is asked for; whatever its own commands, or an earlier run, have   *)
(* written to the file before.  Excepted is what a line of the file cannot  *)
(* hold: a key with the delimiter, a value of several lines or with blanks  *)
(* that godotenv trims; and a variable that one declared after it has the   *)
(* key of or may write over (common.go:45-96, 132-205, run.go:105-198,      *)
(* runtest.go:98-143).                                                      *)
DeclaredLine(i) == DeclaredText(DeclaredOf(Req)[i], run.program.env, Delimiter(Req.dotenv))

DeclaredValue(i) == EnvValue(run.program.env, DeclaredOf(Req)[i].Value)

Survives(i) ==
    /\ DeclaredOf(Req)[i].Key # Delimiter(Req.dotenv) /\ Break \notin Range(DeclaredLine(i))
    /\ Req.dotenv => TrimBlanks(DeclaredValue(i)) = DeclaredValue(i)
    /\ \A j \in DOMAIN DeclaredOf(Req) : j > i =>
          /\ DeclaredOf(Req)[j].Key # DeclaredOf(Req)[i].Key
          /\ Break \notin Range(DeclaredLine(j))

DeclaredReported ==
    run.pc = "done" /\ run.through /\ ~Req.testSummary =>
        LET result == Last(results) IN
        Success(result.state) /\ result.err = <<>> =>
            \A i \in DOMAIN DeclaredOf(Req) : Survives(i) =>
                LET declared == DeclaredOf(Req)[i] IN
                /\ <<declared.Key>> \in DOMAIN result.outputs
                /\ result.outputs[<<declared.Key>>] = DeclaredValue(i)
                /\ Req.outputs # <<>> =>
                       [Key |-> <<declared.Key>>, Value |-> DeclaredValue(i),
                        Type |-> declared.Type] \in result.outputsV2

(* A run reports nothing that an earlier run of the step has reported,      *)
(* unless the files of that run could not be removed; RunTest leaves them   *)
(* (run.go:136-161, 174-177, runtestsV2.go:147-172, 185-188).               *)
ReportedOnce ==
    \A i, j \in DOMAIN results :
        i < j /\ results[i].kept = {} /\ Req.kind # "RunTest" =>
            results[i].from \cap results[j].from = {}
=============================================================================
