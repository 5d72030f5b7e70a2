----------------------------- MODULE StepResult -----------------------------
(***************************************************************************)
(* What a run makes of a step that has ended: executeRunStep,              *)
(* executeRunTestStep and executeRunTestsV2Step from the return of         *)
(* engine.Run on (pipeline/runtime/run.go, runtest.go, runtestsV2.go).     *)
(* Each reads the output files, joins what it reads with the summary of    *)
(* the tests, and leaves the files behind or removes them.                 *)
(*                                                                         *)
(* A request is a record: kind, drone (LogDrone), timeout (given for a     *)
(* drone step), host (no image), shell (Entrypoint[0], "none" for an empty *)
(* entrypoint), command (its lines), envs (the map of variables is there), *)
(* dotenv (CI_ENABLE_PLUGIN_OUTPUT_SECRETS), outputs, outputVars,          *)
(* testSummary (TestSummaryAsOutputEnabled), junit (paths of reports are   *)
(* given) and secrets.  Files is a record: out, secret and artifact.       *)
(*                                                                         *)
(* Abstraction: OutputV2 is a set, an empty map stands for a nil one too   *)
(* (the response omits both), the reports, savings and call graphs that    *)
(* lite-engine uploads are left out.                                       *)
(***************************************************************************)
EXTENDS StepOutcome, OutputFile

Files == {"out", "secret", "artifact"}

Declaration == [Key : STRING, Value : STRING, Type : {"STRING", "SECRET"}]

Request == [kind : {"Run", "RunTest", "RunTestsV2"}, drone : BOOLEAN, timeout : BOOLEAN,
            host : BOOLEAN, shell : STRING, command : Seq(Seq(Nat)), envs : BOOLEAN,
            dotenv : BOOLEAN, outputs : Seq(Declaration), outputVars : Seq(STRING),
            testSummary : BOOLEAN, junit : BOOLEAN, secrets : Seq(Seq(Nat))]

Success(state) == state # NoState /\ state.Exited /\ state.ExitCode = 0

Failure(msg) == [state |-> NoState, err |-> <<msg>>]

DeclaredOf(req) == IF req.outputs # <<>> THEN req.outputs ELSE AsDeclared(req.outputVars)

\* lite-engine's summary of the tests, external: what is saved of it when there are tests.
SummaryVars == <<"tests">> :> <<"3">>
SummaryV2(sum) == ReportedAll(sum, "STRING")

\* A run of kind Run asks for the summary only of reports it was given.
SummaryOf(req, tested) ==
    IF tested /\ (req.kind = "Run" => req.junit) THEN SummaryVars ELSE NoVars

AsOutput(req, sum) == IF req.testSummary THEN sum ELSE NoVars

\* For the properties only: from, the lines it was read from, and kept, the files that could
\* not be removed.
Result(run, vars, v2) ==
    [state |-> run.state, err |-> run.err, outputs |-> vars, outputsV2 |-> v2,
     artifact |-> <<>>, from |-> {}, kept |-> {}]

WithErr(run, failed) ==
    IF failed THEN [run EXCEPT !.err = <<"outputs unreadable">>] ELSE run

ReadVars(req, files) ==
    IF req.dotenv THEN fetchExportedVarsFromEnvFile(files["out"])
    ELSE fetchOutputVariables(files["out"], Blank)

-----------------------------------------------------------------------------
(* Each kind's result of a successful run: `files` as the step has left     *)
(* them, `sum` the summary.                                                 *)

\* With the dotenv files, Run and RunTestsV2 report alike; secrets are reported as such.
DotEnvResult(req, run, files, sum) ==
    LET read    == ReadVars(req, files)
        secrets == fetchExportedVarsFromEnvFile(files["secret"]).vars
        own     == IF req.outputs # <<>> THEN Reported(req.outputs, read.vars)
                   ELSE ReportedAll(read.vars, "STRING")
    IN  Result(WithErr(run, read.err /\ DeclaredOf(req) # <<>>), read.vars,
               own \cup ReportedAll(secrets, "SECRET") \cup SummaryV2(AsOutput(req, sum)))

\* A summary takes the place of variables that are not declared as Outputs.
PlainRunResult(req, run, files, sum) ==
    LET read == ReadVars(req, files)
        v2   == SummaryV2(AsOutput(req, sum)) IN
    CASE read.err -> Result(WithErr(run, TRUE), NoVars, {})
      [] ~read.err /\ req.outputs # <<>> ->
            Result(run, read.vars, Reported(req.outputs, read.vars) \cup v2)
      [] ~read.err /\ req.outputs = <<>> /\ v2 # {} -> Result(run, sum, v2)
      [] OTHER -> Result(run, read.vars, {})

\* As above, but the state is lost with an unreadable file, and OutputVars are replaced
\* by the summary even when it is empty.
PlainTestsV2Result(req, run, files, sum) ==
    LET read == ReadVars(req, files)
        v2   == SummaryV2(AsOutput(req, sum)) IN
    CASE read.err -> Result(Failure("outputs unreadable"), NoVars, {})
      [] ~read.err /\ req.outputs # <<>> ->
            Result(run, read.vars, Reported(req.outputs, read.vars) \cup v2)
      [] ~read.err /\ req.outputs = <<>> /\ req.outputVars # <<>> /\ req.testSummary ->
            Result(run, sum, v2)
      [] OTHER -> Result(run, read.vars, IF req.outputVars # <<>> THEN {} ELSE v2)

\* RunTest puts the summary into the map it has read.
TestResult(req, run, files, sum) ==
    LET read   == ReadVars(req, files)
        summed == AsOutput(req, sum)
        vars   == [key \in DOMAIN summed \cup DOMAIN read.vars |->
                      IF key \in DOMAIN summed THEN summed[key] ELSE read.vars[key]]
    IN  Result(WithErr(run, read.err), vars,
               IF req.outputs = <<>> THEN {}
               ELSE Reported(req.outputs, vars) \cup SummaryV2(summed))

\* The map is nil when the file could not be read: putting a summary into it is a panic.
TestPanics(req, run, files, sum) ==
    /\ req.kind = "RunTest" /\ Success(run.state) /\ DeclaredOf(req) # <<>>
    /\ ReadVars(req, files).err /\ AsOutput(req, sum) # NoVars

\* A run that failed, and a RunTest that declares nothing, report the summary alone.
SummaryResult(req, run, sum) ==
    Result(run, AsOutput(req, sum), SummaryV2(AsOutput(req, sum)))

\* Mutant: the output file of a failed run is read as well.
ReadsAlways(req, run) == req.kind # "RunTest" \/ DeclaredOf(req) # <<>>

ReadsOutputs(req, run) ==
    Success(run.state) /\ (req.kind # "RunTest" \/ DeclaredOf(req) # <<>>)

ResultOf(req, run, files, sum) ==
    CASE ~ReadsOutputs(req, run) -> SummaryResult(req, run, sum)
      [] ReadsOutputs(req, run) /\ req.kind = "RunTest" -> TestResult(req, run, files, sum)
      [] ReadsOutputs(req, run) /\ req.kind # "RunTest" /\ req.dotenv ->
            DotEnvResult(req, run, files, sum)
      [] ReadsOutputs(req, run) /\ req.kind = "Run" /\ ~req.dotenv ->
            PlainRunResult(req, run, files, sum)
      [] OTHER -> PlainTestsV2Result(req, run, files, sum)

-----------------------------------------------------------------------------
(* The artifact is read after every run and never removed; it is not        *)
(* reported with a plain output file that could not be read.                *)
ArtifactOf(req, run, files) ==
    LET unread == ReadsOutputs(req, run) /\ req.kind # "RunTest" /\ ~req.dotenv
                    /\ ReadVars(req, files).err
    IN  IF files["artifact"].there = "present" /\ ~unread THEN files["artifact"].lines ELSE <<>>

\* Mutant: only the dotenv files are removed.
CleanedDotEnv(req, run, files) ==
    IF ReadsOutputs(req, run) /\ req.kind # "RunTest" /\ req.dotenv
    THEN {"out", "secret"} ELSE {}

(* The files a run tries to remove: the plain one only once it was read,    *)
(* the dotenv ones in any case, and none after a RunTest.                   *)
Cleaned(req, run, files) ==
    IF ~ReadsOutputs(req, run) \/ req.kind = "RunTest" THEN {}
    ELSE IF req.dotenv THEN {"out", "secret"}
    ELSE IF ReadVars(req, files).err THEN {} ELSE {"out"}
=============================================================================
