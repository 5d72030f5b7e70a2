----------------------------- MODULE StepOutcome -----------------------------
(***************************************************************************)
(* What one execution of a step is worth to its callers: executeStep turns *)
(* the return values of the run, of the log writer's Close and of the      *)
(* step's context into a StepStatus, and convertStatus turns a StepStatus  *)
(* into the PollStepResponse a client reads                                *)
(* (pipeline/runtime/step_executor.go).                                    *)
(*                                                                         *)
(* Abstraction: an error is the sequence of the messages it holds, a       *)
(* message is a word for its origin, an exit code is a member of           *)
(* ExitCodes.  Outputs, artifacts and telemetry are carried along by the   *)
(* code untouched and are left out.                                        *)
(***************************************************************************)
EXTENDS Integers, SequencesExt

CONSTANTS ExitCodes,  \* the exit codes a container or a process can return
          NoState     \* the nil *runtime.State

\* -1 is what os/exec reports of a process a signal has killed.
ASSUME ExitCodesAssumption == ExitCodes \subseteq Int /\ 0 \in ExitCodes

State == [Exited : BOOLEAN, ExitCode : ExitCodes, OOMKilled : BOOLEAN]

ASSUME NoStateAssumption == NoState \notin State

\* The messages, each named for what it complains of.
Message == {"run failed", "outputs unreadable", "deadline exceeded", "upload failed",
            "oom killed", "exit status", "nudge"}

\* A Go error: "nil", a "plain" error value, or a "multi" *multierror.Error.
StepError == [kind : {"nil", "plain", "multi"}, msgs : Seq(Message)]

NilError   == [kind |-> "nil", msgs |-> <<>>]
Plain(msg) == [kind |-> "plain", msgs |-> <<msg>>]

\* multierror.Append: always a non-nil *Error, even when nothing is appended.
MultiAppend(err, msgs) == [kind |-> "multi", msgs |-> err.msgs \o msgs]

-----------------------------------------------------------------------------
(* What the run of a step returns: an error and no state (the container     *)
(* could not be created, started, followed or waited for), a state, or, when *)
(* the output file of a successful run could not be read, the error and the *)
(* state (run.go:172, runtest.go:125) or the error alone (runtestsV2.go:183).*)

Ended == {s \in State : s.Exited}

RunResult ==
    [state : {NoState}, err : {<<"run failed">>, <<"outputs unreadable">>}]
        \cup [state : Ended, err : {<<>>}]
        \cup [state : {s \in Ended : s.ExitCode = 0}, err : {<<"outputs unreadable">>}]

(* The rest of what decides the status: two fields of the request, whether  *)
(* the context of the step has expired when the run returns, whether        *)
(* livelog's Close returned an error, and whether a nudge matched the log.  *)

Surroundings == [LogDrone : BOOLEAN, Detach : BOOLEAN, expired : BOOLEAN,
                 closeErr : BOOLEAN, nudged : BOOLEAN]

Detached == [state |-> [Exited |-> FALSE, ExitCode |-> 0, OOMKilled |-> FALSE],
             err   |-> NilError]

TimedOut == [state |-> NoState, err |-> Plain("deadline exceeded")]

executeStepDrone(env, run) ==
    CASE env.Detach      -> Detached
      [] ~env.Detach /\ env.expired -> TimedOut
      [] ~env.Detach /\ ~env.expired /\ run.err # <<>> ->
            [state |-> NoState, err |-> Plain(Head(run.err))]
      [] OTHER -> [state |-> run.state, err |-> NilError]

CloseMsgs(env) == IF env.closeErr THEN <<"upload failed">> ELSE <<>>

(* A matched nudge of a failed step appends the variable `err`, which holds *)
(* what Close returned, not the nudge.                                      *)
NudgeMsgs(env) == CloseMsgs(env)

FailedState(state) == state # NoState /\ state.ExitCode # 0

\* Mutant: the error of Close is logged and dropped.
CollectRunErrors(env, run) ==
    IF run.err # <<>> THEN MultiAppend(NilError, run.err) ELSE NilError

CollectErrors(env, run) ==
    LET ran    == IF run.err # <<>> THEN MultiAppend(NilError, run.err) ELSE NilError
        closed == IF env.closeErr THEN MultiAppend(ran, CloseMsgs(env)) ELSE ran
    IN  IF FailedState(run.state) /\ env.nudged
        THEN MultiAppend(closed, NudgeMsgs(env))
        ELSE closed

executeStep(env, run) ==
    CASE env.LogDrone -> executeStepDrone(env, run)
      [] ~env.LogDrone /\ env.Detach -> Detached
      [] ~env.LogDrone /\ ~env.Detach /\ env.expired -> TimedOut
      [] OTHER -> [state |-> run.state, err |-> CollectErrors(env, run)]

-----------------------------------------------------------------------------
(* convertStatus.  The error of the status is not copied: when it is a      *)
(* *multierror.Error, Append writes the complaint about the state into the  *)
(* object every holder of the status shares.                                *)

Complaint(state) ==
    IF state = NoState THEN <<>>
    ELSE IF state.OOMKilled THEN <<"oom killed">>
    ELSE IF state.ExitCode # 0 THEN <<"exit status">>
    ELSE <<>>

Response == [Exited : BOOLEAN, OOMKilled : BOOLEAN, ExitCode : ExitCodes \cup {255},
             Error : Seq(Message)]

ResponseOf(state, kind, msgs) ==
    [Exited    |-> IF state = NoState THEN TRUE ELSE state.Exited,
     OOMKilled |-> IF state = NoState THEN FALSE ELSE state.OOMKilled,
     ExitCode  |-> IF kind # "nil" THEN 255
                   ELSE IF state = NoState THEN 0 ELSE state.ExitCode,
     Error     |-> msgs]
=============================================================================
