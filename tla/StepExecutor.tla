---------------------------- MODULE StepExecutor ----------------------------
(***************************************************************************)
(* The registry that starts steps and answers for them                     *)
(* (pipeline/runtime/step_executor.go) under the two HTTP handlers that    *)
(* call it (handler/step.go).                                              *)
(*                                                                         *)
(* A request is a goroutine of the HTTP server.  HandleStartStep calls     *)
(* StartStep and then PollStep on the executor of the stage;               *)
(* HandlePollStep calls PollStep on the one executor cli/server/server.go  *)
(* makes for the whole server.  A step that is started gets a goroutine of *)
(* its own, which runs it, records its status under the mutex and then     *)
(* sends the status to the channels it found there.  What is done under    *)
(* one Lock/Unlock pair is one action; everything outside interleaves.     *)
(***************************************************************************)
EXTENDS StepOutcome

CONSTANTS StepIds,    \* the step ids of one stage
          NoId,       \* the empty id
          StartReqs,  \* requests to /step
          PollReqs,   \* requests to /poll_step
          None,       \* nothing there: no map entry, an empty channel
          Refused     \* the reply body that carries an error and no response

Requests == StartReqs \cup PollReqs

\* The maps of the stage's executor and of the server's.
Key == {"stage", "server"} \X StepIds

\* The error of a StepStatus is a pointer: what it points at is in step.
StepStatus == [Status : {"Running", "Complete"}, State : State \cup {NoState},
               StepErr : {"nil", "plain", "multi"}]

ASSUME NamesAssumption ==
    /\ NoId \notin StepIds
    /\ StartReqs \cap PollReqs = {}
    /\ None \notin StepStatus /\ None \notin StepIds \cup {NoId}
    /\ Refused \notin Response

VARIABLES
    stepStatus,  \* [Key -> StepStatus \cup {None}]
    stepWaitCh,  \* [Key -> Seq(Requests)]: each channel is named by its request
    step,        \* the goroutine of each step and the error of its status
    req          \* the handler of each request

vars == <<stepStatus, stepWaitCh, step, req>>

(* step[k]: where the goroutine is, the channels it has still to send to,   *)
(* the messages in the error of the status and, for the properties only,    *)
(* what went wrong in the run.                                              *)
Troubles == {"failure", "nudge"}
NoRun    == [at |-> "none", channels |-> <<>>, entries |-> <<>>, trouble |-> {}]

(* req[r]: where the handler is, the id asked for, the one-slot channel     *)
(* PollStep made, the status to convert, the messages convertStatus has     *)
(* read, and the bodies written in reply.                                   *)
NoRequest == [pc |-> "idle", id |-> None, ch |-> None, got |-> None,
              seen |-> <<>>, body |-> <<>>]

KeyOf(r) == <<IF r \in StartReqs THEN "stage" ELSE "server", req[r].id>>

\* The request names a step its executor has a status of.
Known(r) == req[r].id # NoId /\ stepStatus[KeyOf(r)] # None

StatusIs(r, st) == Known(r) /\ stepStatus[KeyOf(r)].Status = st

\* What was written in reply to a request, and one body more.
Written(r, body) == Append(req[r].body, body)

Init ==
    /\ stepStatus = [k \in Key |-> None]
    /\ stepWaitCh = [k \in Key |-> <<>>]
    /\ step = [k \in Key |-> NoRun]
    /\ req = [r \in Requests |-> NoRequest]

\* A request arrives and its body is decoded.
Arrive(r, id) ==
    /\ req[r].pc = "idle"
    /\ req' = [req EXCEPT ![r] =
                 [@ EXCEPT !.id = id, !.pc = IF r \in StartReqs THEN "start" ELSE "poll"]]
    /\ UNCHANGED <<stepStatus, stepWaitCh, step>>

-----------------------------------------------------------------------------
(* StartStep.  An empty id is refused, and HandleStartStep goes on to poll   *)
(* all the same; a step that has a status is left alone; any other step is   *)
(* marked Running under the lock and gets its goroutine.                     *)

StartRefuse(r) ==
    /\ req[r].id = NoId
    /\ req' = [req EXCEPT ![r] = [@ EXCEPT !.pc = "poll", !.body = Written(r, Refused)]]
    /\ UNCHANGED <<stepStatus, step>>

StartKnown(r) ==
    /\ Known(r)
    /\ req' = [req EXCEPT ![r].pc = "poll"]
    /\ UNCHANGED <<stepStatus, step>>

\* Mutant: the Running mark is forgotten and the zero status stored.
LaunchUnmarked(r) ==
    /\ stepStatus' = [stepStatus EXCEPT ![KeyOf(r)] =
                        [Status |-> "NotStarted", State |-> NoState, StepErr |-> "nil"]]
    /\ step' = [step EXCEPT ![KeyOf(r)].at = "executing"]
    /\ req' = [req EXCEPT ![r].pc = "poll"]

Launch(r) ==
    /\ stepStatus' = [stepStatus EXCEPT ![KeyOf(r)] =
                        [Status |-> "Running", State |-> NoState, StepErr |-> "nil"]]
    /\ step' = [step EXCEPT ![KeyOf(r)].at = "executing"]
    /\ req' = [req EXCEPT ![r].pc = "poll"]

\* Mutant: the test for an earlier start is dropped.
StartAgain(r) == req[r].id # NoId /\ Launch(r)

StartFresh(r) == req[r].id # NoId /\ ~Known(r) /\ Launch(r)

StartStep(r) ==
    /\ req[r].pc = "start"
    /\ StartRefuse(r) \/ StartKnown(r) \/ StartFresh(r)
    /\ UNCHANGED stepWaitCh

-----------------------------------------------------------------------------
(* PollStep: refuse an empty id or an unknown step, take the status of a     *)
(* completed one, and otherwise leave a channel and wait.  The branches of   *)
(* the test for an entry are as the code has them: the first waiter is       *)
(* appended to nothing, a later one replaces the list.                       *)

PollRefuse(r) ==
    /\ ~Known(r)
    /\ req' = [req EXCEPT ![r] = [@ EXCEPT !.pc = "done", !.body = Written(r, Refused)]]
    /\ UNCHANGED stepWaitCh

PollComplete(r) ==
    /\ StatusIs(r, "Complete")
    /\ req' = [req EXCEPT ![r] = [@ EXCEPT !.pc = "convert", !.got = stepStatus[KeyOf(r)]]]
    /\ UNCHANGED stepWaitCh

Enlist(waiting, r) == IF waiting = <<>> THEN Append(waiting, r) ELSE <<r>>

\* Mutant: the status is not looked at again before the channel is left.
PollWaitUnchecked(r) ==
    /\ Known(r)
    /\ stepWaitCh' = [stepWaitCh EXCEPT ![KeyOf(r)] = Enlist(@, r)]
    /\ req' = [req EXCEPT ![r].pc = "wait"]

PollWait(r) ==
    /\ StatusIs(r, "Running")
    /\ stepWaitCh' = [stepWaitCh EXCEPT ![KeyOf(r)] = Enlist(@, r)]
    /\ req' = [req EXCEPT ![r].pc = "wait"]

PollStep(r) ==
    /\ req[r].pc = "poll"
    /\ PollRefuse(r) \/ PollComplete(r) \/ PollWait(r)
    /\ UNCHANGED <<stepStatus, step>>

\* status := <-ch
Receive(r) ==
    /\ req[r].pc = "wait"
    /\ req[r].ch # None
    /\ req' = [req EXCEPT ![r] = [@ EXCEPT !.pc = "convert", !.got = req[r].ch, !.ch = None]]
    /\ UNCHANGED <<stepStatus, stepWaitCh, step>>

-----------------------------------------------------------------------------
(* convertStatus, outside the lock.  A complaint about the state is appended *)
(* to the error: to a fresh one, or in place to the *multierror.Error that   *)
(* every request for this step shares.  The append in place is not           *)
(* synchronised and so is a read and a later write; the text of the error is *)
(* read once more when the response is built.                                *)

InPlace(r) == req[r].got.StepErr = "multi" /\ Complaint(req[r].got.State) # <<>>

ConvertPrivately(r) ==
    /\ req[r].pc = "convert"
    /\ ~InPlace(r)
    /\ req' = [req EXCEPT ![r] =
                 [@ EXCEPT !.pc = "respond",
                           !.seen = step[KeyOf(r)].entries \o Complaint(req[r].got.State)]]
    /\ UNCHANGED <<stepStatus, stepWaitCh, step>>

ConvertRead(r) ==
    /\ req[r].pc = "convert"
    /\ InPlace(r)
    /\ req' = [req EXCEPT ![r] = [@ EXCEPT !.pc = "append", !.seen = step[KeyOf(r)].entries]]
    /\ UNCHANGED <<stepStatus, stepWaitCh, step>>

ConvertAppend(r) ==
    /\ req[r].pc = "append"
    /\ step' = [step EXCEPT ![KeyOf(r)].entries =
                                req[r].seen \o Complaint(req[r].got.State)]
    /\ req' = [req EXCEPT ![r].pc = "respond"]
    /\ UNCHANGED <<stepStatus, stepWaitCh>>

Messages(r) ==
    IF req[r].got.StepErr = "multi" THEN step[KeyOf(r)].entries ELSE req[r].seen

Respond(r) ==
    /\ req[r].pc = "respond"
    /\ req' = [req EXCEPT ![r] =
                 [@ EXCEPT !.pc = "done", !.body =
                    Written(r, ResponseOf(req[r].got.State, req[r].got.StepErr, Messages(r)))]]
    /\ UNCHANGED <<stepStatus, stepWaitCh, step>>

-----------------------------------------------------------------------------
(* The goroutine of a step.  What went wrong, as the code below executeStep  *)
(* sees it: a failure, and a nudge that matched the log of a step that ended *)
(* with an exit code of its own.  A detached step is not waited for.         *)

Failure(env, run) ==
    /\ ~env.Detach
    /\ \/ env.expired
       \/ run.err # <<>>
       \/ run.state # NoState /\ (run.state.ExitCode # 0 \/ run.state.OOMKilled)
       \/ env.closeErr /\ ~env.LogDrone

Nudged(env, run) ==
    /\ ~env.Detach /\ ~env.LogDrone /\ ~env.expired
    /\ FailedState(run.state) /\ env.nudged

TroubleOf(env, run) == {t \in Troubles : (t = "failure" /\ Failure(env, run))
                                        \/ (t = "nudge" /\ Nudged(env, run))}

Endings == {[outcome |-> executeStep(env, run), trouble |-> TroubleOf(env, run)] :
                env \in Surroundings, run \in RunResult}

Completed(outcome) ==
    [Status |-> "Complete", State |-> outcome.state, StepErr |-> outcome.err.kind]

\* Mutant: the status is stored and the waiting channels are not collected.
FinishSilently(k, ending) ==
    /\ step[k].at = "executing"
    /\ stepStatus' = [stepStatus EXCEPT ![k] = Completed(ending.outcome)]
    /\ step' = [step EXCEPT ![k] =
                  [at |-> "notifying", channels |-> <<>>,
                   entries |-> ending.outcome.err.msgs, trouble |-> ending.trouble]]
    /\ UNCHANGED <<stepWaitCh, req>>

\* executeStep has returned; status and channels change hands under one lock.
Finish(k, ending) ==
    /\ step[k].at = "executing"
    /\ stepStatus' = [stepStatus EXCEPT ![k] = Completed(ending.outcome)]
    /\ step' = [step EXCEPT ![k] =
                  [at |-> "notifying", channels |-> stepWaitCh[k],
                   entries |-> ending.outcome.err.msgs, trouble |-> ending.trouble]]
    /\ UNCHANGED <<stepWaitCh, req>>

\* for _, ch := range channels { ch <- status }
Notify(k) ==
    LET r == Head(step[k].channels) IN
    /\ step[k].channels # <<>>
    /\ req[r].ch = None
    /\ req' = [req EXCEPT ![r].ch = stepStatus[k]]
    /\ step' = [step EXCEPT ![k].channels = Tail(@)]
    /\ UNCHANGED <<stepStatus, stepWaitCh>>

-----------------------------------------------------------------------------
Handle(r) ==
    \/ StartStep(r) \/ PollStep(r) \/ Receive(r)
    \/ ConvertPrivately(r) \/ ConvertRead(r) \/ ConvertAppend(r) \/ Respond(r)

Next ==
    \/ \E r \in Requests, id \in StepIds \cup {NoId} : Arrive(r, id)
    \/ \E r \in Requests : Handle(r)
    \/ \E k \in Key, ending \in Endings : Finish(k, ending)
    \/ \E k \in Key : Notify(k)

Spec == Init /\ [][Next]_vars

(* Goroutines that can run do run.  Nothing is assumed of the clients        *)
(* (Arrive) or of the program a step runs (Finish).                          *)
Fairness ==
    /\ \A r \in Requests : WF_vars(Handle(r))
    /\ \A k \in Key : WF_vars(Notify(k))

FairSpec == Spec /\ Fairness

-----------------------------------------------------------------------------
StepRecord ==
    [at : {"none", "executing", "notifying"}, channels : Seq(Requests),
     entries : Seq(Message), trouble : SUBSET Troubles]

RequestRecord ==
    [pc : {"idle", "start", "poll", "wait", "convert", "append", "respond", "done"},
     id : StepIds \cup {NoId, None}, ch : StepStatus \cup {None},
     got : StepStatus \cup {None}, seen : Seq(Message), body : Seq(Response \cup {Refused})]

\* Each piece of state keeps its type.
TypeOK ==
    /\ stepStatus \in [Key -> StepStatus \cup {None}]
    /\ stepWaitCh \in [Key -> Seq(Requests)]
    /\ step \in [Key -> StepRecord]
    /\ req \in [Requests -> RequestRecord]

\* The request is the one the executor would wake.
Enlisted(r) == r \in Range(stepWaitCh[KeyOf(r)])

(* No lost wake-up: a request that waits and whose channel the executor      *)
(* still lists is waiting for a step that runs, or the status is on its way  *)
(* to it.  PollStep decides to wait and Finish collects the waiters under    *)
(* one lock (step_executor.go:99-118 and 82-85); a test of the status        *)
(* outside it would break this.                                              *)
NoLostWakeup ==
    \A r \in Requests :
        req[r].pc = "wait" /\ Enlisted(r) =>
            \/ StatusIs(r, "Running")
            \/ r \in Range(step[KeyOf(r)].channels)
            \/ req[r].ch # None

Responses(r) == Range(req[r].body) \ {Refused}

(* A response tells success from failure: it carries an error exactly when   *)
(* something went wrong on any of the paths executeStep collects errors      *)
(* from, whoever converted the shared status before; and its exit code is    *)
(* zero exactly when nothing did, but for an out-of-memory kill that left    *)
(* exit code 0 (step_executor.go:236-350).                                   *)
OutcomeReported ==
    \A r \in Requests : \A resp \in Responses(r) :
        LET failed == "failure" \in step[KeyOf(r)].trouble IN
        /\ failed <=> resp.Error # <<>>
        /\ resp.ExitCode # 0 => failed
        /\ failed /\ ~resp.OOMKilled => resp.ExitCode # 0

(* The executor is a StepService: one run and one result per step, and every *)
(* response says what the result says.  How often the shared error repeats   *)
(* the complaint is the one thing two responses may differ in.               *)
Verdict(resp) == [Exited |-> resp.Exited, OOMKilled |-> resp.OOMKilled,
                  ExitCode |-> resp.ExitCode, Errors |-> Range(resp.Error)]

VerdictOf(state, kind, msgs) == Verdict(ResponseOf(state, kind, msgs \o Complaint(state)))

Verdicts == {VerdictOf(e.outcome.state, e.outcome.err.kind, e.outcome.err.msgs) : e \in Endings}

Phase(k) == CASE stepStatus[k] = None -> "unknown"
              [] stepStatus[k] # None /\ stepStatus[k].Status = "Running" -> "running"
              [] OTHER -> "complete"

Service == INSTANCE StepService WITH
    Steps   <- Key,
    Results <- Verdicts,
    Unnamed <- NoId,
    phase   <- [k \in Key |-> Phase(k)],
    result  <- [k \in Key |->
                  IF Phase(k) # "complete" THEN None
                  ELSE VerdictOf(stepStatus[k].State, stepStatus[k].StepErr, step[k].entries)],
    asked   <- [r \in Requests |-> IF req[r].id \in StepIds THEN KeyOf(r) ELSE req[r].id],
    replies <- [r \in Requests |->
                  [i \in DOMAIN req[r].body |-> IF req[r].body[i] = Refused THEN Refused
                                                ELSE Verdict(req[r].body[i])]]

ServiceSpec == Service!Spec

(* A request the executor still lists when its step completes is answered,   *)
(* whatever the other requests do (step_executor.go:84-89, 120-121).         *)
ListedWaiterAnswered ==
    \A r \in Requests :
        (req[r].pc = "wait" /\ Enlisted(r) /\ step[KeyOf(r)].at = "notifying")
            ~> (req[r].pc = "done")

-----------------------------------------------------------------------------
(* What the texts of the repository say and the code does not do.            *)

(* handler/step.go:85-90: a start request that polls for its step receives   *)
(* the response.                                                             *)
EveryWaiterAnswered ==
    \A r \in Requests :
        (req[r].pc = "wait" /\ step[KeyOf(r)].at = "notifying") ~> (req[r].pc = "done")

(* step_executor.go:104: a poll is told "Step has not started" of a step     *)
(* that has not started.                                                     *)
NotStartedIsTrue ==
    [][\A r \in PollReqs :
         req[r].id \in StepIds /\ req'[r].body # req[r].body /\ Responses(r)' = {}
            => stepStatus[<<"stage", req[r].id>>] = None]_vars

(* logstream/nudge.go:7: a nudge is provided if its term is found, so the    *)
(* response of a failed step whose log matched one carries it.               *)
NudgeReported ==
    \A r \in Requests : \A resp \in Responses(r) :
        "nudge" \in step[KeyOf(r)].trouble => "nudge" \in Range(resp.Error)
=============================================================================
