------------------------- MODULE StepExecutorProofs -------------------------
(***************************************************************************)
(* Proofs about StepExecutor, for any steps, requests and exit codes.      *)
(***************************************************************************)
EXTENDS StepExecutor, SequenceLemmas

Outcome == [state : State \cup {NoState}, err : StepError]

Ending == [outcome : Outcome, trouble : SUBSET Troubles]

-----------------------------------------------------------------------------
(* The operators of StepOutcome return what their names say.                *)

LEMMA RunResultType ==
    ASSUME NEW run \in RunResult
    PROVE  run.state \in State \cup {NoState} /\ run.err \in Seq(Message)
<1>1. <<"run failed">> \in Seq(Message) /\ <<"outputs unreadable">> \in Seq(Message)
  BY OneElement DEF Message
<1>2. CASE run \in [state : {NoState}, err : {<<"run failed">>, <<"outputs unreadable">>}]
  <2>1. run.state = NoState /\ run.err \in {<<"run failed">>, <<"outputs unreadable">>}
    BY <1>2
  <2>2. QED
    BY <1>1, <2>1
<1>3. CASE run \in [state : Ended, err : {<<>>}]
  BY <1>3, NoElement DEF Ended
<1>4. CASE run \in [state : {s \in Ended : s.ExitCode = 0}, err : {<<"outputs unreadable">>}]
  <2>1. run.err = <<"outputs unreadable">>
    BY <1>4
  <2>2. run.state \in State
    BY <1>4 DEF Ended
  <2>3. QED
    BY <1>1, <2>1, <2>2
<1>5. QED
  BY <1>2, <1>3, <1>4 DEF RunResult

LEMMA MultiAppendType ==
    ASSUME NEW err \in StepError, NEW msgs \in Seq(Message)
    PROVE  MultiAppend(err, msgs) \in StepError
BY DEF MultiAppend, StepError

LEMMA CollectErrorsType ==
    ASSUME NEW env \in Surroundings, NEW run \in RunResult
    PROVE  CollectErrors(env, run) \in StepError
<1>1. run.err \in Seq(Message)
  BY RunResultType
<1>2. NilError \in StepError
  BY DEF NilError, StepError
<1>3. CloseMsgs(env) \in Seq(Message) /\ NudgeMsgs(env) \in Seq(Message)
  BY OneElement, NoElement DEF Message, CloseMsgs, NudgeMsgs
<1> DEFINE ran    == IF run.err # <<>> THEN MultiAppend(NilError, run.err) ELSE NilError
           closed == IF env.closeErr THEN MultiAppend(ran, CloseMsgs(env)) ELSE ran
<1>4. ran \in StepError
  BY <1>1, <1>2, MultiAppendType
<1>5. closed \in StepError
  BY <1>3, <1>4, MultiAppendType
<1>6. MultiAppend(closed, NudgeMsgs(env)) \in StepError
  BY <1>3, <1>5, MultiAppendType
<1>7. QED
  BY <1>5, <1>6 DEF CollectErrors

LEMMA executeStepType ==
    ASSUME NEW env \in Surroundings, NEW run \in RunResult
    PROVE  executeStep(env, run) \in Outcome
<1>1. CollectErrors(env, run) \in StepError
  BY CollectErrorsType
<1>2. run.state \in State \cup {NoState} /\ run.err \in Seq(Message)
  BY RunResultType
<1>3. Detached \in Outcome
  BY ExitCodesAssumption DEF Detached, Outcome, NilError, StepError, State
<1>4. TimedOut \in Outcome
  <2>1. <<"deadline exceeded">> \in Seq(Message)
    BY OneElement DEF Message
  <2>2. QED
    BY <2>1 DEF TimedOut, Outcome, Plain, StepError
<1>5. executeStepDrone(env, run) \in Outcome
  <2>1. CASE env.Detach
    BY <2>1, <1>3 DEF executeStepDrone
  <2>2. CASE ~env.Detach /\ env.expired
    BY <2>2, <1>4 DEF executeStepDrone
  <2>3. CASE ~env.Detach /\ ~env.expired /\ run.err # <<>>
    <3>1. Head(run.err) \in Message
      BY <1>2, <2>3
    <3>2. [state |-> NoState, err |-> Plain(Head(run.err))] \in Outcome
      BY <3>1 DEF Outcome, Plain, StepError
    <3>3. QED
      BY <2>3, <3>2 DEF executeStepDrone
  <2>4. CASE ~env.Detach /\ ~env.expired /\ run.err = <<>>
    <3>1. [state |-> run.state, err |-> NilError] \in Outcome
      BY <1>2 DEF Outcome, NilError, StepError
    <3>2. QED
      BY <2>4, <3>1 DEF executeStepDrone
  <2>5. QED
    BY <2>1, <2>2, <2>3, <2>4
<1>6. [state |-> run.state, err |-> CollectErrors(env, run)] \in Outcome
  BY <1>1, <1>2 DEF Outcome
<1>7. QED
  BY <1>3, <1>4, <1>5, <1>6 DEF executeStep

LEMMA EndingType == ASSUME NEW e \in Endings PROVE e \in Ending
<1>1. PICK env \in Surroundings, run \in RunResult :
        e = [outcome |-> executeStep(env, run), trouble |-> TroubleOf(env, run)]
  BY DEF Endings
<1>2. executeStep(env, run) \in Outcome
  BY executeStepType
<1>3. TroubleOf(env, run) \in SUBSET Troubles
  BY DEF TroubleOf
<1>4. QED
  BY <1>1, <1>2, <1>3 DEF Ending

LEMMA ComplaintType ==
    ASSUME NEW s \in State \cup {NoState}
    PROVE  Complaint(s) \in Seq(Message)
BY OneElement, NoElement DEF Message, Complaint

LEMMA ResponseType ==
    ASSUME NEW s \in State \cup {NoState}, NEW kind, NEW msgs \in Seq(Message)
    PROVE  ResponseOf(s, kind, msgs) \in Response
BY ExitCodesAssumption DEF ResponseOf, Response, State

-----------------------------------------------------------------------------
(* Types.  TypeOK alone is not inductive: the key of a request is a key of   *)
(* the maps only once its id is known, and a status can be converted only    *)
(* when one was received.                                                    *)

\* A request that has arrived names an id.
Asked == \A r \in Requests : req[r].pc # "idle" => req[r].id \in StepIds \cup {NoId}

\* A request past the tests of PollStep names a step that has a status.
PolledKnown ==
    \A r \in Requests : req[r].pc \in {"wait", "convert", "append", "respond"} =>
        req[r].id \in StepIds /\ stepStatus[KeyOf(r)] # None

\* A request that converts has a status to convert.
GotStatus ==
    \A r \in Requests : req[r].pc \in {"convert", "append", "respond"} =>
        req[r].got \in StepStatus

Typed == TypeOK /\ Asked /\ PolledKnown /\ GotStatus

LEMMA KeyOfType ==
    ASSUME NEW r \in Requests, req[r].id \in StepIds
    PROVE  KeyOf(r) \in Key
BY DEF KeyOf, Key

LEMMA RunningType == [Status |-> "Running", State |-> NoState, StepErr |-> "nil"] \in StepStatus
BY DEF StepStatus

LEMMA CompletedType ==
    ASSUME NEW e \in Endings
    PROVE  Completed(e.outcome) \in StepStatus /\ e.outcome.err.msgs \in Seq(Message)
                                               /\ e.trouble \in SUBSET Troubles
<1>1. e \in Ending
  BY EndingType
<1>2. e.outcome \in Outcome /\ e.trouble \in SUBSET Troubles
  BY <1>1 DEF Ending
<1>3. e.outcome.state \in State \cup {NoState} /\ e.outcome.err \in StepError
  BY <1>2 DEF Outcome
<1>4. QED
  BY <1>2, <1>3 DEF Completed, StepStatus, StepError

LEMMA TypedInit == Init => Typed
BY NoElement DEF Init, Typed, TypeOK, Asked, PolledKnown, GotStatus, NoRun, NoRequest,
     StepRecord, RequestRecord

\* What has to be said of the one request an action moves.
MovesOnly(r) ==
    /\ \A q \in Requests \ {r} : req'[q] = req[q]
    /\ \A k \in Key : stepStatus[k] # None => stepStatus'[k] # None

LEMMA TypedOthers ==
    ASSUME Typed, TypeOK', NEW r \in Requests, MovesOnly(r),
           req'[r].pc # "idle" => req'[r].id \in StepIds \cup {NoId},
           req'[r].pc \in {"wait", "convert", "append", "respond"} =>
               req'[r].id \in StepIds /\ stepStatus'[KeyOf(r)'] # None,
           req'[r].pc \in {"convert", "append", "respond"} => req'[r].got \in StepStatus
    PROVE  Typed'
<1>1. Asked'
  BY DEF Typed, Asked, MovesOnly
<1>2. GotStatus'
  BY DEF Typed, GotStatus, MovesOnly
<1>3. PolledKnown'
  <2> SUFFICES ASSUME NEW q \in Requests, req'[q].pc \in {"wait", "convert", "append", "respond"}
               PROVE  req'[q].id \in StepIds /\ stepStatus'[KeyOf(q)'] # None
    BY DEF PolledKnown
  <2>1. CASE q = r
    BY <2>1
  <2>2. CASE q # r
    <3>1. req'[q] = req[q] /\ KeyOf(q)' = KeyOf(q)
      BY <2>2 DEF MovesOnly, KeyOf
    <3>2. req[q].id \in StepIds /\ stepStatus[KeyOf(q)] # None
      BY <3>1 DEF Typed, PolledKnown
    <3>3. KeyOf(q) \in Key
      BY <3>2, KeyOfType
    <3>4. QED
      BY <3>1, <3>2, <3>3 DEF MovesOnly
  <2>3. QED
    BY <2>1, <2>2
<1>4. QED
  BY <1>1, <1>2, <1>3 DEF Typed

LEMMA TypedArrive ==
    ASSUME Typed, NEW r \in Requests, NEW id \in StepIds \cup {NoId}, Arrive(r, id)
    PROVE  Typed'
<1>1. [req[r] EXCEPT !.id = id, !.pc = IF r \in StartReqs THEN "start" ELSE "poll"]
        \in RequestRecord
  BY DEF Typed, TypeOK, RequestRecord
<1>2. TypeOK'
  BY <1>1 DEF Arrive, Typed, TypeOK
<1>3. req'[r].pc \in {"start", "poll"} /\ req'[r].id = id /\ MovesOnly(r)
  BY DEF Arrive, Typed, TypeOK, RequestRecord, MovesOnly
<1>4. QED
  BY <1>2, <1>3, TypedOthers

LEMMA TypedStart ==
    ASSUME Typed, NEW r \in Requests, StartStep(r)
    PROVE  Typed'
<1>1. req[r].id \in StepIds \cup {NoId}
  BY DEF Typed, Asked, StartStep
<1>2. CASE StartRefuse(r)
  <2>1. Written(r, Refused) \in Seq(Response \cup {Refused})
    BY DEF Written, Typed, TypeOK, RequestRecord
  <2>2. TypeOK'
    BY <1>2, <2>1 DEF StartStep, StartRefuse, Typed, TypeOK, RequestRecord
  <2>3. req'[r].pc = "poll" /\ req'[r].id = req[r].id /\ MovesOnly(r)
    BY <1>2 DEF StartStep, StartRefuse, Typed, TypeOK, RequestRecord, MovesOnly
  <2>4. QED
    BY <1>1, <2>2, <2>3, TypedOthers
<1>3. CASE StartKnown(r)
  <2>1. TypeOK'
    BY <1>3 DEF StartStep, StartKnown, Typed, TypeOK, RequestRecord
  <2>2. req'[r].pc = "poll" /\ req'[r].id = req[r].id /\ MovesOnly(r)
    BY <1>3 DEF StartStep, StartKnown, Typed, TypeOK, RequestRecord, MovesOnly
  <2>3. QED
    BY <1>1, <2>1, <2>2, TypedOthers
<1>4. CASE StartFresh(r)
  <2>1. KeyOf(r) \in Key
    BY <1>1, <1>4, KeyOfType DEF StartFresh
  <2>2. TypeOK'
    <3>1. stepStatus' \in [Key -> StepStatus \cup {None}]
      BY <1>4, <2>1, RunningType DEF StartFresh, Launch, Typed, TypeOK
    <3>2. step' \in [Key -> StepRecord]
      BY <1>4, <2>1 DEF StartFresh, Launch, Typed, TypeOK, StepRecord
    <3>3. req' \in [Requests -> RequestRecord]
      BY <1>4 DEF StartFresh, Launch, Typed, TypeOK, RequestRecord
    <3>4. QED
      BY <3>1, <3>2, <3>3 DEF StartStep, Typed, TypeOK
  <2>3. req'[r].pc = "poll" /\ req'[r].id = req[r].id
    BY <1>4 DEF StartFresh, Launch, Typed, TypeOK, RequestRecord
  <2>4. MovesOnly(r)
    BY <1>4, <2>1, RunningType, NamesAssumption DEF StartFresh, Launch, Typed, TypeOK, MovesOnly
  <2>5. QED
    BY <1>1, <2>2, <2>3, <2>4, TypedOthers
<1>5. QED
  BY <1>2, <1>3, <1>4 DEF StartStep

LEMMA TypedPoll ==
    ASSUME Typed, NEW r \in Requests, PollStep(r)
    PROVE  Typed'
<1>1. req[r].id \in StepIds \cup {NoId}
  BY DEF Typed, Asked, PollStep
<1>2. CASE PollRefuse(r)
  <2>1. Written(r, Refused) \in Seq(Response \cup {Refused})
    BY DEF Written, Typed, TypeOK, RequestRecord
  <2>2. TypeOK'
    BY <1>2, <2>1 DEF PollStep, PollRefuse, Typed, TypeOK, RequestRecord
  <2>3. req'[r].pc = "done" /\ req'[r].id = req[r].id /\ MovesOnly(r)
    BY <1>2 DEF PollStep, PollRefuse, Typed, TypeOK, RequestRecord, MovesOnly
  <2>4. QED
    BY <1>1, <2>2, <2>3, TypedOthers
<1>3. ASSUME Known(r)
      PROVE  req[r].id \in StepIds /\ KeyOf(r) \in Key /\ stepStatus[KeyOf(r)] \in StepStatus
  <2>1. req[r].id \in StepIds
    BY <1>1, <1>3 DEF Known
  <2>2. KeyOf(r) \in Key
    BY <2>1, KeyOfType
  <2>3. QED
    BY <1>3, <2>1, <2>2 DEF Known, Typed, TypeOK
<1>4. CASE PollComplete(r)
  <2>1. req[r].id \in StepIds /\ KeyOf(r) \in Key /\ stepStatus[KeyOf(r)] \in StepStatus
    BY <1>3, <1>4 DEF PollComplete, StatusIs
  <2>2. TypeOK'
    BY <1>4, <2>1 DEF PollStep, PollComplete, Typed, TypeOK, RequestRecord
  <2>3. req'[r].id = req[r].id /\ req'[r].got = stepStatus[KeyOf(r)] /\ MovesOnly(r)
    BY <1>4 DEF PollStep, PollComplete, Typed, TypeOK, RequestRecord, MovesOnly
  <2>4. stepStatus'[KeyOf(r)'] # None
    BY <1>4, <2>3 DEF PollStep, PollComplete, StatusIs, Known, KeyOf
  <2>5. QED
    BY <2>1, <2>2, <2>3, <2>4, TypedOthers
<1>5. CASE PollWait(r)
  <2>1. req[r].id \in StepIds /\ KeyOf(r) \in Key
    BY <1>3, <1>5 DEF PollWait, StatusIs
  <2>2. Enlist(stepWaitCh[KeyOf(r)], r) \in Seq(Requests)
    BY <2>1, OneElement DEF Enlist, Typed, TypeOK
  <2>3. TypeOK'
    BY <1>5, <2>1, <2>2 DEF PollStep, PollWait, Typed, TypeOK, RequestRecord
  <2>4. req'[r].pc = "wait" /\ req'[r].id = req[r].id /\ MovesOnly(r)
    BY <1>5 DEF PollStep, PollWait, Typed, TypeOK, RequestRecord, MovesOnly
  <2>5. stepStatus'[KeyOf(r)'] # None
    BY <1>5, <2>4 DEF PollStep, PollWait, StatusIs, Known, KeyOf
  <2>6. QED
    BY <2>1, <2>3, <2>4, <2>5, TypedOthers
<1>6. QED
  BY <1>2, <1>4, <1>5 DEF PollStep

LEMMA TypedReceive ==
    ASSUME Typed, NEW r \in Requests, Receive(r)
    PROVE  Typed'
<1>1. req[r].id \in StepIds /\ stepStatus[KeyOf(r)] # None
  BY DEF Receive, Typed, PolledKnown
<1>2. req[r].ch \in StepStatus
  BY DEF Receive, Typed, TypeOK, RequestRecord
<1>3. TypeOK'
  BY <1>2 DEF Receive, Typed, TypeOK, RequestRecord
<1>4. req'[r].id = req[r].id /\ req'[r].got = req[r].ch /\ MovesOnly(r)
  BY DEF Receive, Typed, TypeOK, RequestRecord, MovesOnly
<1>5. KeyOf(r)' = KeyOf(r) /\ stepStatus' = stepStatus
  BY <1>4 DEF Receive, KeyOf
<1>6. QED
  BY <1>1, <1>2, <1>3, <1>4, <1>5, TypedOthers

LEMMA TypedConvert ==
    ASSUME Typed, NEW r \in Requests,
           ConvertPrivately(r) \/ ConvertRead(r) \/ ConvertAppend(r) \/ Respond(r)
    PROVE  Typed'
<1>1. /\ req[r].id \in StepIds /\ stepStatus[KeyOf(r)] # None
      /\ req[r].got \in StepStatus
  BY DEF ConvertPrivately, ConvertRead, ConvertAppend, Respond, Typed, PolledKnown, GotStatus
<1>2. KeyOf(r) \in Key
  BY <1>1, KeyOfType
<1>3. req[r].got.State \in State \cup {NoState}
  BY <1>1 DEF StepStatus
<1>4. Complaint(req[r].got.State) \in Seq(Message)
  BY <1>3, ComplaintType
<1>5. step[KeyOf(r)].entries \in Seq(Message) /\ req[r].seen \in Seq(Message)
  BY <1>2 DEF Typed, TypeOK, StepRecord, RequestRecord
<1>6. TypeOK'
  <2>1. CASE ConvertPrivately(r)
    <3>1. step[KeyOf(r)].entries \o Complaint(req[r].got.State) \in Seq(Message)
      BY <1>4, <1>5
    <3>2. QED
      BY <2>1, <3>1 DEF ConvertPrivately, Typed, TypeOK, RequestRecord
  <2>2. CASE ConvertRead(r)
    BY <1>5, <2>2 DEF ConvertRead, Typed, TypeOK, RequestRecord
  <2>3. CASE ConvertAppend(r)
    <3>1. req[r].seen \o Complaint(req[r].got.State) \in Seq(Message)
      BY <1>4, <1>5
    <3>2. step' \in [Key -> StepRecord]
      BY <1>2, <2>3, <3>1 DEF ConvertAppend, Typed, TypeOK, StepRecord
    <3>3. QED
      BY <2>3, <3>2 DEF ConvertAppend, Typed, TypeOK, RequestRecord
  <2>4. CASE Respond(r)
    <3> DEFINE resp == ResponseOf(req[r].got.State, req[r].got.StepErr, Messages(r))
    <3>1. Messages(r) \in Seq(Message)
      BY <1>5 DEF Messages
    <3>2. resp \in Response
      BY <1>3, <3>1, ResponseType
    <3>3. Written(r, resp) \in Seq(Response \cup {Refused})
      BY <3>2 DEF Written, Typed, TypeOK, RequestRecord
    <3> HIDE DEF resp
    <3>4. req' = [req EXCEPT ![r] = [@ EXCEPT !.pc = "done", !.body = Written(r, resp)]]
      BY <2>4 DEF Respond, resp
    <3>5. req' \in [Requests -> RequestRecord]
      BY <3>3, <3>4 DEF Typed, TypeOK, RequestRecord
    <3>6. QED
      BY <2>4, <3>5 DEF Respond, Typed, TypeOK
  <2>5. QED
    BY <2>1, <2>2, <2>3, <2>4
<1>7. /\ req'[r].id = req[r].id /\ req'[r].got = req[r].got
      /\ MovesOnly(r) /\ stepStatus' = stepStatus
  <2>1. CASE ConvertPrivately(r)
    BY <2>1 DEF ConvertPrivately, Typed, TypeOK, RequestRecord, MovesOnly
  <2>2. CASE ConvertRead(r)
    BY <2>2 DEF ConvertRead, Typed, TypeOK, RequestRecord, MovesOnly
  <2>3. CASE ConvertAppend(r)
    BY <2>3 DEF ConvertAppend, Typed, TypeOK, RequestRecord, MovesOnly
  <2>4. CASE Respond(r)
    BY <2>4 DEF Respond, Typed, TypeOK, RequestRecord, MovesOnly
  <2>5. QED
    BY <2>1, <2>2, <2>3, <2>4
<1>8. KeyOf(r)' = KeyOf(r)
  BY <1>7 DEF KeyOf
<1>9. QED
  BY <1>1, <1>6, <1>7, <1>8, TypedOthers

LEMMA TypedFinish ==
    ASSUME Typed, NEW k \in Key, NEW e \in Endings, Finish(k, e)
    PROVE  Typed'
<1>1. /\ Completed(e.outcome) \in StepStatus /\ Completed(e.outcome) # None
      /\ e.outcome.err.msgs \in Seq(Message) /\ e.trouble \in SUBSET Troubles
  BY CompletedType, NamesAssumption
<1>2. TypeOK'
  BY <1>1 DEF Finish, Typed, TypeOK, StepRecord
<1>3. PolledKnown'
  <2> SUFFICES ASSUME NEW q \in Requests, req[q].pc \in {"wait", "convert", "append", "respond"}
               PROVE  req[q].id \in StepIds /\ stepStatus'[KeyOf(q)] # None
    BY DEF PolledKnown, Finish, KeyOf
  <2>1. req[q].id \in StepIds /\ stepStatus[KeyOf(q)] # None
    BY DEF Typed, PolledKnown
  <2>2. QED
    BY <1>1, <2>1, KeyOfType DEF Finish, Typed, TypeOK
<1>4. Asked' /\ GotStatus'
  BY DEF Finish, Typed, Asked, GotStatus
<1>5. QED
  BY <1>2, <1>3, <1>4 DEF Typed

LEMMA TypedNotify ==
    ASSUME Typed, NEW k \in Key, Notify(k)
    PROVE  Typed'
<1> DEFINE r == Head(step[k].channels)
<1>1. step[k].channels \in Seq(Requests) /\ step[k].channels # <<>>
  BY DEF Notify, Typed, TypeOK, StepRecord
<1>2. r \in Requests /\ Tail(step[k].channels) \in Seq(Requests)
  BY <1>1
<1> HIDE DEF r
<1>3. stepStatus[k] \in StepStatus \cup {None}
  BY DEF Typed, TypeOK
<1>4. req' = [req EXCEPT ![r].ch = stepStatus[k]]
  BY DEF Notify, r
<1>5. TypeOK'
  <2>1. step' \in [Key -> StepRecord]
    BY <1>2 DEF Notify, Typed, TypeOK, StepRecord
  <2>2. req' \in [Requests -> RequestRecord]
    BY <1>2, <1>3, <1>4 DEF Typed, TypeOK, RequestRecord
  <2>3. QED
    BY <2>1, <2>2 DEF Notify, Typed, TypeOK
<1>6. \A q \in Requests : req'[q].pc = req[q].pc /\ req'[q].id = req[q].id
                                                /\ req'[q].got = req[q].got
  BY <1>2, <1>4 DEF Typed, TypeOK, RequestRecord
<1>7. Asked' /\ GotStatus'
  BY <1>6 DEF Typed, Asked, GotStatus
<1>8. PolledKnown'
  BY <1>6 DEF Notify, Typed, PolledKnown, KeyOf
<1>9. QED
  BY <1>5, <1>7, <1>8 DEF Typed

LEMMA TypedNext == Typed /\ [Next]_vars => Typed'
<1> SUFFICES ASSUME Typed, [Next]_vars
             PROVE  Typed'
  OBVIOUS
<1>1. ASSUME NEW r \in Requests, NEW id \in StepIds \cup {NoId}, Arrive(r, id)
      PROVE  Typed'
  BY <1>1, TypedArrive
<1>2. ASSUME NEW r \in Requests, Handle(r)
      PROVE  Typed'
  BY <1>2, TypedStart, TypedPoll, TypedReceive, TypedConvert DEF Handle
<1>3. ASSUME NEW k \in Key, NEW e \in Endings, Finish(k, e)
      PROVE  Typed'
  BY <1>3, TypedFinish
<1>4. ASSUME NEW k \in Key, Notify(k)
      PROVE  Typed'
  BY <1>4, TypedNotify
<1>5. CASE UNCHANGED vars
  BY <1>5 DEF vars, Typed, TypeOK, Asked, PolledKnown, GotStatus, KeyOf
<1>6. QED
  BY <1>1, <1>2, <1>3, <1>4, <1>5 DEF Next

(* Every variable keeps its type, whatever the requests, the steps and the   *)
(* ways a step can end (step_executor.go:27-128).                            *)
THEOREM TypeCorrect == Spec => []TypeOK
<1>1. Init => Typed
  BY TypedInit
<1>2. Typed /\ [Next]_vars => Typed'
  BY TypedNext
<1>3. Typed => TypeOK
  BY DEF Typed
<1>4. QED
  BY <1>1, <1>2, <1>3, PTL DEF Spec

-----------------------------------------------------------------------------
(* No lost wake-up.  The inductive invariant adds that a step with channels  *)
(* still to serve has a status, which is what those channels will carry.     *)

DueKnown == \A k \in Key : step[k].channels # <<>> => stepStatus[k] # None

WakeInv == Typed /\ NoLostWakeup /\ DueKnown

(* A step that leaves a waiting request, what the executor lists and what is *)
(* due to be sent as they are leaves the request as safe as it was.          *)
LEMMA StillSafe ==
    ASSUME WakeInv, NEW q \in Requests, req'[q] = req[q], req[q].pc = "wait",
           stepWaitCh'[KeyOf(q)] = stepWaitCh[KeyOf(q)],
           stepStatus'[KeyOf(q)] = stepStatus[KeyOf(q)],
           step'[KeyOf(q)].channels = step[KeyOf(q)].channels,
           Enlisted(q)'
    PROVE  \/ StatusIs(q, "Running")'
           \/ q \in Range(step[KeyOf(q)].channels)'
           \/ req'[q].ch # None
<1>1. KeyOf(q)' = KeyOf(q)
  BY DEF KeyOf
<1>2. Enlisted(q)
  BY <1>1 DEF Enlisted
<1>3. QED
  BY <1>1, <1>2 DEF WakeInv, NoLostWakeup, StatusIs, Known

LEMMA WakeInit == Init => WakeInv
BY TypedInit DEF Init, WakeInv, NoLostWakeup, DueKnown, NoRun, NoRequest

\* An action of one request keeps every other request safe, and that one if it does not wait.
LEMMA WakeOthers ==
    ASSUME WakeInv, NEW r \in Requests, MovesOnly(r), req'[r].pc # "wait",
           stepWaitCh' = stepWaitCh,
           \A k \in Key : step'[k].channels = step[k].channels,
           \A k \in Key : stepStatus[k] # None => stepStatus'[k] = stepStatus[k],
           Typed'
    PROVE  WakeInv'
<1>1. NoLostWakeup'
  <2> SUFFICES ASSUME NEW q \in Requests, req'[q].pc = "wait", Enlisted(q)'
               PROVE  \/ StatusIs(q, "Running")'
                      \/ q \in Range(step[KeyOf(q)].channels)'
                      \/ req'[q].ch # None
    BY DEF NoLostWakeup
  <2>1. q # r /\ req'[q] = req[q]
    BY DEF MovesOnly
  <2>2. req[q].id \in StepIds /\ stepStatus[KeyOf(q)] # None
    BY <2>1 DEF WakeInv, Typed, PolledKnown
  <2>3. KeyOf(q) \in Key
    BY <2>2, KeyOfType
  <2>4. QED
    BY <2>1, <2>2, <2>3, StillSafe
<1>2. DueKnown'
  BY DEF WakeInv, DueKnown
<1>3. QED
  BY <1>1, <1>2 DEF WakeInv

LEMMA WakeStart ==
    ASSUME WakeInv, NEW r \in Requests, StartStep(r), Typed'
    PROVE  WakeInv'
<1>1. CASE StartRefuse(r) \/ StartKnown(r)
  <2>1. MovesOnly(r) /\ req'[r].pc = "poll"
    BY <1>1 DEF StartStep, StartRefuse, StartKnown, WakeInv, Typed, TypeOK, RequestRecord, MovesOnly
  <2>2. QED
    BY <1>1, <2>1, WakeOthers DEF StartStep, StartRefuse, StartKnown
<1>2. CASE StartFresh(r)
  <2>1. req[r].id \in StepIds
    BY <1>2 DEF StartStep, StartFresh, WakeInv, Typed, Asked
  <2>2. KeyOf(r) \in Key /\ stepStatus[KeyOf(r)] = None
    BY <1>2, <2>1, KeyOfType DEF StartFresh, Known
  <2>3. req'[r].pc = "poll" /\ \A q \in Requests \ {r} : req'[q] = req[q]
    BY <1>2 DEF StartFresh, Launch, WakeInv, Typed, TypeOK, RequestRecord
  <2>4. \A k \in Key : stepStatus[k] # None => stepStatus'[k] = stepStatus[k]
    BY <1>2, <2>2 DEF StartFresh, Launch, WakeInv, Typed, TypeOK
  <2>5. \A k \in Key : step'[k].channels = step[k].channels
    BY <1>2, <2>2 DEF StartFresh, Launch, WakeInv, Typed, TypeOK, StepRecord
  <2>6. MovesOnly(r)
    BY <2>3, <2>4 DEF MovesOnly
  <2>7. QED
    BY <2>3, <2>4, <2>5, <2>6, WakeOthers DEF StartStep
<1>3. QED
  BY <1>1, <1>2 DEF StartStep

LEMMA WakePoll ==
    ASSUME WakeInv, NEW r \in Requests, PollStep(r), Typed'
    PROVE  WakeInv'
<1>1. CASE PollRefuse(r)
  <2>1. MovesOnly(r) /\ req'[r].pc = "done"
    BY <1>1 DEF PollStep, PollRefuse, WakeInv, Typed, TypeOK, RequestRecord, MovesOnly
  <2>2. QED
    BY <1>1, <2>1, WakeOthers DEF PollStep, PollRefuse
<1>2. CASE PollComplete(r)
  <2>1. MovesOnly(r) /\ req'[r].pc = "convert"
    BY <1>2 DEF PollStep, PollComplete, WakeInv, Typed, TypeOK, RequestRecord, MovesOnly
  <2>2. QED
    BY <1>2, <2>1, WakeOthers DEF PollStep, PollComplete
<1>3. CASE PollWait(r)
  <2>1. req[r].id \in StepIds /\ StatusIs(r, "Running")
    BY <1>3 DEF PollStep, PollWait, StatusIs, Known, WakeInv, Typed, Asked
  <2>2. KeyOf(r) \in Key
    BY <2>1, KeyOfType
  <2>3. /\ \A q \in Requests \ {r} : req'[q] = req[q]
        /\ \A q \in Requests : KeyOf(q)' = KeyOf(q) /\ req'[q].id = req[q].id
    BY <1>3 DEF PollWait, WakeInv, Typed, TypeOK, RequestRecord, KeyOf
  <2>4. NoLostWakeup'
    <3> SUFFICES ASSUME NEW q \in Requests, req'[q].pc = "wait", Enlisted(q)'
                 PROVE  \/ StatusIs(q, "Running")'
                        \/ q \in Range(step[KeyOf(q)].channels)'
                        \/ req'[q].ch # None
      BY DEF NoLostWakeup
    <3>1. CASE q = r
      BY <2>1, <2>3, <3>1 DEF PollStep, StatusIs, Known
    <3>2. CASE q # r
      <4>1. req'[q] = req[q] /\ req[q].id \in StepIds /\ stepStatus[KeyOf(q)] # None
        BY <2>3, <3>2 DEF WakeInv, Typed, PolledKnown
      <4>2. CASE KeyOf(q) = KeyOf(r)
        BY <2>1, <2>3, <4>1, <4>2, NamesAssumption DEF PollStep, StatusIs, Known
      <4>3. CASE KeyOf(q) # KeyOf(r)
        <5>1. stepWaitCh'[KeyOf(q)] = stepWaitCh[KeyOf(q)]
          BY <1>3, <2>2, <4>1, <4>3, KeyOfType DEF PollWait, WakeInv, Typed, TypeOK
        <5>2. QED
          BY <4>1, <5>1, StillSafe DEF PollStep
      <4>4. QED
        BY <4>2, <4>3
    <3>3. QED
      BY <3>1, <3>2
  <2>5. DueKnown'
    BY DEF PollStep, WakeInv, DueKnown
  <2>6. QED
    BY <2>4, <2>5 DEF WakeInv
<1>4. QED
  BY <1>1, <1>2, <1>3 DEF PollStep

\* The actions of a request after its poll, and its arrival: none makes it wait.
LEMMA WakeRequest ==
    ASSUME WakeInv, NEW r \in Requests, Typed',
           \/ \E id \in StepIds \cup {NoId} : Arrive(r, id)
           \/ Receive(r) \/ ConvertPrivately(r) \/ ConvertRead(r)
           \/ ConvertAppend(r) \/ Respond(r)
    PROVE  WakeInv'
<1>1. /\ stepStatus' = stepStatus /\ stepWaitCh' = stepWaitCh
      /\ req'[r].pc # "wait" /\ \A q \in Requests \ {r} : req'[q] = req[q]
  <2>1. CASE \E id \in StepIds \cup {NoId} : Arrive(r, id)
    BY <2>1 DEF Arrive, WakeInv, Typed, TypeOK, RequestRecord
  <2>2. CASE Receive(r)
    BY <2>2 DEF Receive, WakeInv, Typed, TypeOK, RequestRecord
  <2>3. CASE ConvertPrivately(r) \/ ConvertRead(r)
    BY <2>3 DEF ConvertPrivately, ConvertRead, WakeInv, Typed, TypeOK, RequestRecord
  <2>4. CASE ConvertAppend(r)
    BY <2>4 DEF ConvertAppend, WakeInv, Typed, TypeOK, RequestRecord
  <2>5. CASE Respond(r)
    BY <2>5 DEF Respond, WakeInv, Typed, TypeOK, RequestRecord
  <2>6. QED
    BY <2>1, <2>2, <2>3, <2>4, <2>5
<1>2. \A k \in Key : step'[k].channels = step[k].channels
  <2>1. CASE ConvertAppend(r)
    BY <2>1 DEF ConvertAppend, WakeInv, Typed, TypeOK, StepRecord
  <2>2. CASE ~ConvertAppend(r)
    BY <2>2 DEF Arrive, Receive, ConvertPrivately, ConvertRead, Respond
  <2>3. QED
    BY <2>1, <2>2
<1>3. QED
  BY <1>1, <1>2, WakeOthers DEF MovesOnly

LEMMA WakeFinish ==
    ASSUME WakeInv, NEW k \in Key, NEW e \in Endings, Finish(k, e), Typed'
    PROVE  WakeInv'
<1>1. Completed(e.outcome) # None
  BY CompletedType, NamesAssumption
<1>2. step'[k].channels = stepWaitCh[k] /\ stepStatus'[k] # None
  BY <1>1 DEF Finish, WakeInv, Typed, TypeOK
<1>3. \A j \in Key \ {k} : step'[j] = step[j] /\ stepStatus'[j] = stepStatus[j]
  BY DEF Finish, WakeInv, Typed, TypeOK
<1>4. DueKnown'
  BY <1>2, <1>3 DEF WakeInv, DueKnown
<1>5. NoLostWakeup'
  <2> SUFFICES ASSUME NEW q \in Requests, req'[q].pc = "wait", Enlisted(q)'
               PROVE  \/ StatusIs(q, "Running")'
                      \/ q \in Range(step[KeyOf(q)].channels)'
                      \/ req'[q].ch # None
    BY DEF NoLostWakeup
  <2>1. /\ req' = req /\ stepWaitCh' = stepWaitCh /\ KeyOf(q)' = KeyOf(q)
        /\ req[q].pc = "wait"
    BY DEF Finish, KeyOf
  <2>2. KeyOf(q) \in Key
    BY <2>1, KeyOfType DEF WakeInv, Typed, PolledKnown
  <2>3. CASE KeyOf(q) = k
    BY <1>2, <2>1, <2>3 DEF Enlisted
  <2>4. CASE KeyOf(q) # k
    BY <1>3, <2>1, <2>2, <2>4, StillSafe
  <2>5. QED
    BY <2>3, <2>4
<1>6. QED
  BY <1>4, <1>5 DEF WakeInv

LEMMA WakeNotify ==
    ASSUME WakeInv, NEW k \in Key, Notify(k), Typed'
    PROVE  WakeInv'
<1> DEFINE r == Head(step[k].channels)
<1>1. step[k].channels \in Seq(Requests) /\ step[k].channels # <<>>
  BY DEF Notify, WakeInv, Typed, TypeOK, StepRecord
<1>2. r \in Requests
  BY <1>1
<1>3. req' = [req EXCEPT ![r].ch = stepStatus[k]]
  BY DEF Notify
<1> HIDE DEF r
<1>4. stepStatus[k] # None /\ stepStatus' = stepStatus /\ stepWaitCh' = stepWaitCh
  BY <1>1 DEF Notify, WakeInv, DueKnown
<1>5. req'[r].ch # None /\ \A q \in Requests \ {r} : req'[q] = req[q]
  BY <1>2, <1>3, <1>4 DEF WakeInv, Typed, TypeOK, RequestRecord
<1>6. /\ step'[k].channels = Tail(step[k].channels)
      /\ \A j \in Key \ {k} : step'[j] = step[j]
  BY DEF Notify, WakeInv, Typed, TypeOK, StepRecord
<1>7. DueKnown'
  BY <1>4, <1>6 DEF WakeInv, DueKnown
<1>8. NoLostWakeup'
  <2> SUFFICES ASSUME NEW q \in Requests, q # r, req'[q].pc = "wait", Enlisted(q)'
               PROVE  \/ StatusIs(q, "Running")'
                      \/ q \in Range(step[KeyOf(q)].channels)'
                      \/ req'[q].ch # None
    BY <1>5 DEF NoLostWakeup
  <2>1. req'[q] = req[q] /\ KeyOf(q)' = KeyOf(q) /\ req[q].pc = "wait"
    BY <1>5 DEF KeyOf
  <2>2. KeyOf(q) \in Key
    BY <2>1, KeyOfType DEF WakeInv, Typed, PolledKnown
  <2>3. CASE KeyOf(q) = k
    <3>1. \/ StatusIs(q, "Running")
          \/ q \in Range(step[k].channels)
          \/ req[q].ch # None
      BY <1>4, <2>1, <2>3 DEF WakeInv, NoLostWakeup, Enlisted
    <3>2. q \in Range(step[k].channels) => q \in Range(Tail(step[k].channels))
      BY <1>1, RangeOfTail DEF r
    <3>3. QED
      BY <1>4, <1>6, <2>1, <2>3, <3>1, <3>2 DEF StatusIs, Known
  <2>4. CASE KeyOf(q) # k
    BY <1>4, <1>6, <2>1, <2>2, <2>4, StillSafe
  <2>5. QED
    BY <2>3, <2>4
<1>9. QED
  BY <1>7, <1>8 DEF WakeInv

LEMMA WakeNext == WakeInv /\ [Next]_vars => WakeInv'
<1> SUFFICES ASSUME WakeInv, [Next]_vars
             PROVE  WakeInv'
  OBVIOUS
<1>1. Typed'
  BY TypedNext DEF WakeInv
<1>2. ASSUME NEW r \in Requests, NEW id \in StepIds \cup {NoId}, Arrive(r, id)
      PROVE  WakeInv'
  BY <1>1, <1>2, WakeRequest
<1>3. ASSUME NEW r \in Requests, Handle(r)
      PROVE  WakeInv'
  BY <1>1, <1>3, WakeStart, WakePoll, WakeRequest DEF Handle
<1>4. ASSUME NEW k \in Key, NEW e \in Endings, Finish(k, e)
      PROVE  WakeInv'
  BY <1>1, <1>4, WakeFinish
<1>5. ASSUME NEW k \in Key, Notify(k)
      PROVE  WakeInv'
  BY <1>1, <1>5, WakeNotify
<1>6. CASE UNCHANGED vars
  BY <1>1, <1>6 DEF vars, WakeInv, NoLostWakeup, DueKnown, Enlisted, StatusIs, Known, KeyOf
<1>7. QED
  BY <1>2, <1>3, <1>4, <1>5, <1>6 DEF Next

(* A request the executor still lists is never left waiting for a status     *)
(* that was sent without it: PollStep tests the status and leaves its        *)
(* channel under the lock under which the step's goroutine stores the status *)
(* and collects the channels (step_executor.go:80-89, 99-121).               *)
THEOREM WakeupNeverLost == Spec => []NoLostWakeup
<1>1. Init => WakeInv
  BY WakeInit
<1>2. WakeInv /\ [Next]_vars => WakeInv'
  BY WakeNext
<1>3. WakeInv => NoLostWakeup
  BY DEF WakeInv
<1>4. QED
  BY <1>1, <1>2, <1>3, PTL DEF Spec
=============================================================================
