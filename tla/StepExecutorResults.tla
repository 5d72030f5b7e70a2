------------------------ MODULE StepExecutorResults ------------------------
(***************************************************************************)
(* What the requests are told, for any steps, requests and exit codes: a   *)
(* response about a step that is done tells success from failure.          *)
(***************************************************************************)
EXTENDS StepExecutorProofs

-----------------------------------------------------------------------------
(* The inductive invariant.  Every holder of a status shares the list of     *)
(* messages in its error, and may write into it what it read earlier; what   *)
(* never changes once the step is done is the set of the messages in that    *)
(* list and in the complaint about the state.                                *)

Running(k) == stepStatus[k] # None /\ stepStatus[k].Status = "Running"

Done(k) == stepStatus[k] # None /\ stepStatus[k].Status = "Complete"

Complaints(k) == Range(Complaint(stepStatus[k].State))

AllMessages(k) == Range(step[k].entries) \cup Complaints(k)

\* What a response about a step that is done says.
VerdictOn(k) == VerdictOf(stepStatus[k].State, stepStatus[k].StepErr, step[k].entries)

\* An error was made exactly when something went wrong.
Truthful(trouble, state, kind, msgs) ==
    /\ "failure" \in trouble <=> Range(msgs) \cup Range(Complaint(state)) # {}
    /\ kind # "nil" => "failure" \in trouble
    /\ kind = "nil" => msgs = <<>>

(* A step: its goroutine runs it while its status says so, and has only to   *)
(* send to requests for this step.                                           *)
KeyOK(k) ==
    /\ step[k].at = "executing" <=> Running(k)
    /\ step[k].channels # <<>> => Done(k)
    /\ \A q \in Range(stepWaitCh[k]) \cup Range(step[k].channels) :
          req[q].id \in StepIds /\ KeyOf(q) = k
    /\ Done(k) => Truthful(step[k].trouble, stepStatus[k].State, stepStatus[k].StepErr, step[k].entries)

(* A request: the status it was sent or took is the one of its step, the     *)
(* messages it has read or is about to send are those of the step, and its   *)
(* reply is not written before.                                              *)
ReqOK(r) ==
    /\ req[r].pc = "idle" => req[r].id = None
    /\ req[r].ch # None =>
          req[r].id \in StepIds /\ Done(KeyOf(r)) /\ req[r].ch = stepStatus[KeyOf(r)]
    /\ req[r].pc \in {"convert", "append", "respond"} =>
          req[r].id \in StepIds /\ Done(KeyOf(r)) /\ req[r].got = stepStatus[KeyOf(r)]
    /\ req[r].pc \notin {"poll", "done"} => req[r].body = <<>>
    /\ req[r].pc = "poll" => \/ req[r].body = <<>>
                             \/ req[r].id = NoId /\ req[r].body = <<Refused>>
    /\ req[r].pc = "append" =>
          InPlace(r) /\ Range(req[r].seen) \cup Complaints(KeyOf(r)) = AllMessages(KeyOf(r))
    /\ req[r].pc = "respond" => Range(Messages(r)) = AllMessages(KeyOf(r))
    /\ \A resp \in Responses(r) :
          req[r].id \in StepIds /\ Done(KeyOf(r)) /\ Verdict(resp) = VerdictOn(KeyOf(r))

ResultInv == Typed /\ (\A k \in Key : KeyOK(k)) /\ (\A r \in Requests : ReqOK(r))

-----------------------------------------------------------------------------
(* The endings of a step are truthful (step_executor.go:203-301).            *)

LEMMA RangeOfOne == ASSUME NEW x PROVE Range(<<x>>) = {x}
BY DEF Range

LEMMA OneIsNotNone == ASSUME NEW x PROVE <<x>> # <<>>
BY RangeOfOne, RangeOfEmpty

LEMMA PlainIsError == ASSUME NEW msg PROVE Plain(msg).msgs # <<>> /\ Plain(msg).kind # "nil"
BY OneIsNotNone DEF Plain

LEMMA ConcatIsNotNone ==
    ASSUME NEW S, NEW s \in Seq(S), NEW t \in Seq(S), s # <<>> \/ t # <<>>
    PROVE  s \o t \in Seq(S) /\ s \o t # <<>>
<1>1. s \o t \in Seq(S) /\ Len(s \o t) = Len(s) + Len(t)
  BY ConcatProperties
<1>2. Len(s) \in Nat /\ Len(t) \in Nat /\ Len(s) + Len(t) # 0
  BY EmptySeq, LenProperties
<1>3. QED
  BY <1>1, <1>2, EmptySeq

LEMMA EmptyRange ==
    ASSUME NEW S, NEW s \in Seq(S)
    PROVE  Range(s) = {} <=> s = <<>>
<1>1. CASE s = <<>>
  BY <1>1, RangeOfEmpty
<1>2. CASE s # <<>>
  BY <1>2, HeadInRange
<1>3. QED
  BY <1>1, <1>2

LEMMA ComplaintIs ==
    ASSUME NEW s \in State \cup {NoState}
    PROVE  /\ Complaint(s) \in Seq(Message)
           /\ Complaint(s) = <<>> <=> s = NoState \/ (s.ExitCode = 0 /\ ~s.OOMKilled)
           /\ Range(Complaint(s)) = {} <=> Complaint(s) = <<>>
<1>1. Complaint(s) \in Seq(Message)
  BY ComplaintType
<1>2. Complaint(s) = <<>> <=> s = NoState \/ (s.ExitCode = 0 /\ ~s.OOMKilled)
  BY DEF Complaint
<1>3. QED
  BY <1>1, <1>2, EmptyRange

LEMMA ProblemsAreErrors ==
    ASSUME NEW env \in Surroundings, NEW run \in RunResult
    PROVE  LET o == executeStep(env, run) IN
           /\ Failure(env, run) <=> Range(o.err.msgs) \cup Range(Complaint(o.state)) # {}
           /\ o.err.kind # "nil" => Failure(env, run)
           /\ o.err.kind = "nil" => o.err.msgs = <<>>
<1> DEFINE o == executeStep(env, run)
<1>1. run.state \in State \cup {NoState} /\ run.err \in Seq(Message)
  BY RunResultType
<1>2. o \in Outcome /\ o.err.msgs \in Seq(Message) /\ o.state \in State \cup {NoState}
  BY executeStepType DEF Outcome, StepError
<1>3. Complaint(run.state) = <<>> <=>
         run.state = NoState \/ (run.state.ExitCode = 0 /\ ~run.state.OOMKilled)
  BY <1>1, ComplaintIs
<1>4. SUFFICES /\ Failure(env, run) <=> o.err.msgs # <<>> \/ Complaint(o.state) # <<>>
               /\ o.err.kind # "nil" => Failure(env, run)
               /\ o.err.kind = "nil" => o.err.msgs = <<>>
  BY <1>2, ComplaintIs, EmptyRange
<1>5. CASE env.Detach
  <2>1. o = Detached
    BY <1>5 DEF executeStep, executeStepDrone
  <2>2. o.state # NoState /\ o.state = [Exited |-> FALSE, ExitCode |-> 0, OOMKilled |-> FALSE]
    <3>1. [Exited |-> FALSE, ExitCode |-> 0, OOMKilled |-> FALSE] \in State
      BY ExitCodesAssumption DEF State
    <3>2. o.state = [Exited |-> FALSE, ExitCode |-> 0, OOMKilled |-> FALSE]
      BY <2>1 DEF Detached
    <3>3. QED
      BY <3>1, <3>2, NoStateAssumption
  <2>3. Complaint(o.state) = <<>>
    BY <2>2 DEF Complaint
  <2>4. o.err.msgs = <<>> /\ o.err.kind = "nil" /\ ~Failure(env, run)
    BY <1>5, <2>1 DEF Detached, NilError, Failure
  <2>5. QED
    BY <2>3, <2>4
<1>6. CASE ~env.Detach /\ env.expired
  <2>1. o = TimedOut
    BY <1>6 DEF executeStep, executeStepDrone
  <2>2. TimedOut.err = Plain("deadline exceeded")
    BY DEF TimedOut
  <2>3. o.err.msgs # <<>> /\ o.err.kind # "nil"
    BY <2>1, <2>2, PlainIsError
  <2>4. Failure(env, run)
    BY <1>6 DEF Failure
  <2>5. QED
    BY <2>3, <2>4
<1>7. CASE ~env.Detach /\ ~env.expired /\ env.LogDrone /\ run.err # <<>>
  <2>1. o = [state |-> NoState, err |-> Plain(Head(run.err))]
    BY <1>7 DEF executeStep, executeStepDrone
  <2>2. o.err.msgs # <<>> /\ o.err.kind # "nil" /\ Failure(env, run)
    BY <1>7, <2>1 DEF Plain, Failure
  <2>3. QED
    BY <2>2
<1>8. CASE ~env.Detach /\ ~env.expired /\ env.LogDrone /\ run.err = <<>>
  <2>1. o = [state |-> run.state, err |-> NilError]
    BY <1>8 DEF executeStep, executeStepDrone
  <2>2. o.err.msgs = <<>> /\ o.err.kind = "nil" /\ o.state = run.state
    BY <2>1 DEF NilError
  <2>3. QED
    BY <1>3, <1>8, <2>2 DEF Failure
<1>9. CASE ~env.Detach /\ ~env.expired /\ ~env.LogDrone
  <2>1. o = [state |-> run.state, err |-> CollectErrors(env, run)]
    BY <1>9 DEF executeStep
  <2>2. o.state = run.state /\ o.err = CollectErrors(env, run)
    BY <2>1
  <2>3. o.err.kind \in {"nil", "multi"} /\ (o.err.kind = "nil" => o.err.msgs = <<>>)
    BY <2>2 DEF CollectErrors, MultiAppend, NilError
  <2>4. o.err.msgs # <<>> <=> run.err # <<>> \/ env.closeErr
    <3> DEFINE ran    == IF run.err # <<>> THEN MultiAppend(NilError, run.err) ELSE NilError
               closed == IF env.closeErr THEN MultiAppend(ran, CloseMsgs(env)) ELSE ran
    <3>1. ran.msgs = run.err
      BY <1>1 DEF MultiAppend, NilError
    <3> HIDE DEF ran
    <3>2. closed.msgs = run.err \o CloseMsgs(env)
      <4>1. CASE env.closeErr
        BY <3>1, <4>1 DEF MultiAppend
      <4>2. CASE ~env.closeErr
        <5>1. CloseMsgs(env) = <<>> /\ closed = ran
          BY <4>2 DEF CloseMsgs
        <5>2. QED
          BY <1>1, <3>1, <5>1, ConcatEmptySeq
      <4>3. QED
        BY <4>1, <4>2
    <3>3. o.err.msgs \in {closed.msgs, closed.msgs \o CloseMsgs(env)}
      <4>1. CASE FailedState(run.state) /\ env.nudged
        <5>1. o.err = MultiAppend(closed, NudgeMsgs(env))
          BY <2>2, <4>1 DEF CollectErrors, ran
        <5> HIDE DEF closed
        <5>2. QED
          BY <5>1 DEF MultiAppend, NudgeMsgs
      <4>2. CASE ~(FailedState(run.state) /\ env.nudged)
        BY <2>2, <4>2 DEF CollectErrors, ran
      <4>3. QED
        BY <4>1, <4>2
    <3> HIDE DEF closed
    <3>4. CASE env.closeErr
      <4>1. CloseMsgs(env) = <<"upload failed">> /\ CloseMsgs(env) \in Seq(Message)
        BY <3>4, OneElement DEF CloseMsgs, Message
      <4>2. closed.msgs # <<>> /\ closed.msgs \in Seq(Message)
        BY <1>1, <3>2, <4>1, OneIsNotNone, ConcatIsNotNone
      <4>3. closed.msgs \o CloseMsgs(env) # <<>>
        BY <4>1, <4>2, ConcatIsNotNone
      <4>4. QED
        BY <3>3, <3>4, <4>2, <4>3
    <3>5. CASE ~env.closeErr
      <4>1. CloseMsgs(env) = <<>>
        BY <3>5 DEF CloseMsgs
      <4>2. o.err.msgs = run.err
        BY <1>1, <3>2, <3>3, <4>1
      <4>3. QED
        BY <3>5, <4>2
    <3>6. QED
      BY <3>4, <3>5
  <2>5. o.err.kind # "nil" =>
           run.err # <<>> \/ env.closeErr \/ (run.state # NoState /\ run.state.ExitCode # 0)
    BY <2>2 DEF CollectErrors, MultiAppend, NilError, FailedState
  <2>6. QED
    BY <1>3, <1>9, <2>2, <2>3, <2>4, <2>5 DEF Failure
<1>10. QED
  BY <1>5, <1>6, <1>7, <1>8, <1>9 DEF Surroundings

LEMMA EndingTruthful ==
    ASSUME NEW e \in Endings
    PROVE  Truthful(e.trouble, e.outcome.state, e.outcome.err.kind, e.outcome.err.msgs)
<1>1. PICK env \in Surroundings, run \in RunResult :
        e = [outcome |-> executeStep(env, run), trouble |-> TroubleOf(env, run)]
  BY DEF Endings
<1>2. "failure" \in TroubleOf(env, run) <=> Failure(env, run)
  BY DEF TroubleOf, Troubles
<1>3. QED
  BY <1>1, <1>2, ProblemsAreErrors DEF Truthful

-----------------------------------------------------------------------------
(* A verdict depends on the messages only through their set, so it outlives  *)
(* every rewriting of the shared list (step_executor.go:304-350).            *)

Facts(state, kind, messages) ==
    [Exited    |-> IF state = NoState THEN TRUE ELSE state.Exited,
     OOMKilled |-> IF state = NoState THEN FALSE ELSE state.OOMKilled,
     ExitCode  |-> IF kind # "nil" THEN 255
                   ELSE IF state = NoState THEN 0 ELSE state.ExitCode,
     Errors    |-> messages]

LEMMA VerdictIsFacts ==
    ASSUME NEW state, NEW kind, NEW msgs
    PROVE  Verdict(ResponseOf(state, kind, msgs)) = Facts(state, kind, Range(msgs))
BY DEF Verdict, ResponseOf, Facts

LEMMA VerdictOfIsFacts ==
    ASSUME NEW state \in State \cup {NoState}, NEW kind, NEW msgs \in Seq(Message)
    PROVE  VerdictOf(state, kind, msgs)
               = Facts(state, kind, Range(msgs) \cup Range(Complaint(state)))
<1>1. Complaint(state) \in Seq(Message)
  BY ComplaintType
<1>2. Range(msgs \o Complaint(state)) = Range(msgs) \cup Range(Complaint(state))
  BY <1>1, RangeConcatenation
<1>3. QED
  BY <1>2, VerdictIsFacts DEF VerdictOf

LEMMA StatusOfDone ==
    ASSUME TypeOK, NEW k \in Key, stepStatus[k] # None
    PROVE  /\ stepStatus[k] \in StepStatus
           /\ stepStatus[k].State \in State \cup {NoState}
           /\ step[k].entries \in Seq(Message) /\ step[k].channels \in Seq(Requests)
           /\ stepStatus[k].Status \in {"Running", "Complete"}
BY DEF TypeOK, StepStatus, StepRecord

LEMMA VerdictOnIsFacts ==
    ASSUME TypeOK, NEW k \in Key, Done(k)
    PROVE  VerdictOn(k) = Facts(stepStatus[k].State, stepStatus[k].StepErr, AllMessages(k))
BY StatusOfDone, VerdictOfIsFacts DEF Done, VerdictOn, AllMessages, Complaints

-----------------------------------------------------------------------------
(* What a step of the program leaves as it was.                              *)

\* A step that is done stays done, with what its error says.
KeepsDone ==
    \A k \in Key : Done(k) =>
        /\ stepStatus'[k] = stepStatus[k]
        /\ step'[k].trouble = step[k].trouble
        /\ \/ step'[k].entries = step[k].entries
           \/ stepStatus[k].StepErr = "multi" /\ Range(step'[k].entries) = AllMessages(k)

\* A request keeps the step it named.
KeepsIds == \A q \in Requests : req[q].id \in StepIds => req'[q].id = req[q].id

LEMMA DoneKept ==
    ASSUME KeepsDone, NEW k \in Key, Done(k)
    PROVE  /\ Done(k)' /\ stepStatus'[k] = stepStatus[k]
           /\ Complaints(k)' = Complaints(k)
           /\ AllMessages(k)' = AllMessages(k)
           /\ \/ step'[k].entries = step[k].entries
              \/ stepStatus[k].StepErr = "multi" /\ Range(step'[k].entries) = AllMessages(k)
<1>1. stepStatus'[k] = stepStatus[k]
  BY DEF KeepsDone
<1>2. Complaints(k)' = Complaints(k)
  BY <1>1 DEF Complaints
<1>3. \/ step'[k].entries = step[k].entries
      \/ stepStatus[k].StepErr = "multi" /\ Range(step'[k].entries) = AllMessages(k)
  BY DEF KeepsDone
<1>4. AllMessages(k)' = AllMessages(k)
  BY <1>2, <1>3 DEF AllMessages
<1>5. QED
  BY <1>1, <1>2, <1>3, <1>4 DEF Done

LEMMA VerdictKept ==
    ASSUME KeepsDone, TypeOK, TypeOK', NEW k \in Key, Done(k)
    PROVE  VerdictOn(k)' = VerdictOn(k)
<1>1. Done(k)' /\ stepStatus'[k] = stepStatus[k] /\ AllMessages(k)' = AllMessages(k)
  BY DoneKept
<1>2. VerdictOn(k)' = Facts(stepStatus'[k].State, stepStatus'[k].StepErr, AllMessages(k)')
  <2>1. /\ stepStatus'[k].State \in State \cup {NoState}
        /\ step'[k].entries \in Seq(Message)
    BY <1>1 DEF Done, TypeOK, StepStatus, StepRecord
  <2>2. QED
    BY <2>1, VerdictOfIsFacts DEF VerdictOn, AllMessages, Complaints
<1>3. QED
  BY <1>1, <1>2, VerdictOnIsFacts

LEMMA ReqKept ==
    ASSUME ResultInv, Typed', KeepsDone, NEW q \in Requests, req'[q] = req[q]
    PROVE  ReqOK(q)'
<1>1. ReqOK(q) /\ TypeOK /\ TypeOK'
  BY DEF ResultInv, Typed
<1>2. KeyOf(q)' = KeyOf(q) /\ Responses(q)' = Responses(q) /\ InPlace(q)' = InPlace(q)
  BY DEF KeyOf, Responses, InPlace
<1>3. ASSUME req[q].id \in StepIds, Done(KeyOf(q))
      PROVE  /\ Done(KeyOf(q))' /\ stepStatus'[KeyOf(q)] = stepStatus[KeyOf(q)]
             /\ Complaints(KeyOf(q))' = Complaints(KeyOf(q))
             /\ AllMessages(KeyOf(q))' = AllMessages(KeyOf(q))
             /\ \/ step'[KeyOf(q)].entries = step[KeyOf(q)].entries
                \/ /\ stepStatus[KeyOf(q)].StepErr = "multi"
                   /\ Range(step'[KeyOf(q)].entries) = AllMessages(KeyOf(q))
             /\ VerdictOn(KeyOf(q))' = VerdictOn(KeyOf(q))
  <2> DEFINE k == KeyOf(q)
  <2>1. k \in Key /\ Done(k) /\ k' = k
    BY <1>2, <1>3, KeyOfType
  <2> HIDE DEF k
  <2>2. /\ Done(k)' /\ stepStatus'[k] = stepStatus[k]
        /\ Complaints(k)' = Complaints(k)
        /\ AllMessages(k)' = AllMessages(k)
        /\ \/ step'[k].entries = step[k].entries
           \/ stepStatus[k].StepErr = "multi" /\ Range(step'[k].entries) = AllMessages(k)
        /\ VerdictOn(k)' = VerdictOn(k)
    BY <1>1, <2>1, DoneKept, VerdictKept
  <2>3. QED
    BY <2>2 DEF k
<1>4. ASSUME req[q].pc = "respond"
      PROVE  Range(Messages(q))' = AllMessages(KeyOf(q))'
  <2>1. /\ req[q].id \in StepIds /\ Done(KeyOf(q)) /\ req[q].got = stepStatus[KeyOf(q)]
        /\ Range(Messages(q)) = AllMessages(KeyOf(q))
    BY <1>1, <1>4 DEF ReqOK
  <2>2. Messages(q)' = IF req[q].got.StepErr = "multi" THEN step'[KeyOf(q)].entries ELSE req[q].seen
    BY <1>2 DEF Messages
  <2>3. QED
    BY <1>2, <1>3, <2>1, <2>2 DEF Messages
<1>5. ASSUME NEW resp \in Responses(q)
      PROVE  req[q].id \in StepIds /\ Done(KeyOf(q))' /\ Verdict(resp) = VerdictOn(KeyOf(q))'
  BY <1>1, <1>2, <1>3, <1>5 DEF ReqOK
<1>6. /\ req'[q].ch # None =>
            req'[q].id \in StepIds /\ Done(KeyOf(q))' /\ req'[q].ch = stepStatus'[KeyOf(q)']
      /\ req'[q].pc \in {"convert", "append", "respond"} =>
            req'[q].id \in StepIds /\ Done(KeyOf(q))' /\ req'[q].got = stepStatus'[KeyOf(q)']
      /\ req'[q].pc = "append" =>
            InPlace(q)' /\ Range(req'[q].seen) \cup Complaints(KeyOf(q))' = AllMessages(KeyOf(q))'
  BY <1>1, <1>2, <1>3 DEF ReqOK
<1>7. QED
  BY <1>1, <1>2, <1>4, <1>5, <1>6 DEF ReqOK

LEMMA KeyKept ==
    ASSUME ResultInv, Typed', KeepsDone, KeepsIds, NEW k \in Key,
           stepStatus'[k] = stepStatus[k], step'[k].at = step[k].at,
           step'[k].channels # <<>> => step[k].channels # <<>>,
           \A q \in Range(step'[k].channels) : q \in Range(step[k].channels),
           \A q \in Range(stepWaitCh'[k]) :
              q \in Range(stepWaitCh[k]) \/ (req[q].id \in StepIds /\ KeyOf(q) = k)
    PROVE  KeyOK(k)'
<1>1. KeyOK(k) /\ TypeOK /\ TypeOK'
  BY DEF ResultInv, Typed
<1>2. (step'[k].at = "executing" <=> Running(k)') /\ (Done(k)' <=> Done(k))
  BY <1>1 DEF KeyOK, Running, Done
<1>3. ASSUME NEW q \in Range(stepWaitCh'[k]) \cup Range(step'[k].channels)
      PROVE  req'[q].id \in StepIds /\ KeyOf(q)' = k
  <2>1. q \in Requests
    BY <1>1, RangeInSet DEF TypeOK, StepRecord
  <2>2. req[q].id \in StepIds /\ KeyOf(q) = k
    BY <1>1 DEF KeyOK
  <2>3. QED
    BY <2>1, <2>2 DEF KeepsIds, KeyOf
<1>4. ASSUME Done(k)
      PROVE  Truthful(step[k].trouble, stepStatus[k].State, stepStatus[k].StepErr, step[k].entries)'
  <2>1. /\ AllMessages(k)' = AllMessages(k) /\ step'[k].trouble = step[k].trouble
        /\ \/ step'[k].entries = step[k].entries
           \/ stepStatus[k].StepErr = "multi" /\ Range(step'[k].entries) = AllMessages(k)
    BY <1>4, DoneKept DEF KeepsDone
  <2>2. Truthful(step[k].trouble, stepStatus[k].State, stepStatus[k].StepErr, step[k].entries)
    BY <1>1, <1>4 DEF KeyOK
  <2>3. QED
    BY <2>1, <2>2 DEF Truthful, AllMessages, Complaints
<1>5. QED
  BY <1>1, <1>2, <1>3, <1>4 DEF KeyOK

\* An action of one request that changes nothing of the executor.
LEMMA ResultRequest ==
    ASSUME ResultInv, Typed', NEW r \in Requests,
           \A q \in Requests \ {r} : req'[q] = req[q],
           req[r].id \in StepIds => req'[r].id = req[r].id,
           UNCHANGED <<stepStatus, stepWaitCh, step>>,
           ReqOK(r)'
    PROVE  ResultInv' /\ KeepsDone
<1>1. KeepsDone /\ KeepsIds
  BY DEF KeepsDone, KeepsIds
<1>2. \A k \in Key : KeyOK(k)'
  BY <1>1, KeyKept
<1>3. \A q \in Requests : ReqOK(q)'
  BY <1>1, ReqKept
<1>4. QED
  BY <1>1, <1>2, <1>3 DEF ResultInv

LEMMA ResultInit == Init => ResultInv
<1> SUFFICES ASSUME Init
             PROVE  ResultInv
  OBVIOUS
<1>1. Typed
  BY TypedInit
<1>2. ASSUME NEW k \in Key
      PROVE  KeyOK(k)
  BY <1>2, RangeOfEmpty DEF Init, KeyOK, Running, Done, NoRun
<1>3. ASSUME NEW r \in Requests
      PROVE  ReqOK(r)
  BY <1>3, RangeOfEmpty DEF Init, ReqOK, NoRequest, Responses
<1>4. QED
  BY <1>1, <1>2, <1>3 DEF ResultInv

LEMMA ResultArrive ==
    ASSUME ResultInv, Typed', NEW r \in Requests, NEW id \in StepIds \cup {NoId}, Arrive(r, id)
    PROVE  ResultInv' /\ KeepsDone
<1>1. /\ req'[r].pc \in {"start", "poll"} /\ req'[r].id = id
      /\ req'[r].ch = req[r].ch /\ req'[r].body = req[r].body
      /\ \A q \in Requests \ {r} : req'[q] = req[q]
  BY DEF Arrive, ResultInv, Typed, TypeOK, RequestRecord
<1>2. req[r].id = None /\ req[r].ch = None /\ req[r].body = <<>>
  BY NamesAssumption DEF Arrive, ResultInv, ReqOK
<1>3. ReqOK(r)'
  BY <1>1, <1>2, RangeOfEmpty DEF ReqOK, Responses
<1>4. QED
  BY <1>1, <1>2, <1>3, NamesAssumption, ResultRequest DEF Arrive

\* A refusal is no response.
LEMMA RefusalAdds ==
    ASSUME TypeOK, NEW r \in Requests, req'[r].body = Written(r, Refused)
    PROVE  Responses(r)' \subseteq Responses(r)
<1>1. req[r].body \in Seq(Response \cup {Refused})
  BY DEF TypeOK, RequestRecord
<1>2. ASSUME NEW x \in Range(Append(req[r].body, Refused))
      PROVE  x = Refused \/ x \in Range(req[r].body)
  BY <1>1, <1>2, RangeOfAppend
<1>3. QED
  BY <1>2 DEF Written, Responses

LEMMA ResultStart ==
    ASSUME ResultInv, Typed', NEW r \in Requests, StartStep(r)
    PROVE  ResultInv' /\ KeepsDone
<1>1. /\ TypeOK /\ TypeOK' /\ req[r].body = <<>> /\ ReqOK(r) /\ req[r].id \in StepIds \cup {NoId}
  BY DEF StartStep, ResultInv, Typed, ReqOK, Asked
<1>2. CASE StartRefuse(r)
  <2>1. /\ req'[r].pc = "poll" /\ req'[r].id = NoId /\ req'[r].ch = req[r].ch
        /\ req'[r].body = Written(r, Refused) /\ \A q \in Requests \ {r} : req'[q] = req[q]
    BY <1>1, <1>2 DEF StartRefuse, TypeOK, RequestRecord
  <2>2. Responses(r)' = {}
    BY <1>1, <2>1, RefusalAdds, RangeOfEmpty DEF Responses
  <2>3. req'[r].body = <<Refused>>
    <3>1. Append(<<>>, Refused) = <<Refused>>
      OBVIOUS
    <3>2. QED
      BY <1>1, <2>1, <3>1 DEF Written
  <2>4. ReqOK(r)'
    BY <1>1, <1>2, <2>1, <2>2, <2>3, NamesAssumption DEF StartRefuse, ReqOK
  <2>5. QED
    BY <1>2, <2>1, <2>4, NamesAssumption, ResultRequest DEF StartStep, StartRefuse
<1>3. CASE StartKnown(r)
  <2>1. /\ req'[r].pc = "poll" /\ req'[r].id = req[r].id /\ req'[r].ch = req[r].ch
        /\ req'[r].body = req[r].body /\ \A q \in Requests \ {r} : req'[q] = req[q]
    BY <1>1, <1>3 DEF StartKnown, TypeOK, RequestRecord
  <2>2. Responses(r)' = {}
    BY <1>1, <2>1, RangeOfEmpty DEF Responses
  <2>3. ReqOK(r)'
    BY <1>1, <1>3, <2>1, <2>2, NamesAssumption DEF StartStep, StartKnown, ReqOK, KeyOf, Done
  <2>4. QED
    BY <1>3, <2>1, <2>3, ResultRequest DEF StartStep, StartKnown
<1>4. CASE StartFresh(r)
  <2> DEFINE k == KeyOf(r)
  <2>1. /\ req'[r].pc = "poll" /\ req'[r].id = req[r].id /\ req'[r].ch = req[r].ch
        /\ req'[r].body = req[r].body /\ \A q \in Requests \ {r} : req'[q] = req[q]
    BY <1>1, <1>4 DEF StartFresh, Launch, TypeOK, RequestRecord
  <2>2. k \in Key /\ stepStatus[k] = None
    BY <1>1, <1>4, KeyOfType DEF StartFresh, Known
  <2>3. /\ stepStatus'[k] = [Status |-> "Running", State |-> NoState, StepErr |-> "nil"]
        /\ step'[k].at = "executing" /\ step'[k].channels = step[k].channels
        /\ \A j \in Key \ {k} : stepStatus'[j] = stepStatus[j] /\ step'[j] = step[j]
        /\ stepWaitCh' = stepWaitCh
    BY <1>1, <1>4, <2>2 DEF StartStep, StartFresh, Launch, TypeOK, StepRecord
  <2>. k' = k
    BY <2>1 DEF KeyOf
  <2> HIDE DEF k
  <2>4. KeepsDone /\ KeepsIds
    BY <2>1, <2>2, <2>3 DEF KeepsDone, KeepsIds, Done
  <2>5. KeyOK(k)'
    <3>1. KeyOK(k) /\ ~Done(k) /\ step[k].channels = <<>>
      BY <2>2 DEF ResultInv, KeyOK, Done
    <3>2. Running(k)' /\ ~Done(k)'
      BY <2>2, <2>3, RunningType, NamesAssumption DEF Running, Done
    <3>3. ASSUME NEW q \in Range(stepWaitCh[k])
          PROVE  req'[q].id \in StepIds /\ KeyOf(q)' = k
      <4>1. q \in Requests
        BY <1>1, <2>2, RangeInSet DEF TypeOK
      <4>2. req[q].id \in StepIds /\ KeyOf(q) = k
        BY <3>1 DEF KeyOK
      <4>3. QED
        BY <2>4, <4>1, <4>2 DEF KeepsIds, KeyOf
    <3>4. QED
      BY <2>3, <3>1, <3>2, <3>3, RangeOfEmpty DEF KeyOK
  <2>6. ASSUME NEW j \in Key
        PROVE  KeyOK(j)'
    <3>1. CASE j = k
      BY <2>5, <3>1
    <3>2. CASE j # k
      BY <2>3, <2>4, <3>2, KeyKept
    <3>3. QED
      BY <3>1, <3>2
  <2>7. ReqOK(r)'
    <3>1. req'[r].ch = None
      BY <2>1, <2>2 DEF ResultInv, ReqOK, Done, k
    <3>2. Responses(r)' = {}
      BY <1>1, <2>1, RangeOfEmpty DEF Responses
    <3>3. QED
      BY <1>1, <2>1, <3>1, <3>2 DEF ReqOK
  <2>8. \A q \in Requests : ReqOK(q)'
    BY <2>1, <2>4, <2>7, ReqKept
  <2>9. QED
    BY <2>4, <2>6, <2>8 DEF ResultInv
<1>5. QED
  BY <1>2, <1>3, <1>4 DEF StartStep

LEMMA ResultPoll ==
    ASSUME ResultInv, Typed', NEW r \in Requests, PollStep(r)
    PROVE  ResultInv' /\ KeepsDone
<1>1. TypeOK /\ TypeOK' /\ ReqOK(r) /\ req[r].id \in StepIds \cup {NoId}
  BY DEF PollStep, ResultInv, Typed, Asked
<1>2. CASE PollRefuse(r)
  <2>1. /\ req'[r].pc = "done" /\ req'[r].id = req[r].id /\ req'[r].ch = req[r].ch
        /\ req'[r].body = Written(r, Refused) /\ \A q \in Requests \ {r} : req'[q] = req[q]
    BY <1>1, <1>2 DEF PollRefuse, TypeOK, RequestRecord
  <2>2. \A resp \in Responses(r)' : resp \in Responses(r)
    BY <1>1, <2>1, RefusalAdds
  <2>3. KeyOf(r)' = KeyOf(r) /\ stepStatus' = stepStatus /\ step' = step
    BY <2>1 DEF PollStep, KeyOf
  <2>4. ReqOK(r)'
    BY <1>1, <2>1, <2>2, <2>3 DEF ReqOK, Done, VerdictOn
  <2>5. QED
    BY <1>2, <2>1, <2>4, ResultRequest DEF PollStep, PollRefuse
<1>3. ASSUME Known(r)
      PROVE  req[r].id \in StepIds /\ KeyOf(r) \in Key /\ req[r].body = <<>>
  BY <1>1, <1>3, KeyOfType DEF PollStep, Known, ReqOK
<1>4. CASE PollComplete(r)
  <2>1. /\ req'[r].pc = "convert" /\ req'[r].id = req[r].id /\ req'[r].ch = req[r].ch
        /\ req'[r].got = stepStatus[KeyOf(r)]
        /\ req'[r].body = req[r].body /\ \A q \in Requests \ {r} : req'[q] = req[q]
    BY <1>1, <1>4 DEF PollComplete, TypeOK, RequestRecord
  <2>2. KeyOf(r)' = KeyOf(r) /\ stepStatus' = stepStatus /\ step' = step
    BY <2>1 DEF PollStep, KeyOf
  <2>3. Done(KeyOf(r)) /\ req[r].id \in StepIds /\ req[r].body = <<>>
    BY <1>3, <1>4 DEF PollComplete, StatusIs, Known, Done
  <2>4. Responses(r)' = {}
    BY <2>1, <2>3, RangeOfEmpty DEF Responses
  <2>5. ReqOK(r)'
    BY <1>1, <2>1, <2>2, <2>3, <2>4 DEF ReqOK, Done
  <2>6. QED
    BY <1>4, <2>1, <2>5, ResultRequest DEF PollStep, PollComplete
<1>5. CASE PollWait(r)
  <2> DEFINE k == KeyOf(r)
  <2>1. /\ req'[r].pc = "wait" /\ req'[r].id = req[r].id /\ req'[r].ch = req[r].ch
        /\ req'[r].body = req[r].body /\ \A q \in Requests \ {r} : req'[q] = req[q]
    BY <1>1, <1>5 DEF PollWait, TypeOK, RequestRecord
  <2>2. k \in Key /\ req[r].id \in StepIds /\ req[r].body = <<>>
    BY <1>3, <1>5 DEF PollWait, StatusIs
  <2>3. /\ stepWaitCh'[k] = Enlist(stepWaitCh[k], r)
        /\ \A j \in Key \ {k} : stepWaitCh'[j] = stepWaitCh[j]
        /\ stepStatus' = stepStatus /\ step' = step
    BY <1>1, <1>5, <2>2 DEF PollStep, PollWait, TypeOK
  <2>4. KeepsDone /\ KeepsIds
    BY <2>1, <2>3 DEF KeepsDone, KeepsIds
  <2>5. ASSUME NEW q \in Range(Enlist(stepWaitCh[k], r))
        PROVE  q \in Range(stepWaitCh[k]) \/ q = r
    <3>1. stepWaitCh[k] \in Seq(Requests)
      BY <1>1, <2>2 DEF TypeOK
    <3>2. QED
      BY <2>5, <3>1, RangeOfAppend, RangeOfOne DEF Enlist
  <2>6. ASSUME NEW j \in Key
        PROVE  KeyOK(j)'
    <3>1. \A q \in Range(stepWaitCh'[j]) :
             q \in Range(stepWaitCh[j]) \/ (req[q].id \in StepIds /\ KeyOf(q) = j)
      BY <2>2, <2>3, <2>5
    <3>2. QED
      BY <2>3, <2>4, <3>1, KeyKept
  <2>7. ReqOK(r)'
    <3>1. Responses(r)' = {} /\ KeyOf(r)' = KeyOf(r)
      BY <2>1, <2>2, RangeOfEmpty DEF Responses, KeyOf
    <3>2. QED
      BY <1>1, <2>1, <2>2, <2>3, <3>1 DEF ReqOK, Done
  <2>8. \A q \in Requests : ReqOK(q)'
    BY <2>1, <2>4, <2>7, ReqKept
  <2>9. QED
    BY <2>4, <2>6, <2>8 DEF ResultInv
<1>6. QED
  BY <1>2, <1>4, <1>5 DEF PollStep

LEMMA ResultReceive ==
    ASSUME ResultInv, Typed', NEW r \in Requests, Receive(r)
    PROVE  ResultInv' /\ KeepsDone
<1>1. /\ req'[r].pc = "convert" /\ req'[r].id = req[r].id /\ req'[r].ch = None
      /\ req'[r].got = req[r].ch /\ req'[r].body = req[r].body
      /\ \A q \in Requests \ {r} : req'[q] = req[q]
  BY DEF Receive, ResultInv, Typed, TypeOK, RequestRecord
<1>2. /\ req[r].id \in StepIds /\ Done(KeyOf(r)) /\ req[r].ch = stepStatus[KeyOf(r)]
      /\ req[r].body = <<>>
  BY DEF Receive, ResultInv, ReqOK
<1>3. KeyOf(r)' = KeyOf(r) /\ stepStatus' = stepStatus /\ Responses(r)' = {}
  BY <1>1, <1>2, RangeOfEmpty DEF Receive, KeyOf, Responses
<1>4. ReqOK(r)'
  BY <1>1, <1>2, <1>3 DEF ReqOK, Done
<1>5. QED
  BY <1>1, <1>4, ResultRequest DEF Receive

\* What is known of a request that has a status to answer with.
LEMMA HoldsStatus ==
    ASSUME ResultInv, NEW r \in Requests, req[r].pc \in {"convert", "append", "respond"}
    PROVE  /\ TypeOK /\ ReqOK(r) /\ req[r].id \in StepIds /\ KeyOf(r) \in Key /\ Done(KeyOf(r))
           /\ req[r].got = stepStatus[KeyOf(r)]
           /\ req[r].body = <<>>
           /\ req[r].got.State \in State \cup {NoState}
           /\ step[KeyOf(r)].entries \in Seq(Message) /\ req[r].seen \in Seq(Message)
           /\ Complaint(req[r].got.State) \in Seq(Message)
<1>1. TypeOK /\ ReqOK(r)
  BY DEF ResultInv, Typed
<1>2. /\ req[r].id \in StepIds /\ Done(KeyOf(r)) /\ req[r].got = stepStatus[KeyOf(r)]
      /\ req[r].body = <<>>
  BY <1>1 DEF ReqOK
<1>3. KeyOf(r) \in Key
  BY <1>2, KeyOfType
<1>4. /\ req[r].got.State \in State \cup {NoState}
      /\ step[KeyOf(r)].entries \in Seq(Message) /\ req[r].seen \in Seq(Message)
  BY <1>1, <1>2, <1>3, StatusOfDone DEF Done, TypeOK, RequestRecord
<1>5. QED
  BY <1>1, <1>2, <1>3, <1>4, ComplaintType

LEMMA ResultConvertPrivately ==
    ASSUME ResultInv, Typed', NEW r \in Requests, ConvertPrivately(r)
    PROVE  ResultInv' /\ KeepsDone
<1>1. /\ TypeOK /\ ReqOK(r) /\ req[r].id \in StepIds /\ Done(KeyOf(r))
      /\ req[r].got = stepStatus[KeyOf(r)] /\ req[r].body = <<>>
      /\ step[KeyOf(r)].entries \in Seq(Message)
      /\ Complaint(req[r].got.State) \in Seq(Message)
  BY HoldsStatus DEF ConvertPrivately
<1>2. /\ req'[r].pc = "respond" /\ req'[r].id = req[r].id /\ req'[r].ch = req[r].ch
      /\ req'[r].got = req[r].got /\ req'[r].body = req[r].body
      /\ req'[r].seen = step[KeyOf(r)].entries \o Complaint(req[r].got.State)
      /\ \A q \in Requests \ {r} : req'[q] = req[q]
      /\ UNCHANGED <<stepStatus, stepWaitCh, step>>
  BY <1>1 DEF ConvertPrivately, TypeOK, RequestRecord
<1>3. KeyOf(r)' = KeyOf(r) /\ Responses(r)' = {}
  BY <1>1, <1>2, RangeOfEmpty DEF KeyOf, Responses
<1>4. Range(Messages(r))' = AllMessages(KeyOf(r))
  <2>1. CASE req[r].got.StepErr = "multi"
    <3>1. Complaints(KeyOf(r)) = {}
      BY <1>1, <2>1, RangeOfEmpty DEF ConvertPrivately, InPlace, Complaints
    <3>2. QED
      BY <1>2, <1>3, <2>1, <3>1 DEF Messages, AllMessages
  <2>2. CASE req[r].got.StepErr # "multi"
    <3>1. Messages(r)' = step[KeyOf(r)].entries \o Complaint(req[r].got.State)
      BY <1>2, <2>2 DEF Messages
    <3>2. QED
      BY <1>1, <3>1, RangeConcatenation DEF AllMessages, Complaints
  <2>3. QED
    BY <2>1, <2>2
<1>5. ReqOK(r)'
  BY <1>1, <1>2, <1>3, <1>4 DEF ReqOK, Done, AllMessages, Complaints
<1>6. QED
  BY <1>2, <1>5, ResultRequest

LEMMA ResultConvertRead ==
    ASSUME ResultInv, Typed', NEW r \in Requests, ConvertRead(r)
    PROVE  ResultInv' /\ KeepsDone
<1>1. /\ TypeOK /\ ReqOK(r) /\ req[r].id \in StepIds /\ Done(KeyOf(r))
      /\ req[r].got = stepStatus[KeyOf(r)] /\ req[r].body = <<>>
  BY HoldsStatus DEF ConvertRead
<1>2. /\ req'[r].pc = "append" /\ req'[r].id = req[r].id /\ req'[r].ch = req[r].ch
      /\ req'[r].got = req[r].got /\ req'[r].body = req[r].body
      /\ req'[r].seen = step[KeyOf(r)].entries
      /\ \A q \in Requests \ {r} : req'[q] = req[q]
      /\ UNCHANGED <<stepStatus, stepWaitCh, step>>
  BY <1>1 DEF ConvertRead, TypeOK, RequestRecord
<1>3. KeyOf(r)' = KeyOf(r) /\ Responses(r)' = {} /\ InPlace(r)'
  BY <1>1, <1>2, RangeOfEmpty DEF ConvertRead, KeyOf, Responses, InPlace
<1>4. ReqOK(r)'
  BY <1>1, <1>2, <1>3 DEF ReqOK, Done, AllMessages, Complaints
<1>5. QED
  BY <1>2, <1>4, ResultRequest

LEMMA ResultConvertAppend ==
    ASSUME ResultInv, Typed', NEW r \in Requests, ConvertAppend(r)
    PROVE  ResultInv' /\ KeepsDone
<1> DEFINE k == KeyOf(r)
<1>1. /\ TypeOK /\ ReqOK(r) /\ req[r].id \in StepIds /\ k \in Key /\ Done(k)
      /\ req[r].got = stepStatus[k] /\ req[r].body = <<>>
      /\ req[r].seen \in Seq(Message)
      /\ Complaint(req[r].got.State) \in Seq(Message)
  BY HoldsStatus DEF ConvertAppend
<1>2. /\ req'[r].pc = "respond" /\ req'[r].id = req[r].id /\ req'[r].ch = req[r].ch
      /\ req'[r].got = req[r].got /\ req'[r].body = req[r].body
      /\ \A q \in Requests \ {r} : req'[q] = req[q]
      /\ UNCHANGED <<stepStatus, stepWaitCh>>
  BY <1>1 DEF ConvertAppend, TypeOK, RequestRecord
<1>3. /\ step'[k].entries = req[r].seen \o Complaint(req[r].got.State)
      /\ step'[k].at = step[k].at /\ step'[k].channels = step[k].channels
      /\ step'[k].trouble = step[k].trouble
      /\ \A j \in Key \ {k} : step'[j] = step[j]
  BY <1>1 DEF ConvertAppend, TypeOK, StepRecord
<1>4. stepStatus[k].StepErr = "multi" /\ Range(step'[k].entries) = AllMessages(k)
  <2>1. InPlace(r) /\ Range(req[r].seen) \cup Complaints(k) = AllMessages(k)
    BY <1>1 DEF ConvertAppend, ReqOK
  <2>2. Range(step'[k].entries) = Range(req[r].seen) \cup Range(Complaint(req[r].got.State))
    BY <1>1, <1>3, RangeConcatenation
  <2>3. QED
    BY <1>1, <2>1, <2>2 DEF InPlace, Complaints
<1>5. k' = k /\ Responses(r)' = {}
  BY <1>1, <1>2, RangeOfEmpty DEF KeyOf, Responses
<1>6. Messages(r)' = step'[k].entries
  BY <1>1, <1>2, <1>4, <1>5 DEF Messages
<1> HIDE DEF k
<1>7. KeepsDone /\ KeepsIds
  BY <1>2, <1>3, <1>4 DEF KeepsDone, KeepsIds
<1>8. ASSUME NEW j \in Key
      PROVE  KeyOK(j)'
  BY <1>2, <1>3, <1>7, KeyKept
<1>9. ReqOK(r)'
  <2>1. Done(k)' /\ AllMessages(k)' = AllMessages(k)
    BY <1>1, <1>5, <1>7, DoneKept
  <2>2. Range(Messages(r))' = AllMessages(k)'
    BY <1>4, <1>6, <2>1
  <2>3. QED
    BY <1>1, <1>2, <1>5, <2>1, <2>2 DEF ReqOK, k
<1>10. \A q \in Requests : ReqOK(q)'
  BY <1>2, <1>7, <1>9, ReqKept
<1>11. QED
  BY <1>7, <1>8, <1>10 DEF ResultInv

LEMMA ResultRespond ==
    ASSUME ResultInv, Typed', NEW r \in Requests, Respond(r)
    PROVE  /\ ResultInv' /\ KeepsDone
           /\ \E resp \in Response :
                 req'[r].body = Written(r, resp) /\ Verdict(resp) = VerdictOn(KeyOf(r))
<1> DEFINE resp == ResponseOf(req[r].got.State, req[r].got.StepErr, Messages(r))
<1>1. /\ TypeOK /\ ReqOK(r) /\ req[r].id \in StepIds /\ KeyOf(r) \in Key /\ Done(KeyOf(r))
      /\ req[r].got = stepStatus[KeyOf(r)] /\ req[r].body = <<>>
      /\ req[r].got.State \in State \cup {NoState}
      /\ step[KeyOf(r)].entries \in Seq(Message) /\ req[r].seen \in Seq(Message)
  BY HoldsStatus DEF Respond
<1>2. Verdict(resp) = VerdictOn(KeyOf(r))
  <2>1. Verdict(resp) = Facts(req[r].got.State, req[r].got.StepErr, Range(Messages(r)))
    BY VerdictIsFacts
  <2>2. Range(Messages(r)) = AllMessages(KeyOf(r))
    BY <1>1 DEF Respond, ReqOK
  <2>3. QED
    BY <1>1, <2>1, <2>2, VerdictOnIsFacts
<1>3. resp \in Response
  <2>1. Messages(r) \in Seq(Message)
    BY <1>1 DEF Messages
  <2>2. QED
    BY <1>1, <2>1, ResponseType
<1>4. req' = [req EXCEPT ![r] = [@ EXCEPT !.pc = "done", !.body = Written(r, resp)]]
  BY DEF Respond
<1> HIDE DEF resp
<1>5. /\ req'[r].pc = "done" /\ req'[r].id = req[r].id /\ req'[r].ch = req[r].ch
      /\ req'[r].body = Written(r, resp)
      /\ \A q \in Requests \ {r} : req'[q] = req[q]
  BY <1>1, <1>4 DEF TypeOK, RequestRecord
<1>6. stepStatus' = stepStatus /\ stepWaitCh' = stepWaitCh /\ step' = step
      /\ KeyOf(r)' = KeyOf(r)
  BY <1>5 DEF Respond, KeyOf
<1>7. ASSUME NEW x \in Responses(r)'
      PROVE  x = resp
  <2>1. x \in Range(Append(<<>>, resp))
    BY <1>1, <1>5, <1>7 DEF Responses, Written
  <2>2. Append(<<>>, resp) = <<resp>>
    OBVIOUS
  <2>3. QED
    BY <2>1, <2>2, RangeOfOne
<1>8. ReqOK(r)'
  BY <1>1, <1>2, <1>5, <1>6, <1>7 DEF ReqOK, Done, VerdictOn
<1>9. ResultInv' /\ KeepsDone
  BY <1>5, <1>6, <1>8, ResultRequest
<1>10. QED
  BY <1>2, <1>3, <1>5, <1>9

LEMMA ResultFinish ==
    ASSUME ResultInv, Typed', NEW k \in Key, NEW e \in Endings, Finish(k, e)
    PROVE  /\ ResultInv' /\ KeepsDone
           /\ Running(k) /\ Done(k)'
           /\ VerdictOn(k)' = VerdictOf(e.outcome.state, e.outcome.err.kind, e.outcome.err.msgs)
<1>1. TypeOK /\ TypeOK' /\ KeyOK(k) /\ Running(k) /\ ~Done(k)
  BY DEF ResultInv, Typed, KeyOK, Finish, Running, Done
<1>2. /\ stepStatus'[k] = Completed(e.outcome) /\ step'[k].channels = stepWaitCh[k]
      /\ step'[k].at = "notifying" /\ step'[k].entries = e.outcome.err.msgs
      /\ step'[k].trouble = e.trouble
      /\ \A j \in Key \ {k} : stepStatus'[j] = stepStatus[j] /\ step'[j] = step[j]
      /\ req' = req /\ stepWaitCh' = stepWaitCh
  BY <1>1 DEF Finish, TypeOK
<1>3. /\ Done(k)' /\ ~Running(k)'
      /\ stepStatus'[k].State = e.outcome.state /\ stepStatus'[k].StepErr = e.outcome.err.kind
  <2>1. Completed(e.outcome) # None
    BY CompletedType, NamesAssumption
  <2>2. QED
    BY <1>2, <2>1 DEF Done, Running, Completed
<1>4. KeepsDone /\ KeepsIds
  BY <1>1, <1>2 DEF KeepsDone, KeepsIds
<1>5. KeyOK(k)'
  <2>1. ASSUME NEW q \in Range(stepWaitCh[k])
        PROVE  req'[q].id \in StepIds /\ KeyOf(q)' = k
    BY <1>1, <1>2 DEF KeyOK, KeyOf
  <2>2. Truthful(e.trouble, e.outcome.state, e.outcome.err.kind, e.outcome.err.msgs)
    BY EndingTruthful
  <2>3. QED
    BY <1>2, <1>3, <2>1, <2>2 DEF KeyOK
<1>6. ASSUME NEW j \in Key
      PROVE  KeyOK(j)'
  <2>1. CASE j = k
    BY <1>5, <2>1
  <2>2. CASE j # k
    BY <1>2, <1>4, <2>2, KeyKept
  <2>3. QED
    BY <2>1, <2>2
<1>7. \A q \in Requests : ReqOK(q)'
  BY <1>2, <1>4, ReqKept
<1>8. VerdictOn(k)' = VerdictOf(e.outcome.state, e.outcome.err.kind, e.outcome.err.msgs)
  BY <1>2, <1>3 DEF VerdictOn
<1>9. QED
  BY <1>1, <1>3, <1>4, <1>6, <1>7, <1>8 DEF ResultInv

LEMMA ResultNotify ==
    ASSUME ResultInv, Typed', NEW k \in Key, Notify(k)
    PROVE  /\ ResultInv' /\ KeepsDone
           /\ \A q \in Requests : req'[q].id = req[q].id /\ req'[q].body = req[q].body
<1>1. /\ TypeOK /\ TypeOK' /\ KeyOK(k)
      /\ step[k].channels \in Seq(Requests) /\ step[k].channels # <<>>
  BY DEF Notify, ResultInv, Typed, TypeOK, StepRecord
<1>2. PICK r \in Requests : r = Head(step[k].channels) /\ r \in Range(step[k].channels)
  BY <1>1, HeadInRange
<1>3. req' = [req EXCEPT ![r].ch = stepStatus[k]] /\ req[r].ch = None
  BY <1>2 DEF Notify
<1>4. Done(k) /\ req[r].id \in StepIds /\ KeyOf(r) = k
  BY <1>1, <1>2 DEF KeyOK
<1>5. /\ req'[r].pc = req[r].pc /\ req'[r].id = req[r].id /\ req'[r].ch = stepStatus[k]
      /\ req'[r].got = req[r].got /\ req'[r].seen = req[r].seen /\ req'[r].body = req[r].body
      /\ \A q \in Requests \ {r} : req'[q] = req[q]
  BY <1>1, <1>2, <1>3 DEF TypeOK, RequestRecord
<1>6. /\ step'[k].channels = Tail(step[k].channels) /\ step'[k].at = step[k].at
      /\ step'[k].entries = step[k].entries /\ step'[k].trouble = step[k].trouble
      /\ \A j \in Key \ {k} : step'[j] = step[j]
      /\ stepStatus' = stepStatus /\ stepWaitCh' = stepWaitCh
  BY <1>1 DEF Notify, TypeOK, StepRecord
<1>7. KeepsDone /\ KeepsIds
  BY <1>2, <1>5, <1>6 DEF KeepsDone, KeepsIds
<1>8. ASSUME NEW j \in Key
      PROVE  KeyOK(j)'
  <2>1. \A q \in Range(step'[j].channels) : q \in Range(step[j].channels)
    BY <1>1, <1>6, TailInRange
  <2>2. step'[j].channels # <<>> => step[j].channels # <<>>
    BY <1>1, <1>6
  <2>3. step'[j].at = step[j].at
    BY <1>6
  <2>4. QED
    BY <1>6, <1>7, <2>1, <2>2, <2>3, KeyKept
<1>9. ReqOK(r)'
  <2>1. ReqOK(r) /\ KeyOf(r)' = k
    BY <1>2, <1>4, <1>5 DEF ResultInv, KeyOf
  <2>2. /\ Done(k)' /\ Complaints(k)' = Complaints(k) /\ AllMessages(k)' = AllMessages(k)
        /\ VerdictOn(k)' = VerdictOn(k)
    BY <1>4, <1>6 DEF Done, Complaints, AllMessages, VerdictOn
  <2>3. /\ InPlace(r)' = InPlace(r) /\ Responses(r)' = Responses(r)
        /\ Messages(r)' = Messages(r)
    BY <1>4, <1>5, <1>6, <2>1 DEF InPlace, Responses, Messages
  <2>4. QED
    BY <1>4, <1>5, <1>6, <2>1, <2>2, <2>3 DEF ReqOK
<1>10. \A q \in Requests : ReqOK(q)'
  BY <1>5, <1>7, <1>9, ReqKept
<1>11. QED
  BY <1>5, <1>7, <1>8, <1>10 DEF ResultInv

LEMMA ResultNext == ResultInv /\ [Next]_vars => ResultInv' /\ KeepsDone
<1> SUFFICES ASSUME ResultInv, [Next]_vars
             PROVE  ResultInv' /\ KeepsDone
  OBVIOUS
<1>1. Typed'
  BY TypedNext DEF ResultInv
<1>2. ASSUME NEW r \in Requests, NEW id \in StepIds \cup {NoId}, Arrive(r, id)
      PROVE  ResultInv' /\ KeepsDone
  BY <1>1, <1>2, ResultArrive
<1>3. ASSUME NEW r \in Requests, Handle(r)
      PROVE  ResultInv' /\ KeepsDone
  BY <1>1, <1>3, ResultStart, ResultPoll, ResultReceive, ResultConvertPrivately,
     ResultConvertRead, ResultConvertAppend, ResultRespond DEF Handle
<1>4. ASSUME NEW k \in Key, NEW e \in Endings, Finish(k, e)
      PROVE  ResultInv' /\ KeepsDone
  BY <1>1, <1>4, ResultFinish
<1>5. ASSUME NEW k \in Key, Notify(k)
      PROVE  ResultInv' /\ KeepsDone
  BY <1>1, <1>5, ResultNotify
<1>6. CASE UNCHANGED vars
  <2>1. KeepsDone /\ KeepsIds
    BY <1>6 DEF vars, KeepsDone, KeepsIds
  <2>2. (\A k \in Key : KeyOK(k)') /\ (\A q \in Requests : ReqOK(q)')
    BY <1>1, <1>6, <2>1, KeyKept, ReqKept DEF vars
  <2>3. QED
    BY <1>1, <2>1, <2>2 DEF ResultInv
<1>7. QED
  BY <1>2, <1>3, <1>4, <1>5, <1>6 DEF Next

THEOREM ResultsInvariant == Spec => []ResultInv
BY ResultInit, ResultNext, PTL DEF Spec

(* Whoever converted the shared error before, a response carries an error    *)
(* exactly when the run, the upload or the deadline went wrong or the        *)
(* container ended badly, and only then an exit code other than 0            *)
(* (step_executor.go:203-350).                                               *)
THEOREM OutcomeReportedAlways == Spec => []OutcomeReported
<1>1. ResultInv => OutcomeReported
  <2> SUFFICES ASSUME ResultInv, NEW r \in Requests, NEW resp \in Responses(r)
               PROVE  LET failed == "failure" \in step[KeyOf(r)].trouble IN
                      /\ failed <=> resp.Error # <<>>
                      /\ resp.ExitCode # 0 => failed
                      /\ failed /\ ~resp.OOMKilled => resp.ExitCode # 0
    BY DEF OutcomeReported
  <2> DEFINE k == KeyOf(r)
             failed == "failure" \in step[k].trouble
  <2>1. TypeOK /\ k \in Key /\ Done(k) /\ Verdict(resp) = VerdictOn(k)
    BY KeyOfType DEF ResultInv, Typed, ReqOK
  <2>2. resp.Error \in Seq(Message)
    <3>1. req[r].body \in Seq(Response \cup {Refused})
      BY <2>1 DEF TypeOK, RequestRecord
    <3>2. resp \in Response
      BY <3>1, RangeInSet DEF Responses
    <3>3. QED
      BY <3>2 DEF Response
  <2>3. Truthful(step[k].trouble, stepStatus[k].State, stepStatus[k].StepErr, step[k].entries)
    BY <2>1 DEF ResultInv, KeyOK
  <2> HIDE DEF k
  <2>4. Verdict(resp) = Facts(stepStatus[k].State, stepStatus[k].StepErr, AllMessages(k))
    BY <2>1, VerdictOnIsFacts
  <2>5. /\ resp.ExitCode = IF stepStatus[k].StepErr # "nil" THEN 255
                           ELSE IF stepStatus[k].State = NoState THEN 0
                           ELSE stepStatus[k].State.ExitCode
        /\ resp.OOMKilled = IF stepStatus[k].State = NoState THEN FALSE
                            ELSE stepStatus[k].State.OOMKilled
        /\ Range(resp.Error) = AllMessages(k)
    BY <2>4 DEF Verdict, Facts
  <2>6. failed <=> Range(resp.Error) # {}
    BY <2>3, <2>5 DEF Truthful, AllMessages, Complaints
  <2>7. failed <=> resp.Error # <<>>
    BY <2>2, <2>6, EmptyRange
  <2>8. stepStatus[k].StepErr = "nil" => (failed <=> Complaint(stepStatus[k].State) # <<>>)
    BY <2>1, <2>3, StatusOfDone, ComplaintIs, RangeOfEmpty DEF Done, Truthful
  <2>9. Complaint(stepStatus[k].State) = <<>> <=>
           stepStatus[k].State = NoState
             \/ (stepStatus[k].State.ExitCode = 0 /\ ~stepStatus[k].State.OOMKilled)
    BY <2>1, StatusOfDone, ComplaintIs DEF Done
  <2>10. stepStatus[k].StepErr # "nil" => failed
    BY <2>3 DEF Truthful
  <2>11. resp.ExitCode # 0 => failed
    BY <2>5, <2>8, <2>9, <2>10
  <2>12. failed /\ ~resp.OOMKilled => resp.ExitCode # 0
    BY <2>5, <2>8, <2>9
  <2>13. QED
    BY <2>7, <2>11, <2>12 DEF k
<1>2. QED
  BY <1>1, ResultsInvariant, PTL
=============================================================================
