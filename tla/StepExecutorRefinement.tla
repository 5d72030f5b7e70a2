----------------------- MODULE StepExecutorRefinement -----------------------
(***************************************************************************)
(* The executor implements StepService, for any steps, requests and exit   *)
(* codes: each step of it is a step of the service or changes nothing the  *)
(* service shows.                                                          *)
(***************************************************************************)
EXTENDS StepExecutorResults

(* The variables of the service, as the executor shows them.                 *)

PhaseMap == [k \in Key |-> Phase(k)]

ResultMap ==
    [k \in Key |-> IF Phase(k) # "complete" THEN None
                   ELSE VerdictOf(stepStatus[k].State, stepStatus[k].StepErr, step[k].entries)]

AskedMap == [r \in Requests |-> IF req[r].id \in StepIds THEN KeyOf(r) ELSE req[r].id]

RepliesTo(body) == [i \in DOMAIN body |-> IF body[i] = Refused THEN Refused ELSE Verdict(body[i])]

ReplyMap ==
    [r \in Requests |-> [i \in DOMAIN req[r].body |->
        IF req[r].body[i] = Refused THEN Refused ELSE Verdict(req[r].body[i])]]

LEMMA PhaseIs ==
    ASSUME NEW k \in Key
    PROVE  /\ stepStatus[k] = None => Phase(k) = "unknown"
           /\ Running(k) => Phase(k) = "running"
           /\ stepStatus[k] # None /\ ~Running(k) => Phase(k) = "complete"
<1>1. CASE stepStatus[k] = None
  BY <1>1 DEF Phase, Running
<1>2. CASE Running(k)
  BY <1>2 DEF Phase, Running
<1>3. CASE stepStatus[k] # None /\ ~Running(k)
  BY <1>3 DEF Phase, Running
<1>4. QED
  BY <1>1, <1>2, <1>3 DEF Running

\* Phases and results change with the status of a step and what its error says only.
LEMMA ShownOf ==
    ASSUME TypeOK, NEW k \in Key
    PROVE  /\ PhaseMap[k] = IF stepStatus[k] = None THEN "unknown"
                            ELSE IF Running(k) THEN "running" ELSE "complete"
           /\ ResultMap[k] = IF Done(k) THEN VerdictOn(k) ELSE None
           /\ stepStatus[k] = None \/ Running(k) \/ Done(k)
           /\ ~(Running(k) /\ Done(k))
<1>1. /\ stepStatus[k] = None \/ Running(k) \/ Done(k)
      /\ ~(Running(k) /\ Done(k))
  BY StatusOfDone DEF Running, Done
<1>2. PhaseMap[k] = Phase(k)
  BY DEF PhaseMap
<1>3. ResultMap[k] = IF Phase(k) # "complete" THEN None ELSE VerdictOn(k)
  BY DEF ResultMap, VerdictOn
<1>4. Phase(k) = "complete" <=> Done(k)
  BY <1>1, PhaseIs DEF Running, Done
<1>5. QED
  BY <1>1, <1>2, <1>3, <1>4, PhaseIs DEF Running

LEMMA MapDomains ==
    /\ PhaseMap = [k \in Key |-> PhaseMap[k]] /\ ResultMap = [k \in Key |-> ResultMap[k]]
    /\ AskedMap = [r \in Requests |-> AskedMap[r]]
    /\ ReplyMap = [r \in Requests |-> RepliesTo(req[r].body)]
BY DEF PhaseMap, ResultMap, AskedMap, ReplyMap, RepliesTo

LEMMA AskedIs ==
    ASSUME NEW r \in Requests
    PROVE  AskedMap[r] = IF req[r].id \in StepIds THEN KeyOf(r) ELSE req[r].id
BY DEF AskedMap

LEMMA ShownKept ==
    ASSUME TypeOK, TypeOK', KeepsDone, stepStatus' = stepStatus
    PROVE  PhaseMap' = PhaseMap /\ ResultMap' = ResultMap
<1>1. ASSUME NEW k \in Key
      PROVE  PhaseMap'[k] = PhaseMap[k] /\ ResultMap'[k] = ResultMap[k]
  <2>1. Phase(k)' = Phase(k)
    BY DEF Phase
  <2>2. CASE Done(k)
    <3>1. VerdictOn(k)' = VerdictOn(k)
      BY <2>2, VerdictKept
    <3>2. QED
      BY <2>1, <3>1 DEF PhaseMap, ResultMap, VerdictOn
  <2>3. CASE ~Done(k)
    <3>1. Phase(k) # "complete"
      BY <2>3, PhaseIs, StatusOfDone DEF Running, Done
    <3>2. QED
      BY <2>1, <3>1 DEF PhaseMap, ResultMap
  <2>4. QED
    BY <2>2, <2>3
<1>2. QED
  BY <1>1 DEF PhaseMap, ResultMap

LEMMA ReplyWritten ==
    ASSUME NEW body \in Seq(Response \cup {Refused}), NEW b \in Response \cup {Refused}
    PROVE  RepliesTo(Append(body, b))
               = Append(RepliesTo(body), IF b = Refused THEN Refused ELSE Verdict(b))
<1> DEFINE Said(x) == IF x = Refused THEN Refused ELSE Verdict(x)
           S == {Said(x) : x \in Response \cup {Refused}}
           old == RepliesTo(body)
           new == RepliesTo(Append(body, b))
           n == Len(body)
<1>1. n \in Nat /\ DOMAIN body = 1..n /\ \A i \in 1..n : body[i] \in Response \cup {Refused}
  BY LenProperties, ElementOfSeq
<1>2. /\ Append(body, b) \in Seq(Response \cup {Refused}) /\ DOMAIN Append(body, b) = 1..(n + 1)
      /\ Append(body, b)[n + 1] = b /\ \A i \in 1..n : Append(body, b)[i] = body[i]
  BY AppendProperties, LenProperties
<1>3. Said(b) \in S
  OBVIOUS
<1>4. old = [i \in 1..n |-> Said(body[i])] /\ old \in [1..n -> S]
  BY <1>1 DEF RepliesTo
<1>5. new = [i \in 1..(n + 1) |-> Said(Append(body, b)[i])]
  BY <1>2 DEF RepliesTo
<1>6. \A i \in 1..n : new[i] = old[i]
  BY <1>1, <1>2, <1>4, <1>5
<1>7. new[n + 1] = Said(b)
  BY <1>1, <1>2, <1>5
<1>8. new \in [1..(n + 1) -> S]
  <2>1. \A i \in 1..(n + 1) : Append(body, b)[i] \in Response \cup {Refused}
    BY <1>2, ElementOfSeq
  <2>2. QED
    BY <1>5, <2>1
<1> HIDE DEF Said, S, old, new, n
<1>9. old \in Seq(S) /\ Len(old) = n /\ n + 1 \in Nat
  BY <1>1, <1>4, FunctionIsSeq
<1>10. new \in Seq(S) /\ Len(new) = n + 1
  BY <1>8, <1>9, FunctionIsSeq
<1>11. /\ Append(old, Said(b)) \in Seq(S) /\ Len(Append(old, Said(b))) = n + 1
       /\ Append(old, Said(b))[n + 1] = Said(b)
       /\ \A i \in 1..n : Append(old, Said(b))[i] = old[i]
  BY <1>3, <1>9, AppendProperties
<1>12. \A i \in 1..(n + 1) : new[i] = Append(old, Said(b))[i]
  <2>1. \A i \in 1..(n + 1) : i = n + 1 \/ i \in 1..n
    BY <1>1
  <2>2. QED
    BY <1>6, <1>7, <1>11, <2>1
<1>13. new = Append(old, Said(b))
  BY <1>10, <1>11, <1>12, SeqEqual
<1>14. QED
  BY <1>13 DEF new, old, Said

-----------------------------------------------------------------------------
(* The steps of the service, in terms of what the executor shows.            *)

LEMMA ServiceStutters ==
    ASSUME PhaseMap' = PhaseMap, ResultMap' = ResultMap,
           AskedMap' = AskedMap, ReplyMap' = ReplyMap
    PROVE  UNCHANGED Service!vars
BY DEF PhaseMap, ResultMap, AskedMap, ReplyMap, Service!vars

LEMMA ServiceAsks ==
    ASSUME NEW r \in Requests, NEW s \in Key \cup {NoId},
           AskedMap[r] = None, AskedMap' = [AskedMap EXCEPT ![r] = s],
           PhaseMap' = PhaseMap, ResultMap' = ResultMap, ReplyMap' = ReplyMap
    PROVE  Service!Next
<1>1. Service!Ask(r, s)
  BY DEF PhaseMap, ResultMap, AskedMap, ReplyMap, Service!Ask
<1>2. QED
  BY <1>1 DEF Service!Next

LEMMA ServiceStarts ==
    ASSUME NEW r \in Requests, NEW k \in Key, AskedMap[r] = k, PhaseMap[k] = "unknown",
           PhaseMap' = [PhaseMap EXCEPT ![k] = "running"],
           ResultMap' = ResultMap, AskedMap' = AskedMap, ReplyMap' = ReplyMap
    PROVE  Service!Next
<1>1. Service!Start(k)
  BY DEF PhaseMap, ResultMap, AskedMap, ReplyMap, Service!Start
<1>2. QED
  BY <1>1 DEF Service!Next

LEMMA ServiceCompletes ==
    ASSUME NEW k \in Key, NEW res \in Verdicts, PhaseMap[k] = "running",
           PhaseMap' = [PhaseMap EXCEPT ![k] = "complete"],
           ResultMap' = [ResultMap EXCEPT ![k] = res],
           AskedMap' = AskedMap, ReplyMap' = ReplyMap
    PROVE  Service!Next
<1>1. Service!Complete(k, res)
  BY DEF PhaseMap, ResultMap, AskedMap, ReplyMap, Service!Complete
<1>2. QED
  BY <1>1 DEF Service!Next

LEMMA ServiceReplies ==
    ASSUME NEW r \in Requests, NEW k \in Key, AskedMap[r] = k, PhaseMap[k] = "complete",
           ReplyMap[r] = <<>>, ReplyMap' = [ReplyMap EXCEPT ![r] = <<ResultMap[k]>>],
           PhaseMap' = PhaseMap, ResultMap' = ResultMap, AskedMap' = AskedMap
    PROVE  Service!Next
<1>1. Service!Reply(r, k)
  BY DEF PhaseMap, ResultMap, AskedMap, ReplyMap, Service!Reply
<1>2. QED
  BY <1>1 DEF Service!Next

LEMMA ServiceRefuses ==
    ASSUME NEW r \in Requests,
           \/ AskedMap[r] = NoId /\ ReplyMap[r] \in {<<>>, <<Refused>>}
           \/ ReplyMap[r] = <<>> /\ \E k \in Key : AskedMap[r] = k /\ PhaseMap[k] = "unknown",
           ReplyMap' = [ReplyMap EXCEPT ![r] = Append(ReplyMap[r], Refused)],
           PhaseMap' = PhaseMap, ResultMap' = ResultMap, AskedMap' = AskedMap
    PROVE  Service!Next
<1>1. Service!Refuse(r)
  BY DEF PhaseMap, ResultMap, AskedMap, ReplyMap, Service!Refuse
<1>2. QED
  BY <1>1 DEF Service!Next

LEMMA ServiceInit == Init => Service!Init
<1> SUFFICES ASSUME Init
             PROVE  Service!Init
  OBVIOUS
<1>1. ASSUME NEW k \in Key
      PROVE  Phase(k) = "unknown"
  BY PhaseIs DEF Init
<1>2. PhaseMap = [k \in Key |-> "unknown"] /\ ResultMap = [k \in Key |-> None]
  BY <1>1 DEF PhaseMap, ResultMap
<1>3. AskedMap = [r \in Requests |-> None]
  BY NamesAssumption DEF Init, AskedMap, NoRequest
<1>4. ReplyMap = [r \in Requests |-> <<>>]
  <2>1. RepliesTo(<<>>) = <<>>
    BY DEF RepliesTo
  <2>2. QED
    BY <2>1, MapDomains DEF Init, NoRequest
<1>5. QED
  BY <1>2, <1>3, <1>4 DEF Service!Init, PhaseMap, ResultMap, AskedMap, ReplyMap

-----------------------------------------------------------------------------
(* Which of them each action of the executor is.                             *)

LEMMA AskedKept ==
    ASSUME \A q \in Requests : req'[q].id = req[q].id
    PROVE  AskedMap' = AskedMap
<1>1. \A q \in Requests : KeyOf(q)' = KeyOf(q)
  BY DEF KeyOf
<1>2. QED
  BY <1>1 DEF AskedMap

LEMMA RepliesKept ==
    ASSUME \A q \in Requests : req'[q].body = req[q].body
    PROVE  ReplyMap' = ReplyMap
BY DEF ReplyMap

LEMMA ReplyAdded ==
    ASSUME TypeOK, NEW r \in Requests, NEW b \in Response \cup {Refused},
           req'[r].body = Written(r, b),
           \A q \in Requests \ {r} : req'[q] = req[q]
    PROVE  ReplyMap' = [ReplyMap EXCEPT ![r] =
                          Append(ReplyMap[r], IF b = Refused THEN Refused ELSE Verdict(b))]
<1>1. req[r].body \in Seq(Response \cup {Refused})
  BY DEF TypeOK, RequestRecord
<1>2. RepliesTo(req'[r].body)
        = Append(RepliesTo(req[r].body), IF b = Refused THEN Refused ELSE Verdict(b))
  BY <1>1, ReplyWritten DEF Written
<1>3. /\ ReplyMap = [q \in Requests |-> RepliesTo(req[q].body)]
      /\ ReplyMap' = [q \in Requests |-> RepliesTo(req'[q].body)]
  BY DEF ReplyMap, RepliesTo
<1>4. QED
  BY <1>2, <1>3

LEMMA QuietStep ==
    ASSUME TypeOK, TypeOK', KeepsDone, stepStatus' = stepStatus,
           \A q \in Requests : req'[q].id = req[q].id /\ req'[q].body = req[q].body
    PROVE  UNCHANGED Service!vars
BY ShownKept, AskedKept, RepliesKept, ServiceStutters

LEMMA ArriveRefines ==
    ASSUME ResultInv, TypeOK', KeepsDone, NEW r \in Requests, NEW id \in StepIds \cup {NoId},
           Arrive(r, id)
    PROVE  Service!Next
<1> DEFINE s == IF id \in StepIds THEN <<IF r \in StartReqs THEN "stage" ELSE "server", id>> ELSE id
<1>1. TypeOK /\ req[r].id = None
  BY DEF Arrive, ResultInv, Typed, ReqOK
<1>2. /\ req'[r].id = id /\ req'[r].body = req[r].body
      /\ \A q \in Requests \ {r} : req'[q] = req[q]
  BY <1>1 DEF Arrive, TypeOK, RequestRecord
<1>3. s \in Key \cup {NoId}
  BY DEF Key
<1>4. AskedMap[r] = None
  BY <1>1, NamesAssumption, AskedIs
<1>5. AskedMap' = [AskedMap EXCEPT ![r] = s]
  <2>1. AskedMap'[r] = s
    BY <1>2 DEF AskedMap, KeyOf
  <2>2. \A q \in Requests \ {r} : AskedMap'[q] = AskedMap[q]
    BY <1>2 DEF AskedMap, KeyOf
  <2> HIDE DEF s
  <2>3. QED
    BY <2>1, <2>2 DEF AskedMap
<1> HIDE DEF s
<1>6. PhaseMap' = PhaseMap /\ ResultMap' = ResultMap
  BY <1>1, ShownKept DEF Arrive
<1>7. ReplyMap' = ReplyMap
  BY <1>2, RepliesKept
<1>8. QED
  BY <1>3, <1>4, <1>5, <1>6, <1>7, ServiceAsks

\* A request that is refused names no step, or one its executor does not know.
LEMMA RefusalRefines ==
    ASSUME ResultInv, TypeOK', KeepsDone, stepStatus' = stepStatus,
           NEW r \in Requests, req[r].id \in StepIds \cup {NoId}, ~Known(r),
           req[r].body = <<>> \/ (req[r].id = NoId /\ req[r].body = <<Refused>>),
           req'[r].id = req[r].id, req'[r].body = Written(r, Refused),
           \A q \in Requests \ {r} : req'[q] = req[q]
    PROVE  Service!Next
<1>1. TypeOK
  BY DEF ResultInv, Typed
<1>2. \/ AskedMap[r] = NoId /\ ReplyMap[r] \in {<<>>, <<Refused>>}
      \/ ReplyMap[r] = <<>> /\ \E k \in Key : AskedMap[r] = k /\ PhaseMap[k] = "unknown"
  <2>0. /\ req[r].body = <<>> => ReplyMap[r] = <<>>
        /\ req[r].body = <<Refused>> => ReplyMap[r] = <<Refused>>
    <3>1. ReplyMap[r] = RepliesTo(req[r].body)
      BY DEF ReplyMap, RepliesTo
    <3>2. RepliesTo(<<>>) = <<>> /\ RepliesTo(<<Refused>>) = <<Refused>>
      BY DEF RepliesTo
    <3>3. QED
      BY <3>1, <3>2
  <2>1. CASE req[r].id \in StepIds
    <3>1. KeyOf(r) \in Key /\ stepStatus[KeyOf(r)] = None
      BY <2>1, KeyOfType, NamesAssumption DEF Known
    <3>2. PhaseMap[KeyOf(r)] = "unknown"
      BY <1>1, <3>1, ShownOf
    <3>3. req[r].body = <<>>
      BY <2>1, NamesAssumption
    <3>4. QED
      BY <2>0, <2>1, <3>1, <3>2, <3>3, AskedIs
  <2>2. CASE req[r].id = NoId
    <3>1. AskedMap[r] = NoId
      BY <2>2, NamesAssumption, AskedIs
    <3>2. QED
      BY <2>0, <3>1
  <2>3. QED
    BY <2>1, <2>2
<1>3. ReplyMap' = [ReplyMap EXCEPT ![r] = Append(ReplyMap[r], Refused)]
  BY <1>1, ReplyAdded
<1>4. PhaseMap' = PhaseMap /\ ResultMap' = ResultMap /\ AskedMap' = AskedMap
  BY <1>1, ShownKept, AskedKept
<1>5. QED
  BY <1>2, <1>3, <1>4, ServiceRefuses

LEMMA StartRefines ==
    ASSUME ResultInv, TypeOK', KeepsDone, NEW r \in Requests, StartStep(r)
    PROVE  Service!Next \/ UNCHANGED Service!vars
<1>1. TypeOK /\ req[r].id \in StepIds \cup {NoId}
  BY DEF StartStep, ResultInv, Typed, Asked
<1>2. CASE StartRefuse(r)
  <2>1. /\ req'[r].id = req[r].id /\ req'[r].body = Written(r, Refused)
        /\ \A q \in Requests \ {r} : req'[q] = req[q]
    BY <1>1, <1>2 DEF StartRefuse, TypeOK, RequestRecord
  <2>2. req[r].body = <<>>
    BY DEF StartStep, ResultInv, ReqOK
  <2>3. QED
    BY <1>1, <1>2, <2>1, <2>2, RefusalRefines DEF StartRefuse, Known
<1>3. CASE StartKnown(r)
  <2>1. \A q \in Requests : req'[q].id = req[q].id /\ req'[q].body = req[q].body
    BY <1>1, <1>3 DEF StartKnown, TypeOK, RequestRecord
  <2>2. QED
    BY <1>1, <1>3, <2>1, QuietStep DEF StartKnown
<1>4. CASE StartFresh(r)
  <2> DEFINE k == KeyOf(r)
  <2>1. \A q \in Requests : req'[q].id = req[q].id /\ req'[q].body = req[q].body
    BY <1>1, <1>4 DEF StartFresh, Launch, TypeOK, RequestRecord
  <2>2. req[r].id \in StepIds /\ k \in Key /\ stepStatus[k] = None
    BY <1>1, <1>4, KeyOfType DEF StartFresh, Known
  <2>3. /\ stepStatus'[k] = [Status |-> "Running", State |-> NoState, StepErr |-> "nil"]
        /\ \A j \in Key \ {k} : stepStatus'[j] = stepStatus[j] /\ step'[j] = step[j]
    BY <1>1, <1>4, <2>2 DEF StartFresh, Launch, TypeOK
  <2>4. k' = k
    BY <2>1 DEF KeyOf
  <2>5. AskedMap[r] = k
    BY <2>2, AskedIs
  <2> HIDE DEF k
  <2>6. stepStatus'[k] # None /\ Running(k)' /\ ~Done(k)
    BY <2>2, <2>3, <2>4, RunningType, NamesAssumption DEF Running, Done
  <2>7. /\ PhaseMap[k] = "unknown" /\ PhaseMap'[k] = "running"
        /\ ResultMap[k] = None /\ ResultMap'[k] = None
    <3>1. PhaseMap[k] = "unknown" /\ ResultMap[k] = None
      BY <1>1, <2>2, <2>6, ShownOf
    <3>2. Phase(k)' = "running"
      BY <2>4, <2>6 DEF Phase, Running
    <3>3. QED
      BY <2>2, <2>4, <3>1, <3>2 DEF PhaseMap, ResultMap
  <2>8. \A j \in Key \ {k} : PhaseMap'[j] = PhaseMap[j] /\ ResultMap'[j] = ResultMap[j]
    BY <2>3 DEF PhaseMap, ResultMap, Phase
  <2>9. PhaseMap' = [PhaseMap EXCEPT ![k] = "running"] /\ ResultMap' = ResultMap
    BY <2>2, <2>7, <2>8 DEF PhaseMap, ResultMap
  <2>10. QED
    BY <2>1, <2>2, <2>5, <2>7, <2>9, AskedKept, RepliesKept, ServiceStarts
<1>5. QED
  BY <1>2, <1>3, <1>4 DEF StartStep

LEMMA PollRefines ==
    ASSUME ResultInv, TypeOK', KeepsDone, NEW r \in Requests, PollStep(r)
    PROVE  Service!Next \/ UNCHANGED Service!vars
<1>1. TypeOK /\ req[r].id \in StepIds \cup {NoId}
  BY DEF PollStep, ResultInv, Typed, Asked
<1>2. CASE PollRefuse(r)
  <2>1. /\ req'[r].id = req[r].id /\ req'[r].body = Written(r, Refused)
        /\ \A q \in Requests \ {r} : req'[q] = req[q]
    BY <1>1, <1>2 DEF PollRefuse, TypeOK, RequestRecord
  <2>2. req[r].body = <<>> \/ (req[r].id = NoId /\ req[r].body = <<Refused>>)
    BY DEF PollStep, ResultInv, ReqOK
  <2>3. QED
    BY <1>1, <1>2, <2>1, <2>2, RefusalRefines DEF PollStep, PollRefuse
<1>3. CASE PollComplete(r) \/ PollWait(r)
  <2>1. \A q \in Requests : req'[q].id = req[q].id /\ req'[q].body = req[q].body
    <3>1. CASE PollComplete(r)
      BY <1>1, <3>1 DEF PollComplete, TypeOK, RequestRecord
    <3>2. CASE PollWait(r)
      BY <1>1, <3>2 DEF PollWait, TypeOK, RequestRecord
    <3>3. QED
      BY <1>3, <3>1, <3>2
  <2>2. QED
    BY <1>1, <2>1, QuietStep DEF PollStep
<1>4. QED
  BY <1>2, <1>3 DEF PollStep

LEMMA ConvertRefines ==
    ASSUME ResultInv, TypeOK', KeepsDone, NEW r \in Requests,
           Receive(r) \/ ConvertPrivately(r) \/ ConvertRead(r) \/ ConvertAppend(r)
    PROVE  UNCHANGED Service!vars
<1>1. TypeOK
  BY DEF ResultInv, Typed
<1>2. stepStatus' = stepStatus
  BY DEF Receive, ConvertPrivately, ConvertRead, ConvertAppend
<1>3. \A q \in Requests : req'[q].id = req[q].id /\ req'[q].body = req[q].body
  <2>1. CASE Receive(r)
    BY <1>1, <2>1 DEF Receive, TypeOK, RequestRecord
  <2>2. CASE ConvertPrivately(r)
    BY <1>1, <2>2 DEF ConvertPrivately, TypeOK, RequestRecord
  <2>3. CASE ConvertRead(r)
    BY <1>1, <2>3 DEF ConvertRead, TypeOK, RequestRecord
  <2>4. CASE ConvertAppend(r)
    BY <1>1, <2>4 DEF ConvertAppend, TypeOK, RequestRecord
  <2>5. QED
    BY <2>1, <2>2, <2>3, <2>4
<1>4. QED
  BY <1>1, <1>2, <1>3, QuietStep

LEMMA RespondRefines ==
    ASSUME ResultInv, Typed', NEW r \in Requests, Respond(r)
    PROVE  Service!Next
<1>1. KeepsDone /\ TypeOK /\ TypeOK'
  BY ResultRespond DEF ResultInv, Typed
<1>2. PICK resp \in Response :
        req'[r].body = Written(r, resp) /\ Verdict(resp) = VerdictOn(KeyOf(r))
  BY ResultRespond
<1>3. /\ KeyOf(r) \in Key /\ Done(KeyOf(r)) /\ req[r].id \in StepIds /\ req[r].body = <<>>
  BY HoldsStatus DEF Respond
<1>4. req'[r].id = req[r].id /\ \A q \in Requests \ {r} : req'[q] = req[q]
  BY <1>1 DEF Respond, TypeOK, RequestRecord
<1>5. PhaseMap' = PhaseMap /\ ResultMap' = ResultMap
  BY <1>1, ShownKept DEF Respond
<1>6. AskedMap' = AskedMap /\ AskedMap[r] = KeyOf(r)
  BY <1>3, <1>4, AskedKept, AskedIs
<1>7. PhaseMap[KeyOf(r)] = "complete" /\ ResultMap[KeyOf(r)] = VerdictOn(KeyOf(r))
  BY <1>1, <1>3, ShownOf DEF Done
<1>8. ReplyMap[r] = <<>>
  <2>1. RepliesTo(<<>>) = <<>>
    BY DEF RepliesTo
  <2>2. QED
    BY <1>3, <2>1 DEF ReplyMap, RepliesTo
<1>9. ReplyMap' = [ReplyMap EXCEPT ![r] = <<ResultMap[KeyOf(r)]>>]
  <2>1. resp # Refused
    BY NamesAssumption
  <2>2. ReplyMap' = [ReplyMap EXCEPT ![r] = Append(ReplyMap[r], Verdict(resp))]
    BY <1>1, <1>2, <1>4, <2>1, ReplyAdded
  <2>3. Append(<<>>, Verdict(resp)) = <<Verdict(resp)>>
    OBVIOUS
  <2>4. QED
    BY <1>2, <1>7, <1>8, <2>2, <2>3
<1>10. QED
  BY <1>3, <1>5, <1>6, <1>7, <1>8, <1>9, ServiceReplies

LEMMA FinishRefines ==
    ASSUME ResultInv, Typed', NEW k \in Key, NEW e \in Endings, Finish(k, e)
    PROVE  Service!Next
<1> DEFINE res == VerdictOf(e.outcome.state, e.outcome.err.kind, e.outcome.err.msgs)
<1>1. /\ KeepsDone /\ TypeOK /\ TypeOK'
      /\ Running(k) /\ Done(k)' /\ VerdictOn(k)' = res
  BY ResultFinish DEF ResultInv, Typed
<1>2. /\ \A j \in Key \ {k} : stepStatus'[j] = stepStatus[j] /\ step'[j] = step[j]
      /\ req' = req
  BY <1>1 DEF Finish, TypeOK
<1>3. res \in Verdicts
  BY DEF Verdicts
<1> HIDE DEF res
<1>4. PhaseMap[k] = "running"
  BY <1>1, ShownOf DEF Running
<1>5. PhaseMap'[k] = "complete" /\ ResultMap'[k] = res
  <2>1. Phase(k)' = "complete"
    BY <1>1 DEF Phase, Done
  <2>2. QED
    BY <1>1, <2>1 DEF PhaseMap, ResultMap, VerdictOn
<1>6. \A j \in Key \ {k} : PhaseMap'[j] = PhaseMap[j] /\ ResultMap'[j] = ResultMap[j]
  BY <1>2 DEF PhaseMap, ResultMap, Phase
<1>7. /\ PhaseMap' = [PhaseMap EXCEPT ![k] = "complete"]
      /\ ResultMap' = [ResultMap EXCEPT ![k] = res]
  BY <1>5, <1>6 DEF PhaseMap, ResultMap
<1>8. AskedMap' = AskedMap /\ ReplyMap' = ReplyMap
  BY <1>2, AskedKept, RepliesKept
<1>9. QED
  BY <1>3, <1>4, <1>7, <1>8, ServiceCompletes

LEMMA NextRefines == ResultInv /\ [Next]_vars => Service!Next \/ UNCHANGED Service!vars
<1> SUFFICES ASSUME ResultInv, [Next]_vars
             PROVE  Service!Next \/ UNCHANGED Service!vars
  OBVIOUS
<1>1. TypeOK /\ Typed' /\ TypeOK' /\ KeepsDone
  BY ResultNext, TypedNext DEF ResultInv, Typed
<1>2. ASSUME NEW r \in Requests, NEW id \in StepIds \cup {NoId}, Arrive(r, id)
      PROVE  Service!Next
  BY <1>1, <1>2, ArriveRefines
<1>3. ASSUME NEW r \in Requests, Handle(r)
      PROVE  Service!Next \/ UNCHANGED Service!vars
  BY <1>1, <1>3, StartRefines, PollRefines, ConvertRefines, RespondRefines DEF Handle
<1>4. ASSUME NEW k \in Key, NEW e \in Endings, Finish(k, e)
      PROVE  Service!Next
  BY <1>1, <1>4, FinishRefines
<1>5. ASSUME NEW k \in Key, Notify(k)
      PROVE  UNCHANGED Service!vars
  BY <1>1, <1>5, ResultNotify, QuietStep DEF Notify
<1>6. CASE UNCHANGED vars
  BY <1>1, <1>6, QuietStep DEF vars
<1>7. QED
  BY <1>2, <1>3, <1>4, <1>5, <1>6 DEF Next

(* However its requests, its step goroutines and the conversions of a shared *)
(* status interleave, the executor runs a step at most once, gives it one    *)
(* result, and answers every request with that result after the step is      *)
(* done, or refuses it because it knows no such step                         *)
(* (step_executor.go:51-128, 304-350; handler/step.go:35-95).                *)
THEOREM ImplementsService == Spec => ServiceSpec
<1>1. Init => Service!Init
  BY ServiceInit
<1>2. ResultInv /\ [Next]_vars => [Service!Next]_(Service!vars)
  BY NextRefines
<1>3. QED
  BY <1>1, <1>2, ResultsInvariant, PTL DEF Spec, ServiceSpec, Service!Spec
=============================================================================
