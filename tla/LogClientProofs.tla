--------------------------- MODULE LogClientProofs ---------------------------
(***************************************************************************)
(* Proofs about LogClient, for a body of any number of pieces and any      *)
(* patience.                                                               *)
(***************************************************************************)
EXTENDS LogClient, SequenceLemmas

\* What is left of the body when its first k pieces are gone.
Rest(k) == [i \in 1..(Size - k) |-> i + k]

-----------------------------------------------------------------------------
(* The inductive invariant.  The properties follow an upload through its     *)
(* attempts: what the reader still holds, what the service did, and what the *)
(* client knows of it are only related while the attempt is judged.          *)

\* The reader holds a rest of the body, and what is stored is one.
Leftover ==
    /\ \E k \in 0..Size : call.body = Rest(k)
    /\ service.blob = NoLog \/ \E k \in 0..Size : service.blob = Rest(k)

\* Until Open returns nothing is reported, and an attempt at it that is no error opened the stream.
Opening ==
    call.op = "open" =>
        /\ result.open = "pending"
        /\ call.at = "judge" /\ ~call.err => service.stream # "none"

\* Nothing was acknowledged before the attempt that is judged, nor by it unless it reads a success.
Acknowledging ==
    /\ call.op \in {"open", "link"} => service.acks = 0 /\ result.upload = "pending"
    /\ call.op \in {"put", "post"} =>
          /\ service.acks = IF call.at = "judge" /\ call.res = "ok" THEN 1 ELSE 0
          /\ call.at = "judge" => (call.err <=> call.res = "none")

\* The call is at its end only when there is none.
Calling == (call.at = "done") <=> (call.op = "none")

IInv == TypeOK /\ Leftover /\ Opening /\ Acknowledging /\ Calling /\ OpenIsTold /\ AcknowledgedOnce

-----------------------------------------------------------------------------
LEMMA BodyIsRest == Body = Rest(0)
BY ClientAssumption DEF Body, Rest

LEMMA RestSeq ==
    ASSUME NEW k \in 0..Size
    PROVE  /\ Rest(k) \in Seq(1..Size)
           /\ Len(Rest(k)) = Size - k
           /\ \A i \in 1..(Size - k) : Rest(k)[i] = i + k
<1>1. Size - k \in Nat
  BY ClientAssumption
<1>2. \A i \in 1..(Size - k) : i + k \in 1..Size
  BY ClientAssumption
<1>3. Rest(k) \in [1..(Size - k) -> 1..Size]
  BY <1>2 DEF Rest
<1>4. Rest(k) \in Seq(1..Size) /\ Len(Rest(k)) = Size - k
  BY <1>1, <1>3, FunctionIsSeq
<1>5. QED
  BY <1>4 DEF Rest

\* Taking n pieces out of the reader leaves a rest of the body.
LEMMA RestOfRest ==
    ASSUME NEW k \in 0..Size, NEW n \in 0..(Size - k)
    PROVE  SubSeq(Rest(k), n + 1, Len(Rest(k))) = Rest(k + n)
<1> DEFINE s == SubSeq(Rest(k), n + 1, Len(Rest(k)))
<1>1. Rest(k) \in Seq(1..Size) /\ Len(Rest(k)) = Size - k
  BY RestSeq
<1>2. k + n \in 0..Size /\ Size - (k + n) \in Nat
  BY ClientAssumption
<1>3. Rest(k + n) \in Seq(1..Size) /\ Len(Rest(k + n)) = Size - (k + n)
  BY <1>2, RestSeq
<1>4. s \in Seq(1..Size) /\ Len(s) = Size - (k + n)
  BY <1>1, ClientAssumption
<1>5. ASSUME NEW i \in 1..Len(s) PROVE s[i] = Rest(k + n)[i]
  <2>1. i \in 1..(Size - (k + n)) /\ i + n \in 1..(Size - k)
    BY <1>4, ClientAssumption
  <2>2. s[i] = Rest(k)[i + n]
    BY <1>1, <2>1, ClientAssumption
  <2>3. QED
    BY <2>1, <2>2, ClientAssumption DEF Rest
<1>6. QED
  BY <1>3, <1>4, <1>5, SeqEqual

\* A rest of the body is a suffix of it.
LEMMA RestIsSuffix ==
    ASSUME NEW k \in 0..Size
    PROVE  IsSuffix(Rest(k), Body)
<1>1. Rest(k) \in Seq(1..Size) /\ Len(Rest(k)) = Size - k
  BY RestSeq
<1>2. Rest(0) \in Seq(1..Size) /\ Len(Rest(0)) = Size
  <2>1. 0 \in 0..Size /\ Size - 0 = Size
    BY ClientAssumption
  <2>2. QED
    BY <2>1, RestSeq
<1>3. \A i \in 1..(Size - k) : Rest(k)[(Size - k) - i + 1] = Size - i + 1
  BY ClientAssumption DEF Rest
<1>4. \A i \in 1..(Size - k) : Rest(0)[Size - i + 1] = Size - i + 1
  BY ClientAssumption DEF Rest
<1>5. Len(Rest(k)) <= Len(Rest(0))
  BY <1>1, <1>2, ClientAssumption
<1>6. \A i \in 1..Len(Rest(k)) : Rest(k)[Len(Rest(k)) - i + 1] = Rest(0)[Len(Rest(0)) - i + 1]
  <2> SUFFICES ASSUME NEW i \in 1..Len(Rest(k))
               PROVE  Rest(k)[Len(Rest(k)) - i + 1] = Rest(0)[Len(Rest(0)) - i + 1]
    OBVIOUS
  <2>1. i \in 1..(Size - k)
    BY <1>1
  <2>2. Rest(k)[Len(Rest(k)) - i + 1] = Size - i + 1
    BY <1>1, <1>3, <2>1
  <2>3. Rest(0)[Len(Rest(0)) - i + 1] = Size - i + 1
    BY <1>2, <1>4, <2>1
  <2>4. QED
    BY <2>2, <2>3
<1>7. IsSuffix(Rest(k), Rest(0))
  BY <1>1, <1>2, <1>5, <1>6, SuffixByElements
<1>8. QED
  BY <1>7, BodyIsRest

-----------------------------------------------------------------------------
LEMMA InitInv == Init => IInv
<1> SUFFICES ASSUME Init PROVE IInv
  OBVIOUS
<1>1. 0 \in 0..Size /\ 1 \in 1..Patience
  BY ClientAssumption
<1>2. Body \in Seq(1..Size) /\ Body = Rest(0)
  BY <1>1, BodyIsRest, RestSeq
<1>3. NoLog \in Seq(0..Size)
  <2>1. 0 \in 0..Size
    BY <1>1
  <2>2. QED
    BY <2>1 DEF NoLog
<1>4. TypeOK
  BY <1>1, <1>2, <1>3 DEF Init, TypeOK, Answer
<1>5. Leftover
  BY <1>1, <1>2 DEF Init, Leftover
<1>6. Opening /\ Acknowledging /\ Calling /\ OpenIsTold /\ AcknowledgedOnce
  BY DEF Init, Opening, Acknowledging, Calling, OpenIsTold, AcknowledgedOnce
<1>7. QED
  BY <1>4, <1>5, <1>6 DEF IInv

\* The attempts at the calls without a body.
LEMMA OpenStreamInv ==
    ASSUME IInv, NEW res \in Answer, NEW unreadable \in BOOLEAN, NEW acted \in BOOLEAN,
           OpenStream(res, unreadable, acted)
    PROVE  IInv'
<1> USE DEF IInv, OpenStream, Do, Attempt
<1>1. TypeOK'
  BY DEF TypeOK
<1>2. Leftover'
  BY DEF TypeOK, Leftover
<1>3. Opening' /\ Acknowledging' /\ Calling' /\ OpenIsTold' /\ AcknowledgedOnce'
  BY DEF TypeOK, Opening, Acknowledging, Calling, OpenIsTold, AcknowledgedOnce
<1>4. QED
  BY <1>1, <1>2, <1>3

LEMMA RequestLinkInv ==
    ASSUME IInv, NEW res \in Answer, NEW unreadable \in BOOLEAN, NEW granted \in BOOLEAN,
           RequestLink(res, unreadable, granted)
    PROVE  IInv'
<1> USE DEF IInv, RequestLink, Do, Attempt
<1>1. TypeOK'
  BY DEF TypeOK
<1>2. Leftover'
  BY DEF TypeOK, Leftover
<1>3. Opening' /\ Acknowledging' /\ Calling' /\ OpenIsTold' /\ AcknowledgedOnce'
  BY DEF TypeOK, Opening, Acknowledging, Calling, OpenIsTold, AcknowledgedOnce
<1>4. QED
  BY <1>1, <1>2, <1>3

LEMMA CloseStreamInv ==
    ASSUME IInv, NEW res \in Answer, NEW unreadable \in BOOLEAN, NEW acted \in BOOLEAN,
           CloseStream(res, unreadable, acted)
    PROVE  IInv'
<1> USE DEF IInv, CloseStream, Do, Attempt
<1>1. TypeOK'
  BY DEF TypeOK
<1>2. Leftover'
  BY DEF TypeOK, Leftover
<1>3. Opening' /\ Acknowledging' /\ Calling' /\ OpenIsTold' /\ AcknowledgedOnce'
  BY DEF TypeOK, Opening, Acknowledging, Calling, OpenIsTold, AcknowledgedOnce
<1>4. QED
  BY <1>1, <1>2, <1>3

\* An attempt at an upload.
LEMMA SendInv ==
    ASSUME IInv, NEW op \in {"put", "post"}, NEW res \in Answer, NEW acted \in BOOLEAN,
           NEW n \in 0..Len(call.body), Send(op, res, n, acted)
    PROVE  IInv'
<1>1. PICK k \in 0..Size : call.body = Rest(k)
  BY DEF IInv, Leftover
<1>2. Len(call.body) = Size - k /\ k + n \in 0..Size
  BY <1>1, RestSeq, ClientAssumption
<1>3. Unsent(n) = Rest(k + n)
  BY <1>1, <1>2, RestOfRest DEF Unsent
<1>4. Unsent(n) \in Seq(1..Size)
  BY <1>2, <1>3, RestSeq
<1>5. \A s \in Seq(1..Size) : s \in Seq(0..Size)
  BY ClientAssumption, SeqMonotonic
<1>6. TypeOK'
  <2>1. call' \in [op : {"open", "link", "put", "post", "close", "none"},
                   at : {"send", "judge", "done"}, body : Seq(1..Size), tries : 1..Patience,
                   res : Answer, err : BOOLEAN]
    BY <1>4 DEF IInv, TypeOK, Send
  <2>2. call.body \in Seq(0..Size) /\ service.acks + 1 \in Nat
    BY <1>5 DEF IInv, TypeOK
  <2>3. service' \in [stream : {"none", "open", "closed"}, link : BOOLEAN,
                      blob : Seq(0..Size), acks : Nat]
    BY <2>2 DEF IInv, TypeOK, Send
  <2>4. indirect' \in BOOLEAN /\ result' = result /\ call'.op = call.op
    BY DEF IInv, TypeOK, Send
  <2>5. QED
    BY <2>1, <2>3, <2>4 DEF IInv, TypeOK
<1>7. Leftover'
  <2>1. call'.body = Rest(k + n)
    BY <1>3 DEF IInv, TypeOK, Send
  <2>2. service'.blob \in {service.blob, Rest(k)}
    BY <1>1 DEF IInv, TypeOK, Send
  <2>3. QED
    BY <1>2, <2>1, <2>2 DEF IInv, Leftover
<1>8. /\ call'.op = op /\ call'.at = "judge" /\ call'.res = res /\ call'.err = (res = "none")
      /\ service'.acks = IF res = "ok" THEN 1 ELSE 0
      /\ service'.stream = service.stream /\ result' = result
  BY DEF IInv, TypeOK, Send, Acknowledging
<1>9. Opening' /\ Acknowledging' /\ Calling' /\ OpenIsTold' /\ AcknowledgedOnce'
  <2>1. Opening'
    BY <1>8 DEF Opening
  <2>2. Acknowledging'
    <3>1. call'.err <=> call'.res = "none"
      BY <1>8
    <3>2. QED
      BY <1>8, <3>1 DEF Acknowledging
  <2>3. Calling'
    BY <1>8 DEF Calling
  <2>4. OpenIsTold'
    BY <1>8 DEF IInv, OpenIsTold
  <2>5. AcknowledgedOnce'
    BY <1>8 DEF IInv, TypeOK, Send, AcknowledgedOnce
  <2>6. QED
    BY <2>1, <2>2, <2>3, <2>4, <2>5
<1>10. QED
  BY <1>6, <1>7, <1>9 DEF IInv

\* A further attempt is made only when none before it was acknowledged.
LEMMA AgainInv ==
    ASSUME IInv, Again
    PROVE  IInv'
<1> USE DEF IInv, Again, Retried, Limited
<1>1. TypeOK'
  <2>1. (IF Limited THEN call.tries + 1 ELSE call.tries) \in 1..Patience
    BY ClientAssumption DEF TypeOK
  <2>2. call' = [call EXCEPT !.at = "send", !.tries = IF Limited THEN call.tries + 1 ELSE call.tries]
    OBVIOUS
  <2> HIDE DEF Limited
  <2>3. QED
    BY <2>1, <2>2 DEF TypeOK
<1>2. Leftover'
  BY DEF TypeOK, Leftover
<1>3. Opening' /\ Acknowledging' /\ Calling' /\ OpenIsTold' /\ AcknowledgedOnce'
  BY DEF TypeOK, Opening, Acknowledging, Calling, OpenIsTold, AcknowledgedOnce
<1>4. QED
  BY <1>1, <1>2, <1>3

\* A call returns, and the writer makes the next one.
LEMMA ReturnsInv ==
    ASSUME IInv, OpenReturns \/ LinkReturns \/ UploadReturns \/ CloseReturns
    PROVE  IInv'
<1> USE DEF IInv, Returns, Reply, Call
<1>0. 1 \in 1..Patience
  BY ClientAssumption
<1>1. CASE OpenReturns
  <2> USE <1>1 DEF OpenReturns
  <2>1. TypeOK'
    BY <1>0 DEF TypeOK, Acknowledging
  <2>2. Leftover'
    BY DEF TypeOK, Leftover
  <2>3. Opening' /\ Acknowledging' /\ Calling' /\ OpenIsTold' /\ AcknowledgedOnce'
    BY DEF TypeOK, Opening, Acknowledging, Calling, OpenIsTold, AcknowledgedOnce
  <2>4. QED
    BY <2>1, <2>2, <2>3
<1>2. CASE LinkReturns
  <2> USE <1>2 DEF LinkReturns
  <2>1. TypeOK'
    BY <1>0 DEF TypeOK
  <2>2. Leftover'
    BY DEF TypeOK, Leftover
  <2>3. Opening' /\ Acknowledging' /\ Calling' /\ OpenIsTold' /\ AcknowledgedOnce'
    BY DEF TypeOK, Opening, Acknowledging, Calling, OpenIsTold, AcknowledgedOnce
  <2>4. QED
    BY <2>1, <2>2, <2>3
<1>3. CASE UploadReturns
  <2> USE <1>3 DEF UploadReturns
  <2>1. TypeOK'
    BY <1>0 DEF TypeOK
  <2>2. Leftover'
    BY DEF TypeOK, Leftover
  <2>3. Opening' /\ Acknowledging' /\ Calling' /\ OpenIsTold' /\ AcknowledgedOnce'
    BY DEF TypeOK, Opening, Acknowledging, Calling, OpenIsTold, AcknowledgedOnce
  <2>4. QED
    BY <2>1, <2>2, <2>3
<1>4. CASE CloseReturns
  <2> USE <1>4 DEF CloseReturns
  <2>1. TypeOK'
    BY DEF TypeOK
  <2>2. Leftover'
    BY DEF TypeOK, Leftover
  <2>3. Opening' /\ Acknowledging' /\ Calling' /\ OpenIsTold' /\ AcknowledgedOnce'
    BY DEF TypeOK, Opening, Acknowledging, Calling, OpenIsTold, AcknowledgedOnce
  <2>4. QED
    BY <2>1, <2>2, <2>3
<1>5. QED
  BY <1>1, <1>2, <1>3, <1>4

LEMMA NextInv == IInv /\ [Next]_vars => IInv'
<1> SUFFICES ASSUME IInv, [Next]_vars PROVE IInv'
  OBVIOUS
<1>1. CASE Attempts
  BY <1>1, OpenStreamInv, RequestLinkInv, CloseStreamInv, SendInv DEF Attempts
<1>2. CASE Judge
  BY <1>2, AgainInv, ReturnsInv DEF Judge
<1>3. CASE UNCHANGED vars
  BY <1>3 DEF vars, IInv, TypeOK, Leftover, Opening, Acknowledging, Calling, OpenIsTold,
              AcknowledgedOnce
<1>4. QED
  BY <1>1, <1>2, <1>3 DEF Next

THEOREM Invariant == Spec => []IInv
BY InitInv, NextInv, PTL DEF Spec

-----------------------------------------------------------------------------
(* Every reachable state is well typed, and an upload under way has not      *)
(* returned (http.go:76-143).                                                *)
THEOREM TypeCorrect == Spec => []TypeOK
BY Invariant, PTL DEF IInv

(* A stream that Open reports open was opened, whichever attempts failed     *)
(* before it (http.go:145-151, 168-284).                                     *)
THEOREM OpenIsToldAlways == Spec => []OpenIsTold
BY Invariant, PTL DEF IInv

(* What is stored is an end of the log, wherever the attempts before broke   *)
(* off: the reader they share only ever holds one (http.go:76-125, 287-294). *)
THEOREM StoredIsTailAlways == Spec => []StoredIsTail
<1>1. IInv => StoredIsTail
  BY RestIsSuffix DEF IInv, Leftover, StoredIsTail
<1>2. QED
  BY <1>1, Invariant, PTL

(* An acknowledged upload is neither repeated nor reported as failed, for    *)
(* any number of attempts (http.go:168-210).                                 *)
THEOREM AcknowledgedOnceAlways == Spec => []AcknowledgedOnce
BY Invariant, PTL DEF IInv
=============================================================================
