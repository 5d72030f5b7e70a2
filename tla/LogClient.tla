------------------------------ MODULE LogClient ------------------------------
(***************************************************************************)
(* The client of the log service (logstream/remote/http.go) as the writer  *)
(* of one log calls it: the stream is opened; when the step has ended, the *)
(* log is uploaded, through a link the service grants or through the       *)
(* service itself, and the stream is closed.  A call is a number of HTTP   *)
(* attempts, and retry judges each of them.  (Write, one attempt that is   *)
(* not retried, is FlushSend of LiveLog.)                                  *)
(*                                                                         *)
(* The body of an upload is one reader for all its attempts: an attempt    *)
(* takes what it sends out of it, and the next one sends what is left.     *)
(*                                                                         *)
(* Abstraction: the body is a sequence of pieces; a status is a class; the *)
(* context of the calls is context.Background(), which never ends.  The    *)
(* service and the network are external: an attempt may break at any piece *)
(* of the body, before or after the service acted on it.                   *)
(***************************************************************************)
EXTENDS Naturals, SequencesExt

CONSTANTS Size,     \* the pieces of the body
          Patience  \* bound: the attempts that fit into the time of a limited backoff

ASSUME ClientAssumption == Size \in Nat /\ Patience \in Nat \ {0}

Body  == [i \in 1..Size |-> i]
NoLog == <<0>>  \* the blob before any upload

VARIABLES
    indirect,  \* c.IndirectUpload
    call,      \* the call under way: op, at, body (the reader), tries, res and err of the attempt
    result,    \* what Open and Upload returned
    service    \* the stream, whether a link was granted, the blob, and the acknowledged uploads

vars == <<indirect, call, result, service>>

Init ==
    /\ indirect \in BOOLEAN
    /\ call = [op |-> "open", at |-> "send", body |-> Body, tries |-> 1,
               res |-> "none", err |-> FALSE]
    /\ result = [open |-> "pending", upload |-> "pending"]
    /\ service = [stream |-> "none", link |-> FALSE, blob |-> NoLog, acks |-> 0]

-----------------------------------------------------------------------------
(* An attempt.  No answer, or an answer whose status is at most 299, at most *)
(* 499, or above.                                                            *)

Answer == {"none", "ok", "refused", "down"}

Attempt(op, res, err) ==
    /\ call.op = op /\ call.at = "send"
    /\ call' = [call EXCEPT !.at = "judge", !.res = res, !.err = err]
    /\ UNCHANGED <<indirect, result>>

\* Mutant: an error is what has no answer, as in open.
DoLenient(op, res, unreadable) ==
    /\ unreadable => res = "ok"
    /\ Attempt(op, res, res = "none" \/ unreadable)

(* do: the request is encoded anew for each attempt, and any status above    *)
(* 299 is an error, as is an answer that cannot be read.                     *)
Do(op, res, unreadable) ==
    /\ unreadable => res = "ok"
    /\ Attempt(op, res, res # "ok" \/ unreadable)

\* The service may have done what it was asked though the answer does not say so.
OpenStream(res, unreadable, acted) ==
    /\ Do("open", res, unreadable)
    /\ res = "ok" => acted
    /\ service' = [service EXCEPT !.stream = IF acted THEN "open" ELSE @]

\* An answer without content (204) is no error, and leaves the link empty.
RequestLink(res, unreadable, granted) ==
    /\ Do("link", res, unreadable)
    /\ granted => res = "ok" /\ ~unreadable
    /\ service' = [service EXCEPT !.link = granted]

CloseStream(res, unreadable, acted) ==
    /\ Do("close", res, unreadable)
    /\ service' = [service EXCEPT !.stream = IF acted THEN "closed" ELSE @]

\* Mutant: the reader is left with what was sent.
Sent(n) == SubSeq(call.body, 1, n)

\* What an attempt that sent n pieces leaves in the reader.
Unsent(n) == SubSeq(call.body, n + 1, Len(call.body))

(* open: the request takes its body from the reader, and only an attempt     *)
(* without an answer is an error.  n pieces are sent; the service stores     *)
(* what it was sent when that was all there was.  Without a link no request  *)
(* can be made.                                                              *)
Send(op, res, n, acted) ==
    /\ op = "put" /\ ~service.link => res = "none" /\ n = 0 /\ ~acted
    /\ res = "ok" => acted
    /\ acted => n = Len(call.body) /\ res # "refused"
    /\ call.op = op /\ call.at = "send"
    /\ call' = [call EXCEPT !.at = "judge", !.res = res, !.err = (res = "none"),
                            !.body = Unsent(n)]
    /\ service' = [service EXCEPT !.blob = IF acted THEN call.body ELSE @,
                                  !.acks = IF res = "ok" THEN @ + 1 ELSE @]
    /\ UNCHANGED <<indirect, result>>

Attempts ==
    \/ \E res \in Answer, unreadable, acted \in BOOLEAN :
          \/ OpenStream(res, unreadable, acted)
          \/ RequestLink(res, unreadable, acted)
          \/ CloseStream(res, unreadable, acted)
    \/ \E op \in {"put", "post"}, res \in Answer, acted \in BOOLEAN :
          \E n \in 0..Len(call.body) : Send(op, res, n, acted)

-----------------------------------------------------------------------------
(* retry.  A status above 499, or no answer, is tried again until the time   *)
(* of the backoff is up: 10 seconds for the stream, 60 for a link and for a  *)
(* direct upload, without a limit for an indirect one.  What is returned in  *)
(* the end is the error of the last attempt.                                 *)

\* Mutant: only a status of 300 to 499 is final.
RetriedUnlessRefused == call.op # "close" /\ call.res # "refused"

Retried == call.op # "close" /\ call.res \in {"none", "down"}

Limited == call.op # "post"

Reply == IF call.err THEN "error" ELSE "nil"

Call(op) == call' = [call EXCEPT !.op = op, !.at = "send", !.tries = 1]

Again ==
    /\ call.at = "judge" /\ Retried
    /\ Limited => call.tries < Patience
    /\ call' = [call EXCEPT !.at = "send", !.tries = IF Limited THEN @ + 1 ELSE @]
    /\ UNCHANGED <<indirect, result, service>>

\* Mutant: a status above 499 is tried again whatever the time.
ReturnsUnlessDown == call.at = "judge" /\ (call.res = "down" => ~Retried)

\* The call returns: it is not retried, or its time is up.
Returns == call.at = "judge" /\ (Retried => Limited)

OpenReturns ==
    /\ Returns /\ call.op = "open"
    /\ result' = [result EXCEPT !.open = Reply]
    /\ Call(IF indirect THEN "post" ELSE "link")
    /\ UNCHANGED <<indirect, service>>

\* Mutant: a link that was not granted is noted, and the upload goes on.
LinkForgiven ==
    /\ Returns /\ call.op = "link"
    /\ result' = [result EXCEPT !.upload = IF call.err THEN "error" ELSE @]
    /\ Call("put")
    /\ UNCHANGED <<indirect, service>>

\* Without a link there is no upload; Close goes on with the stream.
LinkReturns ==
    /\ Returns /\ call.op = "link"
    /\ result' = [result EXCEPT !.upload = IF call.err THEN "error" ELSE @]
    /\ Call(IF call.err THEN "close" ELSE "put")
    /\ UNCHANGED <<indirect, service>>

UploadReturns ==
    /\ Returns /\ call.op \in {"put", "post"}
    /\ result' = [result EXCEPT !.upload = Reply]
    /\ Call("close")
    /\ UNCHANGED <<indirect, service>>

CloseReturns ==
    /\ Returns /\ call.op = "close"
    /\ call' = [call EXCEPT !.op = "none", !.at = "done"]
    /\ UNCHANGED <<indirect, result, service>>

Judge == Again \/ OpenReturns \/ LinkReturns \/ UploadReturns \/ CloseReturns

Next == Attempts \/ Judge

Spec == Init /\ [][Next]_vars

FairSpec == Spec /\ WF_vars(Attempts) /\ WF_vars(Judge)

-----------------------------------------------------------------------------
\* Each piece of state keeps its type, and an upload under way has not returned.
TypeOK ==
    /\ indirect \in BOOLEAN
    /\ call \in [op : {"open", "link", "put", "post", "close", "none"},
                 at : {"send", "judge", "done"}, body : Seq(1..Size), tries : 1..Patience,
                 res : Answer, err : BOOLEAN]
    /\ result \in [open : {"pending", "nil", "error"}, upload : {"pending", "nil", "error"}]
    /\ service \in [stream : {"none", "open", "closed"}, link : BOOLEAN,
                    blob : Seq(0..Size), acks : Nat]
    /\ call.op \in {"link", "put", "post"} => result.upload = "pending"

(* A stream that Open reports open was opened, whichever attempts failed     *)
(* before: an error of the last attempt is not lost (http.go:145-151,        *)
(* 168-284).                                                                 *)
OpenIsTold == result.open = "nil" => service.stream # "none"

(* What is stored is the end of the log, however often the upload broke off: *)
(* nothing is stored twice or out of place (http.go:76-125, 287-294).        *)
StoredIsTail == service.blob # NoLog => IsSuffix(service.blob, Body)

(* An upload the service acknowledged is not repeated, and Upload does not   *)
(* report it as failed (http.go:168-210).                                    *)
AcknowledgedOnce == service.acks <= 1 /\ (result.upload = "error" => service.acks = 0)

(* If every attempt ends, an upload through a link ends too, and the writer's*)
(* Close with it (http.go:129-143, 184-206).                                 *)
DirectUploadEnds == ~indirect ~> call.at = "done"

-----------------------------------------------------------------------------
(* livelog.go:172-173: Close "uploads the full contents to the server", by   *)
(* an Upload that returned no error.                                         *)
DeliveredOnSuccess == result.upload = "nil" => service.blob = Body
=============================================================================
