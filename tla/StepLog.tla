------------------------------ MODULE StepLog ------------------------------
(***************************************************************************)
(* The log of a drone step and the clients that follow it: StepLog         *)
(* (pipeline/runtime/step_output.go) with StreamOutput, which subscribes a *)
(* client to it (pipeline/runtime/step_executor.go).                       *)
(*                                                                         *)
(* The runner of the step and the copier of its output write under a mutex *)
(* that Write holds while it sends the new bytes to one subscriber after   *)
(* the other, over channels without a buffer.  Each subscriber has a       *)
(* goroutine that waits for the client to leave or for the step to be      *)
(* done, closes the channel and then takes the mutex to unsubscribe.  A    *)
(* send on a closed channel is a panic, which ends the whole runner.       *)
(*                                                                         *)
(* The clients are external: a client whose request is accepted reads      *)
(* until the channel is closed or until it leaves; no handler routes to    *)
(* StreamOutput at this commit.                                            *)
(***************************************************************************)
EXTENDS Integers, SequencesExt

CONSTANTS Subscribers,  \* the requests for the output of the step
          Offsets,      \* the offsets they ask for
          NoOne         \* nobody holds the mutex, nobody is being sent to

LogWriters == {"runner", "copier"}

ASSUME StepLogAssumption ==
    /\ Offsets \subseteq Nat
    /\ NoOne \notin Subscribers \cup LogWriters

VARIABLES
    stepLog,  \* the StepLog: made, full (fullOutput), done, subscribers (the channels in the
              \* map), holder of the mutex, data, pending and to of the Write that holds it,
              \* and panicked
    sub       \* [Subscribers -> pc of the request and its goroutine, offset, got, left]

stepLogVars == <<stepLog, sub>>

StepLogTypeOK ==
    /\ stepLog \in [made : BOOLEAN, full : Seq(Nat), done : BOOLEAN,
                    subscribers : SUBSET Subscribers, holder : LogWriters \cup {NoOne},
                    data : Seq(Nat), pending : SUBSET Subscribers,
                    to : Subscribers \cup {NoOne}, panicked : BOOLEAN]
    /\ sub \in [Subscribers -> [pc : {"looking", "refused", "on", "closed", "off"},
                                offset : Offsets, got : Seq(Nat), left : BOOLEAN]]

StepLogInit ==
    /\ stepLog = [made |-> FALSE, full |-> <<>>, done |-> FALSE, subscribers |-> {},
                  holder |-> NoOne, data |-> <<>>, pending |-> {}, to |-> NoOne,
                  panicked |-> FALSE]
    /\ sub \in [Subscribers -> [pc : {"looking"}, offset : Offsets, got : {<<>>},
                                left : {FALSE}]]

-----------------------------------------------------------------------------
(* NewStepLog, the writers, and the end of the step's context.              *)

NewStepLog == stepLog' = [stepLog EXCEPT !.made = TRUE] /\ UNCHANGED sub

Cancel == stepLog' = [stepLog EXCEPT !.done = TRUE] /\ UNCHANGED sub

\* Write takes the mutex and keeps the bytes; those registered now are owed them.
WriteLock(w, data) ==
    /\ stepLog.holder = NoOne
    /\ stepLog' = [stepLog EXCEPT !.holder = w, !.full = @ \o data, !.data = data,
                     !.pending = stepLog.subscribers]
    /\ UNCHANGED sub

\* The next channel of the map, in any order.
WritePick(w, s) ==
    /\ stepLog.holder = w
    /\ stepLog.to = NoOne
    /\ s \in stepLog.pending
    /\ stepLog' = [stepLog EXCEPT !.to = s, !.pending = @ \ {s}]
    /\ UNCHANGED sub

\* The send, once the client reads.
WriteSend(w) ==
    LET s == stepLog.to IN
    /\ stepLog.holder = w
    /\ s # NoOne
    /\ sub[s].pc = "on"
    /\ ~sub[s].left
    /\ sub' = [sub EXCEPT ![s].got = @ \o stepLog.data]
    /\ stepLog' = [stepLog EXCEPT !.to = NoOne]

\* The send on a channel that is closed.
WritePanic(w) ==
    LET s == stepLog.to IN
    /\ stepLog.holder = w
    /\ s # NoOne
    /\ sub[s].pc = "closed"
    /\ stepLog' = [stepLog EXCEPT !.panicked = TRUE]
    /\ UNCHANGED sub

WriteUnlock(w) ==
    /\ stepLog.holder = w
    /\ stepLog.to = NoOne
    /\ stepLog.pending = {}
    /\ stepLog' = [stepLog EXCEPT !.holder = NoOne, !.data = <<>>]
    /\ UNCHANGED sub

-----------------------------------------------------------------------------
(* StreamOutput.                                                            *)

\* The wait for the log, which looks every 100 ms, gives up after five seconds, or the
\* client leaves first.
LookTimeout(s) ==
    /\ sub[s].pc = "looking"
    /\ ~stepLog.made
    /\ sub' = [sub EXCEPT ![s].pc = "off"]
    /\ UNCHANGED stepLog

\* Mutant: Subscribe copies the output before it takes the mutex to register, so that the
\* bytes of a Write under way are missed.
SubscribeEarly(s) ==
    LET seen == SubSeq(stepLog.full, 1, Len(stepLog.full) - Len(stepLog.data)) IN
    /\ sub[s].pc = "looking"
    /\ stepLog.made
    /\ stepLog' = [stepLog EXCEPT !.subscribers = @ \cup {s}]
    /\ sub' = [sub EXCEPT ![s].pc = IF sub[s].offset > Len(seen) THEN "refused" ELSE "on",
                          ![s].got = SubSeq(seen, sub[s].offset + 1, Len(seen))]

(* Subscribe, under the mutex.  A request for more than there is is refused *)
(* with its channel registered; nobody will ever read or remove it.         *)
Subscribe(s) ==
    /\ sub[s].pc = "looking"
    /\ stepLog.made
    /\ stepLog.holder = NoOne
    /\ stepLog' = [stepLog EXCEPT !.subscribers = @ \cup {s}]
    /\ sub' = [sub EXCEPT ![s].pc = IF sub[s].offset > Len(stepLog.full) THEN "refused" ELSE "on",
                          ![s].got = SubSeq(stepLog.full, sub[s].offset + 1, Len(stepLog.full))]

\* The client goes away and reads no more.
Leave(s) ==
    /\ sub[s].pc = "on"
    /\ ~sub[s].left
    /\ sub' = [sub EXCEPT ![s].left = TRUE]
    /\ UNCHANGED stepLog

\* Mutant: the goroutine waits for the step only.
CloseChannelWhenDone(s) ==
    /\ sub[s].pc = "on"
    /\ stepLog.done
    /\ sub' = [sub EXCEPT ![s].pc = "closed"]
    /\ UNCHANGED stepLog

CloseChannel(s) ==
    /\ sub[s].pc = "on"
    /\ sub[s].left \/ stepLog.done
    /\ sub' = [sub EXCEPT ![s].pc = "closed"]
    /\ UNCHANGED stepLog

Unsubscribe(s) ==
    /\ sub[s].pc = "closed"
    /\ stepLog.holder = NoOne
    /\ sub' = [sub EXCEPT ![s].pc = "off"]
    /\ stepLog' = [stepLog EXCEPT !.subscribers = @ \ {s}]

WriteStep(w) ==
    \/ \E s \in Subscribers : WritePick(w, s)
    \/ WriteSend(w)
    \/ WritePanic(w)

StreamOutput(s) == LookTimeout(s) \/ Subscribe(s) \/ CloseChannel(s) \/ Unsubscribe(s)

-----------------------------------------------------------------------------
(* What a subscriber that was accepted has received is the output from its  *)
(* offset on, without a gap, a repeat or a byte out of place, up to what    *)
(* the Write under way still owes it (step_output.go:36-71: Subscribe must  *)
(* copy and register in one step with respect to Write).                    *)
SubscriberUpToDate ==
    \A s \in Subscribers :
        LET owed == IF s \in stepLog.pending \cup {stepLog.to} THEN Len(stepLog.data) ELSE 0
        IN  sub[s].pc = "on" =>
                sub[s].got = SubSeq(stepLog.full, sub[s].offset + 1, Len(stepLog.full) - owed)

(* A Write returns, or panics, unless it is stuck on a channel that was     *)
(* refused and stays registered (step_output.go:47, step_executor.go:       *)
(* 164-173): a client that leaves does not hang the step.                   *)
WriteReturns ==
    \A w \in LogWriters :
        (stepLog.holder = w) ~>
            (stepLog.holder # w \/ stepLog.panicked
                \/ \E s \in stepLog.subscribers : sub[s].pc = "refused")
=============================================================================
