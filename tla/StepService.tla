----------------------------- MODULE StepService -----------------------------
(***************************************************************************)
(* What a StepExecutor promises, without its lock, its goroutines and its  *)
(* channels: a step runs at most once however many requests start it, it   *)
(* completes at most once, with one result, and every request about it is  *)
(* answered at most once: it is given that result, after the step          *)
(* completed, or is refused because the step is unknown.  A request that   *)
(* names no step is refused, twice at most.                                *)
(***************************************************************************)
EXTENDS Sequences

CONSTANTS Steps,     \* the steps the service knows of
          Requests,  \* the requests it is asked
          Results,   \* the results a step can have
          Unnamed,   \* what a request names that names no step
          None,      \* no step named yet, no result yet
          Refused    \* the reply that refuses a request

VARIABLES phase,    \* [Steps -> {"unknown", "running", "complete"}]
          result,   \* [Steps -> Results \cup {None}]
          asked,    \* [Requests -> Steps \cup {Unnamed, None}]
          replies   \* [Requests -> the sequence of replies written to it]

vars == <<phase, result, asked, replies>>

TypeOK ==
    /\ phase \in [Steps -> {"unknown", "running", "complete"}]
    /\ result \in [Steps -> Results \cup {None}]
    /\ asked \in [Requests -> Steps \cup {Unnamed, None}]
    /\ replies \in [Requests -> Seq(Results \cup {Refused})]

Init ==
    /\ phase = [s \in Steps |-> "unknown"]
    /\ result = [s \in Steps |-> None]
    /\ asked = [r \in Requests |-> None]
    /\ replies = [r \in Requests |-> <<>>]

Ask(r, s) ==
    /\ asked[r] = None
    /\ asked' = [asked EXCEPT ![r] = s]
    /\ UNCHANGED <<phase, result, replies>>

Start(s) ==
    /\ \E r \in Requests : asked[r] = s
    /\ phase[s] = "unknown"
    /\ phase' = [phase EXCEPT ![s] = "running"]
    /\ UNCHANGED <<result, asked, replies>>

Complete(s, res) ==
    /\ phase[s] = "running"
    /\ phase' = [phase EXCEPT ![s] = "complete"]
    /\ result' = [result EXCEPT ![s] = res]
    /\ UNCHANGED <<asked, replies>>

Reply(r, s) ==
    /\ asked[r] = s
    /\ phase[s] = "complete"
    /\ replies[r] = <<>>
    /\ replies' = [replies EXCEPT ![r] = <<result[s]>>]
    /\ UNCHANGED <<phase, result, asked>>

Refuse(r) ==
    /\ \/ asked[r] = Unnamed /\ replies[r] \in {<<>>, <<Refused>>}
       \/ replies[r] = <<>> /\ \E s \in Steps : asked[r] = s /\ phase[s] = "unknown"
    /\ replies' = [replies EXCEPT ![r] = Append(@, Refused)]
    /\ UNCHANGED <<phase, result, asked>>

Next ==
    \/ \E r \in Requests, s \in Steps \cup {Unnamed} : Ask(r, s)
    \/ \E s \in Steps : Start(s)
    \/ \E s \in Steps, res \in Results : Complete(s, res)
    \/ \E r \in Requests, s \in Steps : Reply(r, s)
    \/ \E r \in Requests : Refuse(r)

Spec == Init /\ [][Next]_vars
=============================================================================
