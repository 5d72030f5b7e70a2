----------------------------- MODULE MCStepRun -----------------------------
(***************************************************************************)
(* Instances of StepRun for TLC: the requests and the programs.            *)
(***************************************************************************)
EXTENDS StepRun

Base == [kind |-> "Run", drone |-> FALSE, timeout |-> FALSE, host |-> TRUE, shell |-> "sh",
         command |-> <<<<20>>>>, envs |-> TRUE, dotenv |-> FALSE, outputs |-> <<>>,
         outputVars |-> <<>>, testSummary |-> FALSE, junit |-> FALSE, secrets |-> <<>>]

Outputs    == <<[Key |-> "k", Value |-> "V", Type |-> "STRING"],
                [Key |-> "s", Value |-> "S", Type |-> "SECRET"]>>
OutputVars == <<"V">>

(* Steps without output: every kind, with and without dotenv files,         *)
(* declaring nothing, OutputVars or Outputs, with and without a summary.    *)
Declaring == {<<<<>>, <<>>>>, <<<<>>, OutputVars>>, <<Outputs, <<>>>>}

Quiet ==
    {[Base EXCEPT !.kind = kind, !.dotenv = dotenv, !.outputs = decl[1], !.outputVars = decl[2],
                  !.testSummary = summary, !.junit = TRUE] :
        kind \in {"Run", "RunTest", "RunTestsV2"}, dotenv \in BOOLEAN, decl \in Declaring,
        summary \in BOOLEAN}

\* A container, a summary without reports, a python shell, and requests that cannot be run.
Odd ==
    {[Base EXCEPT !.host = FALSE, !.outputs = Outputs],
     [Base EXCEPT !.testSummary = TRUE, !.outputVars = OutputVars],
     [Base EXCEPT !.shell = "python3", !.outputs = Outputs],
     [Base EXCEPT !.shell = "none", !.outputVars = OutputVars],
     [Base EXCEPT !.shell = "none", !.outputVars = OutputVars, !.drone = TRUE],
     [Base EXCEPT !.shell = "none"],
     [Base EXCEPT !.command = <<>>],
     [Base EXCEPT !.command = <<>>, !.outputs = Outputs],
     [Base EXCEPT !.command = <<>>, !.kind = "RunTestsV2"],
     [Base EXCEPT !.envs = FALSE]}

(* Steps with output: a drone step, whose log is followed, and masked ones. *)
(* The secret has two lines, one with a blank before it, and a line of one  *)
(* byte; both parts are in the output, one of them also in the command.     *)
Secret == <<20, 21, NewLine, Space, 21, 22, NewLine, 23>>

Loud ==
    {[Base EXCEPT !.host = FALSE, !.drone = TRUE],
     [Base EXCEPT !.drone = TRUE, !.timeout = TRUE],
     [Base EXCEPT !.host = FALSE, !.secrets = <<Secret>>, !.command = <<<<19, 20, 21>>>>],
     [Base EXCEPT !.secrets = <<Secret>>]}

MCRequests == Quiet \cup Odd \cup Loud

Silent == [own |-> <<>>, secretLines |-> <<>>, artifact |-> <<>>,
           env |-> ("V" :> <<"a", "=", "b">>) @@ ("S" :> <<"a", " ", "b">>),
           private |-> FALSE, chunks |-> <<>>,
           ends |-> [code : ExitCodes, oom : BOOLEAN, reached : BOOLEAN]]

\* Programs with output are followed for it, and end in one way.
Talker == [Silent EXCEPT !.ends = {[code |-> 0, oom |-> FALSE, reached |-> TRUE]}]

Line(req, value) == <<"k", Delimiter(req.dotenv)>> \o value

\* Only a request with dotenv files tells the step where to put its secrets.
Exports(req) == IF req.dotenv /\ req.kind # "RunTest" THEN <<<<"t", "=", " ", "x">>>> ELSE <<>>

\* A RunTest is not told where its output file is.
Owns(req, lines) == IF req.kind = "RunTest" THEN <<>> ELSE lines

QuietPrograms(req) ==
    {[Silent EXCEPT !.own = Owns(req, <<Line(req, <<"old">>), <<"junk">>>>),
                    !.secretLines = Exports(req), !.artifact = <<<<"link">>>>],
     [Silent EXCEPT !.own = Owns(req, <<<<Long>>>>), !.env = "V" :> <<"a", Break, "b">>],
     [Silent EXCEPT !.secretLines = Exports(req), !.private = TRUE]}

(* Three frames, longer than the buffer, empty, and with half of a secret;  *)
(* and one of no stream behind a good one.  For a drone step, whose log     *)
(* others follow, one frame.                                                *)
Chunks ==
    {<<[stream |-> 1, data |-> <<20, 21, 22>>], [stream |-> 2, data |-> <<>>],
       [stream |-> 1, data |-> <<20, 21>>]>>,
     <<[stream |-> 2, data |-> <<21, 22>>], [stream |-> 3, data |-> <<23>>]>>}

MCPrograms(req, n) ==
    CASE req \in Loud /\ req.drone -> {[Talker EXCEPT !.chunks = <<[stream |-> 2, data |-> <<20>>]>>]}
      [] req \in Loud /\ ~req.drone -> {[Talker EXCEPT !.chunks = c] : c \in Chunks}
      [] req \notin Loud /\ n = 1 -> QuietPrograms(req)
      [] OTHER -> {Silent}
=============================================================================
