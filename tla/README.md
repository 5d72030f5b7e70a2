# Verification of the Harness Docker runner

TLA+ models, TLC runs and TLAPS proofs for harness-docker-runner: the HTTP service that sets up a
CI stage on a host, runs its steps in Docker containers or as processes, streams and uploads their
logs, and tears the stage down.

Source paths below are relative to the repository. A definition and the lines it stands for are
paired in `PROJECT.json` under `map`; a property's comment names the lines it is about.

## 1. The system

| component | source | state | operations |
|---|---|---|---|
| stages | `executor/executor.go`, `handler/setup.go`, `handler/step.go`, `handler/destroy.go` | one map from stage id to engine, step executor and stage data, under a mutex | `HandleSetup` (add, set up, remove on failure), `HandleStartStep`, `HandleDestroy` |
| Docker engine | `engine/engine.go`, `engine/docker/docker.go` | per stage: the pipeline config and the list of containers, each under a mutex; the daemon's containers, volumes and networks | `Setup`, `Run` (create, start, tail, wait), `Destroy` |
| host engine | `engine/exec/exec.go` | a process | `Run` |
| step executor | `pipeline/runtime/step_executor.go` | per stage: three maps from step id to status, to waiting channels and to output log, under one mutex | `StartStep`, `PollStep`, `StreamOutput`, the goroutine of a step |
| step outcomes | `pipeline/runtime/run.go`, `runtest.go`, `runtestsV2.go`, `common.go`, `convert.go` | none (files of the step) | the command of a step, what it returns, its output variables |
| live log writer | `livelog/livelog.go` | per step: pending lines, history, the unfinished line, counters, closed flag | `Open`, `Write`, `Close`, the flusher `Start` |
| secret masking, stage state | `logstream/replacer.go`, `pipeline/state.go` | the secrets of a stage | `Write`, `AppendSecrets` |
| log service client | `logstream/remote/http.go` | none | `Open`, `Write`, `Close`, `Upload` with retries |
| file store client | `logstream/filestore/filestore.go` | open files under a mutex | the same four |
| step log | `pipeline/runtime/step_output.go` | the whole output, the subscribers | `Write`, `Subscribe`, `Unsubscribe` |
| stream decoding | `internal/docker/stdcopy`, `internal/docker/jsonmessage` | none | demultiplex Docker's log frames, print pull progress |
| container configuration | `engine/docker/convert.go`, `engine/docker/image`, `engine/spec` | none | a step as Docker's configuration |
| server, routes, client, start-up | `server/`, `handler/handler.go`, `cli/`, `setup/`, `config/`, `logger/` | none | listen, route, install |

How they interact. Every HTTP request is a goroutine. `HandleSetup` makes an engine and a step
executor for the stage, puts them in the map and asks the Docker daemon for volumes and a network.
`HandleStartStep` finds the stage, calls `StartStep`, and in the same request calls `PollStep` and
waits. `StartStep` starts one goroutine per step: it opens a live log, runs the step through the
engine, closes the log (flush, upload), records the status under the executor's mutex and sends it
to the channels of the waiting polls. While the step runs, a copier goroutine feeds its output to
the live log, whose flusher goroutine sends lines to the log service every interval.
`HandleDestroy` may come at any time: it kills and removes what the engine has listed.

What is hard here: requests about one step race with each other and with the step's end; one
error object is shared by all answers; the log writer's fields are only partly under its mutex, and
for containers nobody waits for the copier; setup, steps and teardown of a stage interleave
between any two calls to a daemon that may fail at each of them; errors of several stages of a
step must end in one response; retries. `PROJECT.json` lists the hazards one by one, at their
lines, with the properties that cover them or the reason why none does.

What makes each component correct:

- *stages and engine*: a teardown leaves nothing of the stage and takes nothing of another; a stage
  that failed to set up is not found; an exit that is reported is one; nobody waits for a container
  that is gone.
- *step executor*: a step runs once and has one result; every request is answered with it; a
  response tells success from failure.
- *live log*: what is kept is what was written, in order; no line is streamed twice; none is left
  behind; the upload is complete and within the limit.
- *step log*: what a subscriber gets is the output from its offset; a subscriber that goes away
  blocks no one.
- *log service client*: an upload that reports success has delivered the content; retries end.
- *secret masking*: no line of a secret is written.
- *run kinds*: what a step declares is reported, with its value and once; every result is one the
  executor was written for.
- *stream decoding*: the output reaches the log whole and in order; the copier ends.

## 2. The modules

| module | models | how |
|---|---|---|
| `StepOutcome` | `executeStep`, `executeStepDrone`, `convertStatus`, what a run returns | operators: from a run and its surroundings (deadline, failed upload, nudge, detach) to an outcome, and from an outcome to a response |
| `StepExecutor` | `StepExecutor`'s maps, `StartStep`, `PollStep`, the goroutine of a step, the two handlers | a process per request and per step; one action per critical section, one per step outside |
| `StepService` | what a step executor promises | the abstract specification: unknown, running, complete; ask, start, complete, reply, refuse |
| `LiveLog` | `livelog.Writer` | copier, runner and flusher; `Write` is cut at every access to a shared field |
| `StageLifecycle` | the stage map, `Engine.Setup/Destroy`, `Docker.Setup/Run/Destroy`, their handlers | a process per setup, step and destroy request; one action per daemon call or critical section |
| `LogClient` | `remote.HTTPClient`: `Open`, `Upload`, `Close`, `retry`, `do`, `open` | the calls one writer makes, attempt by attempt, and the service they reach or do not |
| `Masking` | `NewReplacer`, its `Write`, `strings.Replacer` | operators on sequences of bytes |
| `StdCopy` | `stdcopy.StdCopy`, `stdWriter.Write`, the copying of `os/exec` | the wire and the copier; one action per read, one per decision |
| `StepLog` | `StepLog`, `StreamOutput` | a mutex, the `Write` that holds it, a process per subscriber; one action per critical section and per send |
| `OutputFile` | `common.go`: the commands that write the output file and the parsers that read it | operators on files of lines of tokens |
| `StepResult` | `run.go`, `runtest.go`, `runtestsV2.go` after the engine has returned | operators: from a request, a return of the engine, the files and the summary of the tests to a result and the files left |
| `StepRun` | the three run kinds, `Engine.Run`, `exec.Run`, `Docker.tail` | composes the five above with `StepOutcome`: runner, copier, subscribers and the step itself |
| `SequenceLemmas` | - | what the proofs need of sequences: which elements an operator keeps, when one is the end of another, `FlattenSeq` piece by piece, induction as well-foundedness |
| `StepExecutorProofs`, `StepExecutorResults`, `StepExecutorRefinement` | - | theorems about `StepExecutor`: types and wake-ups; results and responses; that it implements `StepService` |
| `LiveLogProofs`, `LogClientProofs`, `StageLifecycleProofs`, `StepRunProofs` | - | theorems about the module they are named after; `StepRunProofs` has those of `StdCopy` and `StepLog` too, whose actions `StepRun` composes |
| `MC...` | - | the instances TLC checks |

Correspondence of the state:

- `StepExecutor`: `stepStatus` and `stepWaitCh` are the two maps, for the stage's executor and for
  the server's (`Key`); an absent entry is `None`, an absent list is empty. A channel is named by
  the request that made it and its one slot is `req[r].ch`. `step[k].at` is the goroutine of the
  step, `step[k].channels` its local `channels`, and `step[k].entries` what the error of the status
  points at, which is shared. `req[r].pc` is the handler's place. `step[k].trouble` is a history
  variable: what really went wrong, for the properties only.
- `LiveLog`: `b` is the `Writer`, field by field; `proc[w]` is the frame of a goroutine in `Write`;
  `batch` holds the local `lines` of a `flush`; `stream` is the lines handed to the client's `Write`,
  whose error is only logged, and `uploaded` what its `Upload` was given. The runner is in the run
  until `Return`, then logs what went wrong (`Remark`: lite-engine's reports, the parsers' warnings,
  a line at a time) until it calls `Close` (`Stop`). Two history variables: `step.overtaken`, the
  runner used the writer, by a remark or by `Close`, before the copier had ended (a process never
  does that, since `cmd.Wait` waits for the output, a container may, `docker.go:429`), and
  `step.rest`, `Close` has ended the last line. A character is a token named after its chunk, so a
  lost, repeated or misplaced piece of output is visible.
- `StageLifecycle`: `stages` is the executor's map; `engine[u]` the container list of the stage that
  setup request `u` made and whether it has its pipeline config; `docker` the daemon. A teardown
  reads the config and the list in two steps (`ReadConfig`, `Snapshot`), each under its own mutex.
  A container can be made or started by a call that fails at the client (`DoneUnheard`); the calls
  of a setup for volumes and the network are done or fail, as the client is told.
  `destroy[d].failed` and `.ready` are history variables for `CleanTeardown`.
- `LogClient`: `call` is the call under way: which one, the reader of the body with what is left in
  it, the `res` and `err` of the attempt in `retry`, and the attempts the backoff has let pass.
  `service` is the other side; `acks`, the uploads it answered with success, is a history variable.

- `StepRun`: `run` is the frame of `executeRunStep`, `executeRunTestStep` or
  `executeRunTestsV2Step`, with the request and the program it runs; `files` are the three files of
  the step in `/tmp/engine`; `sink` is what has passed the masking; `results` what each run returned.
  `wire` and `copier` belong to `StdCopy`: the bytes on the connection, the buffer `buf[:nr]` and its
  length. `stepLog` and `sub` belong to `StepLog`: the struct field by field with the frame of the one
  `Write` that holds the mutex, and the goroutine of each subscriber with what its client has got.
  `run.through`, `wire.sent`, `wire.cut`, `copier.handed`, the number of the run on each line of a
  file, and `from` and `kept` of a result are history, for the properties only.

`StepRun` and the others. `StepExecutor` takes from `StepOutcome` the set `RunResult` of what a run
can return; `ResultIsRunResult` checks that the three run kinds return nothing else. `StepRun` takes
the log of a step that is not a drone step as the sequence `sink` of the writes that reach it;
`LiveLog` starts from such writes. `LiveLog` separates runs in which the runner overtakes the copier
from those in which it does not; `ProcessOutputComplete` shows that steps on the host are of the
second sort. `StageLifecycle` has the container's side of `Docker.Run`.

`LiveLog` and `LogClient` meet at the client's interface (`logstream/client.go`): `LiveLog` takes
`Open` to succeed or fail, and `Write`, `Upload` and `Close` to return; whether the lines of a
`Write` arrive is not its concern, since it does not look at the error. `LogClient` says how `Open`,
`Upload` and `Close` come to return what they do, and when they do not.

Abstractions. An error is the sequence of the messages in it. Telemetry, times, names and levels
are carried along by the code untouched and are left out; outputs and artifacts are left out by
`StepExecutor`, through which they pass, and modelled by `StepRun`. There a byte of output is a
number and a token of a file a word or a character the parsers look at; a frame's header is
`HeaderLen` bytes, of which one holds the size. What lite-engine does after a run (reports, savings,
call graphs) is at most one remark it writes to the step's log, and a summary of the tests that is
there or not. The step's program, its shell, `godotenv` and `strings.Replacer` are external. Of
`godotenv` the models have lines of `KEY=value` whose values are trimmed; its quotes (and values of
several lines in them), ` #` comments, `export ` and `$` expansion are left out, so what is said of
the variables in an environment file is said of values that hold none of these. A stage has one volume
and one network; files, host paths and image pulls are calls that may fail; the 30 seconds of a
soft stop are a kill that may fail. The Docker daemon and the log service are external: the
models say what the code relies on (a forced removal takes a running container; a container that
is left holds its volume; `ContainerWait` may return early, which is why `waitRetry` loops).

## 3. The runs

Pass:

- `step_executor`. Three start requests, each for the one step id or the empty id, all
  interleavings, every combination of run result, deadline, failed upload, nudge, detach and drone
  log (exit codes 0 and 1). Three requests are what it takes for one to replace another in the list
  while a third comes after the completion; steps do not interact except through a key of their own,
  so one id is enough.
  `NoLostWakeup`: a listed waiter waits for a running step or its status is on the way.
  `OutcomeReported`: a response carries an error exactly when something failed, whoever converted
  the shared status before. That a deadline which passes while the log is uploaded makes a success a
  timeout is the code's rule and not a violation. `ServiceSpec`: refinement of `StepService`: one
  run, one result, one verdict for all requests, and one answer for each; only a request without a
  name is refused twice, by `StartStep` and by the poll that follows. `ListedWaiterAnswered`: a waiter still listed at completion is answered.
- `live_log`. Two chunks of four shapes (a piece of a line, an end and a start, two lines, a line and an empty one), a
  limit at which the oldest lines are evicted, a stream that opens or not, a copier that ends before
  the runner logs or closes or does not, and chunks of which any may be a remark of the runner. Two
  chunks of two lines fill the history past the limit, and a piece before a line is the carry-over of
  `prev`.
  `NothingDropped`: every line reaches an open stream or is on its way there, whatever is evicted and
  whoever flushes; the exception is the line that `Close` ends itself, which comes after `stop`
  (`livelog.go:175`) and is only uploaded. `HistoryIsOutput`, `SentOnce`, `UploadComplete`, `PendingIsFlushed`, `FlusherStops`.
  `KeptWithinDrift`: what `live_log_limit` shows to exceed the limit does so by the `Overhead` of each
  evicted line and by nothing else: room is made for the line that comes, each line is charged once
  and none is lost from the account. `Overhead` is one constant for what JSON adds to a message; in
  the code digits, times and escapes make it vary, so this counts the drift in lines, not in bytes.
  `StreamSortsToOutput`: batches may reach the log service in the other order, and the numbers of the
  lines still put them into the order of the output.
  All but the type invariant and `FlusherStops` are stated of runs in which the runner did not
  overtake the copier, by a remark or by `Close`, which holds of every process and of any container
  whose log was read to its end in time. In the others the runner is in `Write`, or uploads, while the
  copier is half-way through a chunk, and both write `prev`, `size` and `num`, which have no lock; the
  model has those runs, and the code promises nothing of their lines.
- `stage_lifecycle`. Two setups (one with Docker and a network of its own, one without either) and
  two destroys of one id, and a step; every daemon call may fail, and the creation or the start of a
  container may be done although it failed at the client. One id is where stages meet:
  different ids share nothing.
  `CleanTeardown`: a teardown whose removals succeeded, that began after the setup was complete and
  knew every container, leaves no container, volume or network. `OnlyOwnContainers`: a step's
  container is removed by a teardown of its own stage only. `FailedSetupForgotten` is about the map
  alone: the volumes and the network of a failed setup stay, as they do in the code.
  `ExitReportedIsExit`, `DestroyedStepEnds`.
- `log_client`. A body of two pieces and three attempts to a backoff: an attempt can break off before,
  between and after the pieces, the service can act on a request whose answer is lost, and there is
  an attempt after the first retry. Direct and indirect uploads.
  `OpenIsTold`: an open that is reported happened. `StoredIsTail`: what is stored is the end of the
  log, however the attempts broke off. `AcknowledgedOnce`: an acknowledged upload is not repeated and
  not reported as failed. `DirectUploadEnds`.

- `step_run`. One step and 50 requests: each run kind with and without dotenv files, declaring nothing,
  `OutputVars` or `Outputs`, with and without a summary (the quiet ones, run twice with programs that
  leave old values, junk, an overlong line or unreadable files behind); requests that are odd or
  cannot be run; and the ones with output, masked or of a drone step with two followers, one of whom
  may ask for more than there is. The run of a process can also end without a state, when `cmd.Wait`
  fails for another reason than the exit code (`exec.go:43`). Remarks of the runner follow only a
  program with output that gave a state; `live_log` has what is logged after any run.
  `OutputIsCopied`: what the copier hands on is a prefix of what was sent, and all of it when the
  connection lost nothing, however the reads cut the frames. `ProcessOutputComplete`: a process has
  all its output in the log before its run returns. `SecretsMasked`: no line of a secret can be read
  in any write. `SubscriberUpToDate`: a follower has the output from its offset, without a gap or a
  repeat. `ResultIsRunResult`. `DeclaredReported`: a declared variable is reported with the value its
  shell had, whatever an earlier run or the step's own commands wrote, if a line of the file can hold
  it and no later variable may replace it. `ReportedOnce`: no line is
  reported by two runs. `WriteReturns`: a client that leaves does not hang the step. `CopierEnds`: the
  copier does not read into a full buffer. `StreamEnds`: followers are told of the end of the step.
  What the properties except is what the code does and no text of the repository excludes: a send on
  a channel that the goroutine of a leaving client has closed is a panic
  (`step_executor.go:172`); a follower that was refused stays registered and its channel blocks the
  next `Write` for ever (`step_output.go:60`); a summary of the tests takes the place of the outputs
  that were read (`run.go:195`, `runtestsV2.go:207`) and is written into a nil map when the file of a
  RunTest cannot be read (`runtest.go:108`, 139); a request without variables, or a RunTestsV2 without
  a command, ends the runner with a panic (`run.go:48`, `runtestsV2.go:45`); a RunTest leaves its
  output file to the next run.

Violation, each a finding in `PROJECT.json`:

- `step_executor_waiters`: the first of two waiting requests is never answered (swapped branches at
  `step_executor.go:113`).
- `step_executor_poll`: `/poll_step` says "Step has not started" of a running step, because it asks
  the server's executor and not the stage's.
- `step_executor_nudge`: a matched nudge never reaches the response (`step_executor.go:295`).
- `live_log_contents`: an unterminated last line is not uploaded when the stream could not be opened.
- `live_log_limit`: the history outgrows the limit after an eviction (`livelog.go:134`).
- `stage_lifecycle_cleanup`: a container recorded during the teardown is forgotten unremoved, though
  every step of the stage ran to its exit.
- `log_client_delivery`: an upload that was refused, or retried with a drained body, returns no error
  (`remote/http.go:287-294`, 194, 175).

`CHECK_DEADLOCK FALSE` in the configurations: all these systems stop when every request and every
step has ended, and the waiting request of the first finding stops for good.

Bounds: `MaxRuns` is two in `StepRun`, one run to leave files behind and one to find them, and a run with
output or of a drone step is the last, since nothing of it but the files outlives it. Its output is
up to three frames: one longer than the buffer (4 bytes; a header has 2), an empty one, one of no
stream. `MaxWrites` caps the chunks of `LiveLog`, remarks included, and `Patience` the attempts of a limited backoff
(the code limits them by time); the other models are bounded by their sets of
requests. `NudgeWindow` is 10 and `Limit` 5 MB in the code.

Fairness:

- `StepExecutor`: weak fairness of each handler and of each notification. They are goroutines that
  wait for nothing but what their guards say. None for the arrival of requests or the end of a step.
- `LiveLog`: weak fairness of each goroutine in `Write`, of the flusher and of `Close` after `stop`.
  They wait for a timer or for a call of the client that returns. None for the output or the end of
  the step, nor of what the runner does before `Close`. A client whose upload retries for ever (`remote/http.go:119`) is outside this.
- `LogClient`: weak fairness of the attempts and of `retry`. That an attempt ends is an assumption
  about the network, since the default client sets no timeout; `DirectUploadEnds` is about the
  retries on top of it, and nothing is claimed of an indirect upload, which has no limit.
- `StepRun`: weak fairness of the copier, of a `Write` that sends or unlocks, and of the goroutines of
  the subscribers. They wait for the mutex, which is fair in Go to those who wait long, for a client
  or for the connection, and their guards say so. None for the step, the daemon, the runner's own
  calls or the clients, all of which may stop for ever.
- `StageLifecycle`: weak fairness of a run only, whose steps end when the daemon answers; `RunFails`
  and `Exits` are not fair, so the program of a container may run for ever.

## 4. The proofs

The theorems hold for every value of the constants that satisfies the assumptions of the modules.
These say no more than the code does: the special values (`None`, `NoOne`, `NoState`, ids and
stages) are none of the ordinary ones and 0 is an exit code (`NamesAssumption`, `NoStateAssumption`,
`ExitCodesAssumption`, `StageAssumption`, `ClientAssumption`); limits, lengths and bounds are
naturals, and the copier's first buffer has room for a header (`LiveLogAssumption`,
`StdCopyAssumption`, `StepLogAssumption`); requests and programs have the fields and types that
`Request` and `IsProgram` name (`StepRunAssumption`). Each invariant was checked by TLC on the
instance of the run before it was proved. All proofs follow one plan: the initial state, a lemma
per action (with one step per conjunct the action can disturb), `Next`, and the temporal step.

### StepExecutor

`StepExecutorProofs`:

- `TypeCorrect`: `Spec => []TypeOK`. `TypeOK` is not inductive: a notification stores
  `stepStatus[k]` in a channel, which is typed only if the status exists while there are channels
  to serve. The invariant `Typed` adds what is missing: a request past its arrival has an id
  (`Asked`), one that waits or goes on has a status behind it (`PolledKnown`), and one that converts
  has received one (`GotStatus`).
- `WakeupNeverLost`: `Spec => []NoLostWakeup`. `WakeInv` is `Typed`, `NoLostWakeup` and `DueKnown`
  (channels are being served only of a step that has a status). The steps that matter: `PollWait`
  enlists a request only of a running step; `Finish` takes the whole list in the step in which the
  status stops being "Running"; `Notify` moves a request from the list to its channel.

`StepExecutorResults`: `OutcomeReportedAlways`. The error of a status is one object that every
answer appends to, so the property is about what can be in it by then. `ResultInv` says of every
step that its status is the one of its outcome, and of the shared entries that they are those the
run left, followed only by the complaint that any converter would add; and of every request past
its poll that what it got is that status. A response made from it therefore tells success from
failure whoever came before.

`StepExecutorRefinement`: `ImplementsService`, `Spec => ServiceSpec`. The mapping is the one of the
run. The initial states map to initial states, and there is a lemma per action: arrivals are `Ask`,
the start of a step is `Start`, `Finish` is `Complete`, an answer is `Reply` or `Refuse`, everything
else (polls, notifications, the steps of a conversion) leaves the service alone. That a reply is the
service's needs `ResultInv`, which is why it is proved first; that an answer is the first, or the
second refusal of a request without a name, is a conjunct of it (`ReqOK`).

### LiveLog

`LiveLogProofs`: `TypeCorrect`, `HistoryIsOutputAlways`, `SentOnceAlways`, `NothingDroppedAlways`,
`StreamSortsToOutputAlways`, `UploadCompleteAlways`, all from one invariant, and
`KeptWithinDriftAlways`. `Write` is cut at every
access, so between two of its steps none of the properties holds as it stands: the history lacks the
line that is being added, `prev` and the rest of the chunk overlap, the counter is ahead. `IInv` says
what replaces them. At any time the flusher has what it took and nobody else has it (`Batched`);
the runner is in `Write` only for a remark or for the last line, and neither there nor in `Close`
before the copier has ended or has been overtaken (`Alternating`); and while it has not been overtaken
(`InOrder`), one goroutine at a time is in `Write`, and all it holds is known by its place in the
output: how many lines have been numbered and what is left of the chunk (`Place`), what of it has been
stored (`Settled`), that the history is the most recent of the numbered lines (`Recent`), that lines
kept, pending, under way or sent are those of the output with their number (`Genuine`) and share none
(`Distinct`), and what `Close` has left (`Ended`). The lines of an output cut anywhere are those of
its pieces, carried over: that is a fact about `Split` and `FlattenSeq` and is proved from
`SequenceLemmas`.

The account of the history stands on top of it (`AccountInv`). From `Admit` to `Keep` a line is
charged and not yet in the history, so `Accounted` says of that interval what is still to come
(`Balanced`, with the line in the hands of the one goroutine in `Write`). `BytesEvict` cuts the
history in what is evicted and what stays, `EvictionsFit` says that eviction stops only when there is
room or nothing is left, and `Refunded` is the arithmetic of one `Overhead` per evicted line.

That nothing is dropped is an equation where `Distinct` is an inclusion: `DropInv` adds that the
numbers of the lines pending, taken and sent are all those given out so far (`Whole`), less the one
that `Close` gives to the last line once the writer is closed.

### LogClient

`LogClientProofs`: `TypeCorrect`, `OpenIsToldAlways`, `StoredIsTailAlways`, `AcknowledgedOnceAlways`.
An attempt that broke off has taken something from the reader, which the next one shares: what is
left in it is always an end of the body (`Leftover`), hence what any attempt stores. The other
conjuncts tie `err` and `res` of the attempt under way to what the service did with it (`Opening`,
`Acknowledging`), so that `retry` goes on only from a request that was not acknowledged.

### StageLifecycle

`StageLifecycleProofs`: `TypeCorrect`, `FailedSetupForgottenAlways`, `ExitReportedIsExitAlways`,
`CleanTeardownAlways`, and the action property `OnlyOwnContainersAlways`. The invariant follows a
stage through its setup (`SetupKnown`: what has been made so far; `Mapped`: the map names only
setups that got that far), a run through its calls (`RunKnown`), the lists (`ListsOwn`: a list of
containers has only those of its own stage's steps, which is what makes the action property true)
and a teardown (`DestroyKnown`; `Torn`: what a teardown without failed removals has passed is gone
and does not come back). `CleanTeardown` is about a teardown that began when the stage was complete;
`Torn` has to say what that excludes from then on, run by run.

### StepRun, with StdCopy and StepLog

`StepRunProofs`: `TypeCorrect`, `OutputIsCopiedAlways`, `ProcessOutputCompleteAlways`,
`SecretsMaskedAlways`, `SubscriberUpToDateAlways`, `ResultIsRunResultAlways`, `DeclaredReportedAlways`,
`ReportedOnceAlways`. The conjuncts of `IInv`:

- `RunTyped`, `PrintHeld`: the places and types of the runner, the copier, the files and the log;
  who is in a `Write` has something to write.
- `Copied`: the frames that were handed on are the payloads of the first chunks; what follows them,
  buffered and on the connection, is the encoding of the chunks that remain, but for what was lost
  when it broke. Of a process: handed on, buffered and in the pipe are together the output. The
  decoder's decisions (more is needed, the buffer grows, a frame is whole) each keep that, for any
  length of the buffer and any reads.
- `LogInv`: outside a `Write` no subscriber is owed anything; inside, the bytes are the last of the
  output, the subscribers that are still to be sent to are owed just those, and whoever follows is
  registered.
- `Ran`: nothing has been returned before the step has ended; a process that was waited for has its
  pipe read to the end.
- `ResultsInv`: no line in a file is of a later run, a run has one result, of the kinds `executeStep`
  knows, and what a run has reported and removed is in no file any more.

Two more invariants stand on top of it:

- `MaskInv`: the masked writer looks for the parts of the request's secrets, and each write that it
  has passed on is clear of them. `Replace` is a recursive function on the places of the text. What
  it computes is proved as a walk (`ReplaceWalks`): from any place it writes the mask and skips a part
  that was found there, or writes the byte and goes on. By induction downwards over the places
  (`DownTo`), what it writes from a place up to the next mask is the text from there on, and at none
  of its bytes does a part stand (`ReplaceIsClean`); a part that could be read in the output would hold
  no mask, hence be a piece of the text that was passed over although it was found. This is where
  `StepRunAssumption` says that no secret holds the mask: one of asterisks alone could be read in the
  mask itself. `LineIsPart` adds that every line of a secret, as a reader understands it, is a part.
- `DeclInv`: from the exit of a successful step until its files are read, the line of each declared
  variable is in the output file and no later line has its key (`Keeps`), whatever stood there
  before. The exit is where this begins (`ExitKeeps`: all the added commands have run, since they
  decide the exit code), the collection where it is used (`ReadHas` for the three ways to read the
  file, `ReportsDeclared` for the five ways to make a result).

`DeclaredReported` was weaker to begin with: it was checked on requests whose variables all have
lines of their own, and the proof asks what else may be declared. `Survives` names it: a key that is
the delimiter, a value of several lines or with blanks that godotenv trims, and a later variable
with the same key or with several lines, which may hold one.

### Induction

The library's induction theorems take the formula as an operator, which no installed prover
instantiates. Where a fact about sequences needs induction (`FlattenSeq` of a sequence and one more,
the end of an end), `SequenceLemmas` states the formula as the set of the numbers that satisfy it and
uses that a nonempty set of naturals has a least member (`LeastOf`, `UpTo`, `EverySeq`).

### Only model-checked

- Liveness (`ListedWaiterAnswered`, `PendingIsFlushed`, `FlusherStops`, `DestroyedStepEnds`,
  `DirectUploadEnds`, `WriteReturns`, `CopierEnds`, `StreamEnds`): fairness is out of the prover's
  reach. So are the violations, which TLC shows by a trace.
- Safety has nothing left that only TLC has seen: every invariant and every action property of a
  passing run is stated by a theorem.
- The lemmas take for granted what the modules say of programs outside the repository: what
  `godotenv`, the shells, the Docker daemon and the log service do is part of the model, not proved.

## 5. Plan

Done: all the modules of section 2, and the proofs of section 4.

What is left to prove is not among the runs' properties, but near them: that the steps of one
`StepExecutor` do not disturb each other, and that `LogClient` is the client that `LiveLog` assumes.

## 6. Not modelled, and why

- Telemetry, reports, savings and call graphs: lite-engine's code, whose result passes through. The
  warnings the parsers write to the step's log are left out of `StepRun`; in `LiveLog` they are remarks.
- A deadline does not stop a step on the host, because `engine/exec` ignores the context; `executeStep`
  reports the deadline after the process has ended, which is what `StepOutcome` models.
- `jsonmessage`: prints the progress of a pull, message by message.
- Rewriting of requests in the handlers (volumes, proxies, delegate capacity, TI configuration), and
  `engine/docker/convert.go`: data without protocol.
- Data races as such: `Write`'s fields and the shared `multierror` are read and written in separate
  steps, so lost updates are in the models; torn values are not. `AppendSecrets` (with the rest of
  `pipeline/state.go`, a record of the stage) and `setProxyEnvs` are listed as hazards only.
- The file store client: sequential file I/O. Its `Upload` does nothing, so what `Close` keeps after
  `stop` (the rest of `prev`) reaches no file.
- `server/`, `setup/`, `cli/`, `config/`, `logger/`: installation, flags and I/O.
