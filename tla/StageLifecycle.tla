--------------------------- MODULE StageLifecycle ---------------------------
(***************************************************************************)
(* The life of a stage: the setup, step and destroy handlers (handler/),   *)
(* the map from stage ids to stages they share (executor/executor.go), and *)
(* the Docker engine of each stage (engine/engine.go,                      *)
(* engine/docker/docker.go) between them and the Docker daemon.            *)
(*                                                                         *)
(* A request is a goroutine of the HTTP server and the run of a step is    *)
(* one too.  Only the map and the list of containers have a mutex; between *)
(* any two calls of the daemon every other goroutine may act, and every    *)
(* call may fail.                                                          *)
(*                                                                         *)
(* Abstraction: a stage has one volume and one network, named for its id,  *)
(* and a container has the name of its step.  Files, images and labels are *)
(* left out, and so are the steps that run on the host (engine/exec).  The *)
(* daemon is external: it is modelled by what docker.go relies on.         *)
(***************************************************************************)
EXTENDS Naturals, SequencesExt

CONSTANTS StageIds,      \* the ids a client gives its stages
          SetupReqs,     \* requests to /setup; each one's stage is named for it
          Steps,         \* requests to /step; each one's container is named for it
          DestroyReqs,   \* requests to /destroy
          Kind,          \* what each setup asks for: the Docker setup, a network of its own
          None           \* nothing there

ASSUME StageAssumption ==
    /\ Kind \in [SetupReqs -> [socket : BOOLEAN, named : BOOLEAN]]
    /\ None \notin SetupReqs \cup StageIds

VARIABLES
    stages,   \* [StageIds -> SetupReqs \cup {None}], the executor's map
    setup,    \* the handler of each setup request
    engine,   \* the engine of each stage: its containers, and whether it has its config
    docker,   \* the daemon: the state of each container, the volumes and networks there are
    run,      \* the run of each step
    destroy   \* the handler of each destroy request

vars == <<stages, setup, engine, docker, run, destroy>>

NoDestroy == [pc |-> "idle", stage |-> None, id |-> None, configured |-> FALSE, ready |-> FALSE,
              list |-> <<>>, todo |-> <<>>, failed |-> FALSE]

Init ==
    /\ stages = [s \in StageIds |-> None]
    /\ setup = [u \in SetupReqs |-> [pc |-> "idle", id |-> None]]
    /\ engine = [u \in SetupReqs |-> [configured |-> FALSE, containers |-> <<>>]]
    /\ docker = [container |-> [x \in Steps |-> "absent"], volumes |-> {}, networks |-> {}]
    /\ run = [x \in Steps |-> [pc |-> "idle", stage |-> None, result |-> "none"]]
    /\ destroy = [d \in DestroyReqs |-> NoDestroy]

-----------------------------------------------------------------------------
(* HandleSetup.  The stage is put in the map before anything is made for it; *)
(* the engine takes its config once the files and host paths are there; the  *)
(* daemon is asked for volumes and a network unless the request turned the   *)
(* Docker setup off.  A failure takes the id out of the map and leaves what  *)
(* was made.                                                                 *)

SetupMove(u, from, to) == setup[u].pc = from /\ setup' = [setup EXCEPT ![u].pc = to]

SetupAdd(u, id) ==
    /\ setup[u].pc = "idle"
    /\ setup' = [setup EXCEPT ![u] =
                   [pc |-> IF stages[id] = None THEN "files" ELSE "refused", id |-> id]]
    /\ stages' = [stages EXCEPT ![id] = IF @ = None THEN u ELSE @]
    /\ UNCHANGED <<engine, docker, run, destroy>>

SetupFiles(u) ==
    /\ SetupMove(u, "files", IF Kind[u].socket THEN "volumes" ELSE "ready")
    /\ engine' = [engine EXCEPT ![u].configured = TRUE]
    /\ UNCHANGED <<stages, docker, run, destroy>>

SetupVolumes(u) ==
    /\ SetupMove(u, "volumes", "network")
    /\ docker' = [docker EXCEPT !.volumes = @ \cup {setup[u].id}]
    /\ UNCHANGED <<stages, engine, run, destroy>>

SetupNetwork(u) ==
    /\ SetupMove(u, "network", "ready")
    /\ Kind[u].named
    /\ docker' = [docker EXCEPT !.networks = @ \cup {setup[u].id}]
    /\ UNCHANGED <<stages, engine, run, destroy>>

SetupFails(u) ==
    /\ \E pc \in {"files", "volumes", "network"} : SetupMove(u, pc, "undo")
    /\ UNCHANGED <<stages, engine, docker, run, destroy>>

\* Mutant: the stage that could not be set up stays in the map.
UndoNothing(u) ==
    /\ SetupMove(u, "undo", "failed")
    /\ UNCHANGED <<stages, engine, docker, run, destroy>>

SetupUndo(u) ==
    /\ SetupMove(u, "undo", "failed")
    /\ stages' = [stages EXCEPT ![setup[u].id] = None]
    /\ UNCHANGED <<engine, docker, run, destroy>>

Setup(u) ==
    SetupFiles(u) \/ SetupVolumes(u) \/ SetupNetwork(u) \/ SetupFails(u) \/ SetupUndo(u)

-----------------------------------------------------------------------------
(* A step: HandleStartStep finds the stage, and the run makes the container, *)
(* starts it, follows its log and waits for it.                              *)

RunMove(x, from, to) == run[x].pc = from /\ run' = [run EXCEPT ![x].pc = to]

RunReturns(x, result) == run' = [run EXCEPT ![x] = [@ EXCEPT !.pc = "done", !.result = result]]

\* Mutant: the error of Get is logged and the step goes on.
StepAnyway(x, id) ==
    /\ run[x].pc = "idle"
    /\ run' = [run EXCEPT ![x] = [@ EXCEPT !.stage = stages[id], !.pc = "create"]]
    /\ UNCHANGED <<stages, setup, engine, docker, destroy>>

StepArrives(x, id) ==
    /\ run[x].pc = "idle"
    /\ run' = [run EXCEPT ![x] = [@ EXCEPT !.stage = stages[id],
                                   !.pc = IF stages[id] = None THEN "refused" ELSE "create"]]
    /\ UNCHANGED <<stages, setup, engine, docker, destroy>>

Create(x) ==
    /\ RunMove(x, "create", "record")
    /\ docker' = [docker EXCEPT !.container[x] = "created"]
    /\ UNCHANGED <<stages, setup, engine, destroy>>

(* A stage without a network of its own attaches the container to the       *)
(* networks the step names; when that fails, create returns nil there and   *)
(* then, before the container is recorded.                                  *)
ConnectFails(x) ==
    /\ RunMove(x, "record", "start")
    /\ ~Kind[run[x].stage].named
    /\ UNCHANGED <<stages, setup, engine, docker, destroy>>

\* Mutant: the list of containers is one for all the engines.
RecordShared(x) ==
    /\ RunMove(x, "record", "start")
    /\ engine' = [u \in SetupReqs |-> [engine[u] EXCEPT !.containers = Append(@, x)]]
    /\ UNCHANGED <<stages, setup, docker, destroy>>

Record(x) ==
    /\ RunMove(x, "record", "start")
    /\ engine' = [engine EXCEPT ![run[x].stage].containers = Append(@, x)]
    /\ UNCHANGED <<stages, setup, docker, destroy>>

Start(x) ==
    /\ RunMove(x, "start", "wait")
    /\ docker.container[x] = "created"
    /\ docker' = [docker EXCEPT !.container[x] = "running"]
    /\ UNCHANGED <<stages, setup, engine, destroy>>

\* Mutant: the first answer of the daemon's wait is taken for the end.
WaitOnce(x) ==
    /\ run[x].pc = "wait"
    /\ docker.container[x] # "absent"
    /\ RunReturns(x, "exited")
    /\ UNCHANGED <<stages, setup, engine, docker, destroy>>

(* The log is followed by a goroutine of its own (LiveLog).  The daemon's   *)
(* wait may come back early: waitRetry asks again until an inspection shows *)
(* that the container has stopped.                                          *)
WaitRetry(x) ==
    /\ run[x].pc = "wait"
    /\ docker.container[x] = "exited"
    /\ RunReturns(x, "exited")
    /\ UNCHANGED <<stages, setup, engine, docker, destroy>>

\* Mutant: when the inspection fails too, the wait is tried again.
RetryGone(x) ==
    /\ run[x].pc = "wait"
    /\ docker.container[x] = "absent"
    /\ UNCHANGED vars

\* Every call about a container that was removed fails, and ends the run.
Gone(x) ==
    /\ run[x].pc \in {"start", "wait"}
    /\ docker.container[x] = "absent"
    /\ RunReturns(x, "error")
    /\ UNCHANGED <<stages, setup, engine, docker, destroy>>

\* Any other call may fail, or be cut short when the time of the step is up; a
\* log that cannot be followed ends the run too.
RunFails(x) ==
    /\ run[x].pc \in {"create", "start", "wait"}
    /\ RunReturns(x, "error")
    /\ UNCHANGED <<stages, setup, engine, docker, destroy>>

\* The daemon has done what the client is told, or believes, has failed.
DoneUnheard(x) ==
    /\ \E move \in {<<"create", "absent", "created">>, <<"start", "created", "running">>} :
          /\ run[x].pc = move[1] /\ docker.container[x] = move[2]
          /\ docker' = [docker EXCEPT !.container[x] = move[3]]
    /\ RunReturns(x, "error")
    /\ UNCHANGED <<stages, setup, engine, destroy>>

Run(x) ==
    \/ Create(x) \/ ConnectFails(x) \/ Record(x) \/ Start(x)
    \/ WaitRetry(x) \/ Gone(x)

\* The program in the container ends.
Exits(x) ==
    /\ docker.container[x] = "running"
    /\ docker' = [docker EXCEPT !.container[x] = "exited"]
    /\ UNCHANGED <<stages, setup, engine, run, destroy>>

-----------------------------------------------------------------------------
(* HandleDestroy and Engine.Destroy.  The containers listed when it begins   *)
(* are killed, then removed, then the volume and the network.  A call that   *)
(* fails is logged and passed over; for the properties only, failed keeps    *)
(* whether a removal failed that might have succeeded, and ready whether the *)
(* setup had finished when it began.                                         *)

DestroyArrives(d, id) ==
    /\ destroy[d].pc = "idle"
    /\ destroy' = [destroy EXCEPT ![d] = [@ EXCEPT !.id = id, !.stage = stages[id],
                      !.pc = IF stages[id] = None THEN "notfound" ELSE "config"]]
    /\ UNCHANGED <<stages, setup, engine, docker, run>>

At(d, pc) == destroy[d].pc = pc /\ UNCHANGED <<setup, run>>

Then(d, pc, failed) ==
    destroy' = [destroy EXCEPT ![d] = [@ EXCEPT !.pc = pc, !.failed = destroy[d].failed \/ failed]]

\* The engine has a mutex for its config and another for its list of containers.
ReadConfig(d) ==
    LET u == destroy[d].stage IN
    /\ At(d, "config")
    /\ destroy' = [destroy EXCEPT ![d] = [@ EXCEPT !.pc = "snapshot",
                      !.configured = engine[u].configured, !.ready = setup[u].pc = "ready"]]
    /\ UNCHANGED <<stages, engine, docker>>

Snapshot(d) ==
    LET containers == engine[destroy[d].stage].containers IN
    /\ At(d, "snapshot")
    /\ destroy' = [destroy EXCEPT ![d] = [@ EXCEPT !.pc = "kill", !.list = containers,
                      !.todo = containers]]
    /\ UNCHANGED <<stages, engine, docker>>

\* Only a running container can be killed, and the call may fail even then.
Kill(d) ==
    LET x == Head(destroy[d].todo) IN
    /\ At(d, "kill")
    /\ destroy[d].todo # <<>>
    /\ \/ /\ docker.container[x] = "running"
          /\ docker' = [docker EXCEPT !.container[x] = "exited"]
       \/ UNCHANGED docker
    /\ destroy' = [destroy EXCEPT ![d].todo = Tail(@)]
    /\ UNCHANGED <<stages, engine>>

AllKilled(d) ==
    /\ At(d, "kill")
    /\ destroy[d].todo = <<>>
    /\ destroy' = [destroy EXCEPT ![d] = [@ EXCEPT !.pc = "remove", !.todo = destroy[d].list]]
    /\ UNCHANGED <<stages, engine, docker>>

\* Mutant: the removal is not forced, so it refuses a container that still runs.
RemoveUnforced(d, ok) ==
    LET x == Head(destroy[d].todo) IN
    /\ At(d, "remove")
    /\ destroy[d].todo # <<>>
    /\ docker' = IF ok /\ docker.container[x] # "running"
                 THEN [docker EXCEPT !.container[x] = "absent"] ELSE docker
    /\ destroy' = [destroy EXCEPT ![d] = [@ EXCEPT !.todo = Tail(destroy[d].todo),
                                               !.failed = destroy[d].failed \/ ~ok]]
    /\ UNCHANGED <<stages, engine>>

\* A removal is forced: it takes a container that runs with it.
RemoveContainer(d, ok) ==
    LET x == Head(destroy[d].todo) IN
    /\ At(d, "remove")
    /\ destroy[d].todo # <<>>
    /\ docker' = IF ok THEN [docker EXCEPT !.container[x] = "absent"] ELSE docker
    /\ destroy' = [destroy EXCEPT ![d] = [@ EXCEPT !.todo = Tail(destroy[d].todo),
                                               !.failed = destroy[d].failed \/ ~ok]]
    /\ UNCHANGED <<stages, engine>>

\* The containers of a stage the daemon has; one that is left holds the volume.
Left(u) == {x \in Steps : run[x].stage = u /\ docker.container[x] # "absent"}

RemoveVolumes(d, ok) ==
    /\ At(d, "remove")
    /\ destroy[d].todo = <<>>
    /\ docker' = IF ok /\ destroy[d].configured /\ Left(destroy[d].stage) = {}
                 THEN [docker EXCEPT !.volumes = @ \ {destroy[d].id}] ELSE docker
    /\ Then(d, "network", ~ok)
    /\ UNCHANGED <<stages, engine>>

\* A container that runs is attached to the network, and holds it.
RemoveNetwork(d, ok) ==
    LET u == destroy[d].stage
        removable == /\ destroy[d].configured /\ Kind[u].named
                     /\ \A x \in Left(u) : docker.container[x] # "running" IN
    /\ At(d, "network")
    /\ docker' = IF ok /\ removable
                 THEN [docker EXCEPT !.networks = @ \ {destroy[d].id}] ELSE docker
    /\ Then(d, "forget", ~ok)
    /\ UNCHANGED <<stages, engine>>

\* What was recorded since the list was taken is forgotten with it.
Forget(d) ==
    /\ At(d, "forget")
    /\ engine' = [engine EXCEPT ![destroy[d].stage].containers = <<>>]
    /\ Then(d, "unmap", FALSE)
    /\ UNCHANGED <<stages, docker>>

\* The id is taken out of the map, whichever stage it stands for by now.
Unmap(d) ==
    /\ At(d, "unmap")
    /\ stages' = [stages EXCEPT ![destroy[d].id] = None]
    /\ destroy' = [destroy EXCEPT ![d] = [NoDestroy EXCEPT !.pc = "done",
                      !.stage = destroy[d].stage, !.failed = destroy[d].failed]]
    /\ UNCHANGED <<engine, docker>>

Destroy(d) ==
    \/ ReadConfig(d) \/ Snapshot(d) \/ Kill(d) \/ AllKilled(d) \/ Forget(d) \/ Unmap(d)
    \/ \E ok \in BOOLEAN : RemoveContainer(d, ok) \/ RemoveVolumes(d, ok) \/ RemoveNetwork(d, ok)

-----------------------------------------------------------------------------
Next ==
    \/ \E u \in SetupReqs, id \in StageIds : SetupAdd(u, id)
    \/ \E u \in SetupReqs : Setup(u)
    \/ \E x \in Steps, id \in StageIds : StepArrives(x, id)
    \/ \E x \in Steps : Run(x) \/ RunFails(x) \/ DoneUnheard(x) \/ Exits(x)
    \/ \E d \in DestroyReqs, id \in StageIds : DestroyArrives(d, id)
    \/ \E d \in DestroyReqs : Destroy(d)

Spec == Init /\ [][Next]_vars

(* The goroutine of a run goes on when the daemon answers.  Nothing is       *)
(* assumed of the clients, of the program in a container or of a destroy.    *)
FairSpec == Spec /\ \A x \in Steps : WF_vars(Run(x))

-----------------------------------------------------------------------------
(* Each piece of state keeps its type, and a run or a teardown that went on  *)
(* found its stage.                                                          *)
TypeOK ==
    /\ stages \in [StageIds -> SetupReqs \cup {None}]
    /\ setup \in [SetupReqs ->
                     [pc : {"idle", "refused", "files", "volumes", "network", "undo", "failed", "ready"},
                      id : StageIds \cup {None}]]
    /\ engine \in [SetupReqs -> [configured : BOOLEAN, containers : Seq(Steps)]]
    /\ docker \in [container : [Steps -> {"absent", "created", "running", "exited"}],
                   volumes : SUBSET StageIds, networks : SUBSET StageIds]
    /\ run \in [Steps -> [pc : {"idle", "refused", "create", "record", "start", "wait", "done"},
                          stage : SetupReqs \cup {None}, result : {"none", "error", "exited"}]]
    /\ destroy \in [DestroyReqs ->
                       [pc : {"idle", "notfound", "config", "snapshot", "kill", "remove", "network",
                              "forget", "unmap", "done"},
                        stage : SetupReqs \cup {None}, id : StageIds \cup {None},
                        configured : BOOLEAN, ready : BOOLEAN, list : Seq(Steps),
                        todo : Seq(Steps), failed : BOOLEAN]]
    /\ \A x \in Steps : run[x].pc \notin {"idle", "refused"} => run[x].stage # None
    /\ \A d \in DestroyReqs : destroy[d].pc \notin {"idle", "notfound"} => destroy[d].stage # None

\* Every step of the stage was recorded before the teardown began.
Covered(d) ==
    \A x \in Steps : run[x].stage = destroy[d].stage => x \in Range(destroy[d].list)

\* No other stage was ever made under the same id.
Alone(u) == \A v \in SetupReqs \ {u} :
    setup[v].id = setup[u].id => setup[v].pc = "refused"

(* A teardown whose removals succeed leaves nothing of the stage, when the   *)
(* setup had finished and every container was recorded before it began:      *)
(* the order containers, volumes, network and the force of the removal make  *)
(* up for kills that fail (docker.go:174-228).                               *)
CleanTeardown ==
    \A d \in DestroyReqs :
        LET u == destroy[d].stage IN
        destroy[d].pc = "unmap" /\ ~destroy[d].failed /\ destroy[d].ready /\ Covered(d) /\ Alone(u) =>
            /\ Left(u) = {}
            /\ destroy[d].id \notin docker.volumes
            /\ Kind[u].named => destroy[d].id \notin docker.networks

(* A container is removed only by a teardown of the stage whose step it is,  *)
(* even while stages with other or with the same id come and go              *)
(* (docker.go:170-190, 354-359).                                             *)
OnlyOwnContainers ==
    [][\A x \in Steps :
         docker.container[x] # "absent" /\ docker'.container[x] = "absent" =>
            \E d \in DestroyReqs : destroy[d].pc = "remove" /\ destroy[d].stage = run[x].stage]_vars

(* A setup that fails does not leave its stage where steps would find it,    *)
(* whatever setups and destroys of the same id did meanwhile                 *)
(* (handler/setup.go:121-136).                                               *)
FailedSetupForgotten ==
    \A u \in SetupReqs : setup[u].pc = "failed" => stages[setup[u].id] # u

(* A run that reports how its container exited does so after it exited       *)
(* (docker.go:371-411).                                                      *)
ExitReportedIsExit ==
    \A x \in Steps : run[x].result = "exited" => docker.container[x] \in {"exited", "absent"}

(* The run of a step whose container a teardown removed ends, whatever its   *)
(* program would have done: nobody is left waiting for a container that is   *)
(* gone (docker.go:174-190, 371-411).                                        *)
DestroyedStepEnds ==
    \A d \in DestroyReqs, x \in Steps :
        (destroy[d].pc = "unmap" /\ ~destroy[d].failed /\ x \in Range(destroy[d].list))
            ~> (run[x].pc = "done")

-----------------------------------------------------------------------------
(* What a comment of docker.go says and the code does not do.                *)

(* docker.go:185: Destroy cleans up all containers; the steps of a stage     *)
(* that was torn down without a failure leave none when they all ran to      *)
(* their end.                                                                *)
AllContainersCleaned ==
    \A d \in DestroyReqs :
        destroy[d].pc = "done" /\ ~destroy[d].failed
          /\ (\A x \in Steps : run[x].stage = destroy[d].stage => run[x].result = "exited")
            => Left(destroy[d].stage) = {}
=============================================================================
