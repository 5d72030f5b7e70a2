----------------------- MODULE StageLifecycleProofs -----------------------
(***************************************************************************)
(* Proofs about StageLifecycle, for any stages, setups, steps and          *)
(* teardowns.                                                              *)
(***************************************************************************)
EXTENDS StageLifecycle, SequenceLemmas

-----------------------------------------------------------------------------
(* The inductive invariant.  It says what a goroutine may rely on that acts  *)
(* on what it read before: a name in the map stands for a setup that was     *)
(* given the name, a container in a list for a step of the list's stage      *)
(* whose container was made, and a teardown for a stage that was in the map. *)

(* A setup under way has the id it was sent, and has put its config in the   *)
(* engine when it is past the files.                                         *)
SetupKnown ==
    \A u \in SetupReqs :
        /\ setup[u].pc # "idle" => setup[u].id \in StageIds
        /\ setup[u].pc = "idle" => setup[u].id = None
        /\ setup[u].pc \in {"volumes", "network", "ready"} => engine[u].configured

\* The map holds a stage under the id of its setup, and none that was refused or that failed.
Mapped ==
    \A s \in StageIds : stages[s] # None =>
        setup[stages[s]].id = s /\ setup[stages[s]].pc \notin {"idle", "refused", "failed"}

(* A step that has not arrived has no stage; one that reports an exit is     *)
(* done, and so is its container.                                            *)
RunKnown ==
    \A x \in Steps :
        /\ run[x].pc = "idle" => run[x].stage = None
        /\ run[x].result = "exited" =>
              run[x].pc = "done" /\ docker.container[x] \in {"exited", "absent"}

\* The steps of a stage whose container was made.
Made(u) == {x \in Steps : run[x].stage = u /\ run[x].pc \in {"start", "wait", "done"}}

\* The engine of a stage lists steps of that stage only.
ListsOwn == \A u \in SetupReqs : Range(engine[u].containers) \subseteq Made(u)

(* A teardown under way has the id of its stage, and works on steps of that  *)
(* stage only; one that has not arrived has nothing to work on.              *)
DestroyKnown ==
    \A d \in DestroyReqs :
        LET u == destroy[d].stage IN
        /\ destroy[d].pc \notin {"idle", "notfound", "done"} =>
              destroy[d].id \in StageIds /\ setup[u].id = destroy[d].id /\ setup[u].pc # "idle"
        /\ destroy[d].pc \notin {"idle", "notfound", "done"} /\ destroy[d].ready =>
              destroy[d].configured /\ setup[u].pc = "ready"
        /\ destroy[d].pc = "idle" =>
              destroy[d].list = <<>> /\ destroy[d].todo = <<>> /\ ~destroy[d].ready
        /\ Range(destroy[d].list) \subseteq Made(u)
        /\ Range(destroy[d].todo) \subseteq Made(u)

\* The containers of the list that the teardown has removed, if no removal failed.
Swept(d) ==
    destroy[d].pc \in {"remove", "network", "forget", "unmap"} /\ ~destroy[d].failed =>
        \A x \in Range(destroy[d].list) :
            \/ destroy[d].pc = "remove" /\ x \in Range(destroy[d].todo)
            \/ docker.container[x] = "absent"

\* A teardown of the whole of a finished stage that was the only one of its id.
Whole(d) == ~destroy[d].failed /\ destroy[d].ready /\ Covered(d) /\ Alone(destroy[d].stage)

\* What such a teardown has removed besides.
Freed(d) ==
    Whole(d) =>
        /\ destroy[d].pc \in {"network", "forget", "unmap"} => destroy[d].id \notin docker.volumes
        /\ destroy[d].pc \in {"forget", "unmap"} =>
              (Kind[destroy[d].stage].named => destroy[d].id \notin docker.networks)

Torn == \A d \in DestroyReqs : Swept(d) /\ Freed(d)

IInv == TypeOK /\ SetupKnown /\ Mapped /\ RunKnown /\ ListsOwn /\ DestroyKnown /\ Torn

-----------------------------------------------------------------------------
LEMMA InitInv == Init => IInv
<1> SUFFICES ASSUME Init PROVE IInv
  OBVIOUS
<1>1. /\ \A u \in SetupReqs : setup[u].pc = "idle" /\ setup[u].id = None
      /\ \A u \in SetupReqs : engine[u].containers = <<>>
      /\ \A s \in StageIds : stages[s] = None
      /\ \A x \in Steps : run[x].pc = "idle" /\ run[x].stage = None /\ run[x].result = "none"
      /\ \A d \in DestroyReqs : destroy[d] = NoDestroy
  BY DEF Init
<1>2. TypeOK
  <2>1. <<>> \in Seq(Steps)
    OBVIOUS
  <2>2. QED
    BY <1>1, <2>1 DEF Init, TypeOK, NoDestroy
<1>3. SetupKnown /\ Mapped /\ RunKnown
  BY <1>1 DEF SetupKnown, Mapped, RunKnown
<1>4. ListsOwn /\ DestroyKnown
  BY <1>1, RangeOfEmpty DEF ListsOwn, DestroyKnown, NoDestroy
<1>5. Torn
  BY <1>1 DEF Torn, Swept, Freed, NoDestroy
<1>6. QED
  BY <1>2, <1>3, <1>4, <1>5 DEF IInv

-----------------------------------------------------------------------------
(* The setups.  What any step of a setup leaves as it was, and what it may   *)
(* change, is enough for the runs and the teardowns.                         *)

SetupFrame ==
    /\ run' = run /\ destroy' = destroy /\ docker'.container = docker.container
    /\ \A v \in SetupReqs :
          /\ engine'[v].containers = engine[v].containers
          /\ engine[v].configured => engine'[v].configured
          /\ setup[v].pc # "idle" => setup'[v].id = setup[v].id /\ setup'[v].pc # "idle"
          /\ setup[v].pc = "ready" => setup'[v].pc = "ready"
          /\ setup[v].pc # "idle" /\ setup'[v].pc = "refused" => setup[v].pc = "refused"
    /\ \A s \in docker'.volumes \ docker.volumes :
          \E v \in SetupReqs : setup[v].pc = "volumes" /\ setup[v].id = s
    /\ \A s \in docker'.networks \ docker.networks :
          \E v \in SetupReqs : setup[v].pc = "network" /\ setup[v].id = s

\* A teardown that is of a whole stage was so before any setup went on.
LEMMA WholeBefore ==
    ASSUME IInv, NEW d \in DestroyReqs, destroy[d].pc \in {"network", "forget", "unmap"},
           SetupFrame, Whole(d)'
    PROVE  Whole(d)
<1> DEFINE u == destroy[d].stage
<1>1. u \in SetupReqs /\ setup[u].pc # "idle" /\ setup[u].id \in StageIds
  BY DEF IInv, TypeOK, DestroyKnown, SetupKnown
<1>2. Covered(d) /\ ~destroy[d].failed /\ destroy[d].ready
  BY DEF Whole, Covered, SetupFrame
<1>3. Alone(u)
  <2> SUFFICES ASSUME NEW v \in SetupReqs \ {u}, setup[v].id = setup[u].id
               PROVE  setup[v].pc = "refused"
    BY DEF Alone
  <2>1. setup[v].pc # "idle"
    BY <1>1, StageAssumption DEF IInv, SetupKnown
  <2>2. setup'[v].id = setup'[u].id
    BY <1>1, <2>1 DEF SetupFrame
  <2>3. destroy'[d].stage = u
    BY DEF SetupFrame
  <2>4. Alone(u)'
    BY <2>3 DEF Whole
  <2>5. setup'[v].pc = "refused"
    BY <2>2, <2>3, <2>4 DEF Alone
  <2>6. QED
    BY <2>1, <2>5 DEF SetupFrame
<1>4. QED
  BY <1>2, <1>3 DEF Whole

LEMMA SetupKeeps ==
    ASSUME IInv, SetupFrame
    PROVE  RunKnown' /\ ListsOwn' /\ DestroyKnown' /\ Torn'
<1>1. \A u : Made(u)' = Made(u)
  BY DEF Made, SetupFrame
<1>2. RunKnown'
  BY DEF IInv, RunKnown, SetupFrame
<1>3. ListsOwn'
  BY <1>1 DEF IInv, ListsOwn, SetupFrame
<1>4. DestroyKnown'
  <2> SUFFICES ASSUME NEW d \in DestroyReqs
               PROVE  LET u == destroy[d].stage IN
                      /\ destroy[d].pc \notin {"idle", "notfound", "done"} =>
                            destroy[d].id \in StageIds /\ setup'[u].id = destroy[d].id /\ setup'[u].pc # "idle"
                      /\ destroy[d].pc \notin {"idle", "notfound", "done"} /\ destroy[d].ready =>
                            destroy[d].configured /\ setup'[u].pc = "ready"
                      /\ destroy[d].pc = "idle" =>
                            destroy[d].list = <<>> /\ destroy[d].todo = <<>> /\ ~destroy[d].ready
                      /\ Range(destroy[d].list) \subseteq Made(u)'
                      /\ Range(destroy[d].todo) \subseteq Made(u)'
    BY DEF DestroyKnown, SetupFrame
  <2>1. destroy[d].pc \notin {"idle", "notfound"} => destroy[d].stage \in SetupReqs
    BY DEF IInv, TypeOK
  <2>2. QED
    BY <1>1, <2>1 DEF IInv, DestroyKnown, SetupFrame
<1>5. Torn'
  <2> SUFFICES ASSUME NEW d \in DestroyReqs
               PROVE  Swept(d)' /\ Freed(d)'
    BY DEF Torn
  <2>1. Swept(d)'
    BY DEF IInv, Torn, Swept, SetupFrame
  <2>2. Freed(d)'
    <3> SUFFICES ASSUME Whole(d)', destroy[d].pc \in {"network", "forget", "unmap"}
                 PROVE  /\ destroy[d].id \notin docker'.volumes
                        /\ destroy[d].pc \in {"forget", "unmap"} /\ Kind[destroy[d].stage].named =>
                              destroy[d].id \notin docker'.networks
      BY DEF Freed, SetupFrame
    <3> DEFINE u == destroy[d].stage
    <3>1. Whole(d)
      BY WholeBefore
    <3>2. u \in SetupReqs /\ setup[u].id = destroy[d].id /\ setup[u].pc = "ready"
      BY <3>1 DEF Whole, IInv, TypeOK, DestroyKnown
    <3>3. \A v \in SetupReqs : setup[v].pc \in {"volumes", "network"} => setup[v].id # destroy[d].id
      BY <3>1, <3>2 DEF Whole, Alone
    <3>4. destroy[d].id \notin docker.volumes
      BY <3>1 DEF IInv, Torn, Freed
    <3>5. destroy[d].pc \in {"forget", "unmap"} /\ Kind[u].named => destroy[d].id \notin docker.networks
      BY <3>1 DEF IInv, Torn, Freed
    <3>6. QED
      BY <3>3, <3>4, <3>5 DEF SetupFrame
  <2>3. QED
    BY <2>1, <2>2
<1>6. QED
  BY <1>2, <1>3, <1>4, <1>5

\* Each step of a setup stays in the frame, and keeps what the invariant says of setups.
LEMMA SetupAddInv ==
    ASSUME IInv, NEW u \in SetupReqs, NEW id \in StageIds, SetupAdd(u, id)
    PROVE  IInv'
<1>1. /\ setup[u].pc = "idle" /\ setup[u].id = None
      /\ setup'[u].pc = (IF stages[id] = None THEN "files" ELSE "refused") /\ setup'[u].id = id
      /\ \A v \in SetupReqs \ {u} : setup'[v] = setup[v]
  BY DEF SetupAdd, IInv, TypeOK, SetupKnown
<1>2. TypeOK'
  BY DEF SetupAdd, IInv, TypeOK
<1>3. SetupKnown'
  BY <1>1 DEF SetupAdd, IInv, SetupKnown
<1>4. Mapped'
  <2> SUFFICES ASSUME NEW s \in StageIds, stages'[s] # None
               PROVE  setup'[stages'[s]].id = s /\ setup'[stages'[s]].pc \notin {"idle", "refused", "failed"}
    BY DEF Mapped
  <2>1. stages \in [StageIds -> SetupReqs \cup {None}]
    BY DEF IInv, TypeOK
  <2>2. CASE s = id /\ stages[id] = None
    <3>1. stages'[s] = u
      BY <2>1, <2>2 DEF SetupAdd
    <3>2. QED
      BY <1>1, <2>2, <3>1
  <2>3. CASE ~(s = id /\ stages[id] = None)
    <3>1. stages'[s] = stages[s] /\ stages[s] \in SetupReqs
      BY <2>1, <2>3 DEF SetupAdd
    <3>2. stages[s] # u
      BY <1>1, <3>1, StageAssumption DEF IInv, Mapped
    <3>3. QED
      BY <1>1, <3>1, <3>2 DEF IInv, Mapped
  <2>4. QED
    BY <2>2, <2>3
<1>5. SetupFrame
  BY <1>1 DEF SetupAdd, SetupFrame
<1>6. QED
  BY <1>2, <1>3, <1>4, <1>5, SetupKeeps DEF IInv

\* A setup that goes on keeps its id, and is neither forgotten nor refused.
LEMMA SetupMoves ==
    ASSUME IInv, NEW u \in SetupReqs, NEW from, NEW to, SetupMove(u, from, to)
    PROVE  /\ setup[u].pc = from /\ setup'[u].pc = to /\ setup'[u].id = setup[u].id
           /\ \A v \in SetupReqs \ {u} : setup'[v] = setup[v]
           /\ from # "idle" => setup[u].id \in StageIds
BY DEF SetupMove, IInv, TypeOK, SetupKnown

LEMMA SetupGoesOn ==
    ASSUME IInv, NEW u \in SetupReqs,
           SetupFiles(u) \/ SetupVolumes(u) \/ SetupNetwork(u) \/ SetupFails(u)
    PROVE  IInv'
<1>1. PICK from \in {"files", "volumes", "network"}, to \in {"volumes", "network", "ready", "undo"} :
         SetupMove(u, from, to)
  <2>1. CASE SetupFiles(u)
    BY <2>1 DEF SetupFiles
  <2>2. CASE SetupVolumes(u)
    BY <2>2 DEF SetupVolumes
  <2>3. CASE SetupNetwork(u)
    BY <2>3 DEF SetupNetwork
  <2>4. CASE SetupFails(u)
    BY <2>4 DEF SetupFails
  <2>5. QED
    BY <2>1, <2>2, <2>3, <2>4
<1>2. /\ setup[u].pc = from /\ setup'[u].pc = to /\ setup'[u].id = setup[u].id
      /\ \A v \in SetupReqs \ {u} : setup'[v] = setup[v]
      /\ setup[u].id \in StageIds
  BY <1>1, SetupMoves
<1>3. setup' \in [SetupReqs ->
                     [pc : {"idle", "refused", "files", "volumes", "network", "undo", "failed", "ready"},
                      id : StageIds \cup {None}]]
  <2>1. [setup[u] EXCEPT !.pc = to] \in
          [pc : {"idle", "refused", "files", "volumes", "network", "undo", "failed", "ready"},
           id : StageIds \cup {None}]
    <3>1. to \in {"idle", "refused", "files", "volumes", "network", "undo", "failed", "ready"}
      OBVIOUS
    <3>2. setup[u] \in
            [pc : {"idle", "refused", "files", "volumes", "network", "undo", "failed", "ready"},
             id : StageIds \cup {None}]
      BY DEF IInv, TypeOK
    <3>3. QED
      BY <3>1, <3>2
  <2>2. setup' = [setup EXCEPT ![u] = [setup[u] EXCEPT !.pc = to]]
    BY <1>1 DEF SetupMove
  <2>3. QED
    BY <2>1, <2>2 DEF IInv, TypeOK
<1>4. stages' = stages /\ run' = run /\ destroy' = destroy
  BY DEF SetupFiles, SetupVolumes, SetupNetwork, SetupFails
<1>5. /\ engine' \in [SetupReqs -> [configured : BOOLEAN, containers : Seq(Steps)]]
      /\ \A v \in SetupReqs : engine'[v].containers = engine[v].containers
                           /\ (engine[v].configured => engine'[v].configured)
  <2>1. CASE SetupFiles(u)
    <3>1. engine[u] \in [configured : BOOLEAN, containers : Seq(Steps)]
      BY DEF IInv, TypeOK
    <3>2. [engine[u] EXCEPT !.configured = TRUE] \in [configured : BOOLEAN, containers : Seq(Steps)]
      BY <3>1
    <3>3. engine' = [engine EXCEPT ![u] = [engine[u] EXCEPT !.configured = TRUE]]
      BY <2>1 DEF SetupFiles
    <3>4. QED
      BY <3>2, <3>3 DEF IInv, TypeOK
  <2>2. CASE SetupVolumes(u) \/ SetupNetwork(u) \/ SetupFails(u)
    <3>1. engine' = engine
      BY <2>2 DEF SetupVolumes, SetupNetwork, SetupFails
    <3>2. QED
      BY <3>1 DEF IInv, TypeOK
  <2>3. QED
    BY <2>1, <2>2
<1>6. to \in {"volumes", "network", "ready"} => engine'[u].configured
  <2>1. CASE SetupFiles(u)
    BY <2>1 DEF SetupFiles, IInv, TypeOK
  <2>2. CASE SetupVolumes(u) \/ SetupNetwork(u)
    BY <2>2, <1>5 DEF SetupVolumes, SetupNetwork, SetupMove, IInv, SetupKnown
  <2>3. CASE SetupFails(u)
    <3>1. setup'[u].pc = "undo"
      BY <2>3, SetupMoves DEF SetupFails
    <3>2. QED
      BY <1>2, <3>1
  <2>4. QED
    BY <2>1, <2>2, <2>3
<1>7. /\ docker' \in [container : [Steps -> {"absent", "created", "running", "exited"}],
                      volumes : SUBSET StageIds, networks : SUBSET StageIds]
      /\ docker'.container = docker.container
      /\ \A s \in docker'.volumes \ docker.volumes : setup[u].pc = "volumes" /\ setup[u].id = s
      /\ \A s \in docker'.networks \ docker.networks : setup[u].pc = "network" /\ setup[u].id = s
  <2>1. CASE SetupFiles(u) \/ SetupFails(u)
    BY <2>1 DEF SetupFiles, SetupFails, IInv, TypeOK
  <2>2. CASE SetupVolumes(u)
    BY <1>2, <2>2 DEF SetupVolumes, SetupMove, IInv, TypeOK
  <2>3. CASE SetupNetwork(u)
    BY <1>2, <2>3 DEF SetupNetwork, SetupMove, IInv, TypeOK
  <2>4. QED
    BY <2>1, <2>2, <2>3
<1>8. TypeOK'
  BY <1>3, <1>4, <1>5, <1>7 DEF IInv, TypeOK
<1>9. SetupKnown'
  BY <1>2, <1>5, <1>6 DEF IInv, SetupKnown
<1>10. Mapped'
  <2> SUFFICES ASSUME NEW s \in StageIds, stages[s] # None
               PROVE  setup'[stages[s]].id = s /\ setup'[stages[s]].pc \notin {"idle", "refused", "failed"}
    BY <1>4 DEF Mapped
  <2>1. stages[s] \in SetupReqs
    BY DEF IInv, TypeOK
  <2>2. setup[stages[s]].id = s /\ setup[stages[s]].pc \notin {"idle", "refused", "failed"}
    BY DEF IInv, Mapped
  <2>3. QED
    BY <1>2, <2>1, <2>2
<1>11. SetupFrame
  BY <1>2, <1>4, <1>5, <1>7 DEF SetupFrame
<1>12. QED
  BY <1>8, <1>9, <1>10, <1>11, SetupKeeps DEF IInv

\* The stage that is taken out of the map is the one that failed, and no other name stands for it.
LEMMA SetupUndoInv ==
    ASSUME IInv, NEW u \in SetupReqs, SetupUndo(u)
    PROVE  IInv'
<1>1. /\ setup[u].pc = "undo" /\ setup'[u].pc = "failed" /\ setup'[u].id = setup[u].id
      /\ \A v \in SetupReqs \ {u} : setup'[v] = setup[v]
      /\ setup[u].id \in StageIds
  BY SetupMoves DEF SetupUndo
<1>2. TypeOK'
  <2>1. setup' \in [SetupReqs ->
                     [pc : {"idle", "refused", "files", "volumes", "network", "undo", "failed", "ready"},
                      id : StageIds \cup {None}]]
    BY DEF SetupUndo, SetupMove, IInv, TypeOK
  <2>2. stages' \in [StageIds -> SetupReqs \cup {None}]
    BY DEF SetupUndo, IInv, TypeOK
  <2>3. QED
    BY <2>1, <2>2 DEF SetupUndo, IInv, TypeOK
<1>3. SetupKnown'
  BY <1>1 DEF SetupUndo, IInv, SetupKnown
<1>4. Mapped'
  <2> SUFFICES ASSUME NEW s \in StageIds, stages'[s] # None
               PROVE  setup'[stages'[s]].id = s /\ setup'[stages'[s]].pc \notin {"idle", "refused", "failed"}
    BY DEF Mapped
  <2>1. s # setup[u].id /\ stages'[s] = stages[s] /\ stages[s] \in SetupReqs
    BY <1>1 DEF SetupUndo, IInv, TypeOK
  <2>2. stages[s] # u
    BY <2>1 DEF IInv, Mapped
  <2>3. QED
    BY <1>1, <2>1, <2>2 DEF IInv, Mapped
<1>5. SetupFrame
  BY <1>1 DEF SetupUndo, SetupFrame
<1>6. QED
  BY <1>2, <1>3, <1>4, <1>5, SetupKeeps DEF IInv

-----------------------------------------------------------------------------
(* The runs of the steps: what the setups and the teardowns rely on.  A      *)
(* container that was removed stays removed, for its run is past its making. *)

RunFrame ==
    /\ stages' = stages /\ setup' = setup /\ destroy' = destroy
    /\ docker'.volumes = docker.volumes /\ docker'.networks = docker.networks
    /\ \A v \in SetupReqs : engine'[v].configured = engine[v].configured
    /\ \A y \in Steps :
          /\ run[y].pc # "idle" => run'[y].stage = run[y].stage
          /\ run[y].pc \in {"start", "wait", "done"} =>
                /\ run'[y].pc \in {"start", "wait", "done"}
                /\ docker.container[y] = "absent" => docker'.container[y] = "absent"

LEMMA RunKeeps ==
    ASSUME IInv, RunFrame
    PROVE  SetupKnown' /\ Mapped' /\ DestroyKnown' /\ Torn' /\ \A u : Made(u) \subseteq Made(u)'
<1>1. \A u : Made(u) \subseteq Made(u)'
  BY DEF Made, RunFrame
<1>2. SetupKnown'
  BY DEF IInv, SetupKnown, RunFrame
<1>3. Mapped'
  BY DEF IInv, Mapped, RunFrame
<1>4. DestroyKnown'
  BY <1>1 DEF IInv, DestroyKnown, RunFrame
<1>5. Torn'
  <2> SUFFICES ASSUME NEW d \in DestroyReqs
               PROVE  Swept(d)' /\ Freed(d)'
    BY DEF Torn
  <2>1. Swept(d)'
    <3> SUFFICES ASSUME destroy[d].pc \in {"remove", "network", "forget", "unmap"}, ~destroy[d].failed,
                        NEW x \in Range(destroy[d].list)
                 PROVE  \/ destroy[d].pc = "remove" /\ x \in Range(destroy[d].todo)
                        \/ docker'.container[x] = "absent"
      BY DEF Swept, RunFrame
    <3>1. x \in Made(destroy[d].stage)
      BY DEF IInv, DestroyKnown
    <3>2. \/ destroy[d].pc = "remove" /\ x \in Range(destroy[d].todo)
          \/ docker.container[x] = "absent"
      BY DEF IInv, Torn, Swept
    <3>3. QED
      BY <3>1, <3>2 DEF Made, RunFrame
  <2>2. Freed(d)'
    <3> SUFFICES ASSUME Whole(d)', destroy[d].pc \in {"network", "forget", "unmap"}
                 PROVE  Whole(d)
      BY DEF IInv, Torn, Freed, RunFrame
    <3>1. destroy[d].stage # None
      BY DEF IInv, TypeOK
    <3>2. Covered(d)
      <4> SUFFICES ASSUME NEW x \in Steps, run[x].stage = destroy[d].stage
                   PROVE  x \in Range(destroy[d].list)
        BY DEF Covered
      <4>1. run[x].pc # "idle"
        BY <3>1 DEF IInv, RunKnown
      <4>2. run'[x].stage = destroy'[d].stage
        BY <4>1 DEF RunFrame
      <4>3. QED
        BY <4>2 DEF Whole, Covered, RunFrame
    <3>3. QED
      BY <3>2 DEF Whole, Alone, RunFrame
  <2>3. QED
    BY <2>1, <2>2
<1>6. QED
  BY <1>1, <1>2, <1>3, <1>4, <1>5

LEMMA StepArrivesInv ==
    ASSUME IInv, NEW x \in Steps, NEW id \in StageIds, StepArrives(x, id)
    PROVE  IInv'
<1>1. /\ run[x].pc = "idle" /\ run[x].stage = None
      /\ run'[x].stage = stages[id] /\ run'[x].result = run[x].result
      /\ run'[x].pc = IF stages[id] = None THEN "refused" ELSE "create"
      /\ \A y \in Steps \ {x} : run'[y] = run[y]
  BY DEF StepArrives, IInv, TypeOK, RunKnown
<1>2. TypeOK'
  <2>1. stages[id] \in SetupReqs \cup {None}
    BY DEF IInv, TypeOK
  <2>2. run' \in [Steps -> [pc : {"idle", "refused", "create", "record", "start", "wait", "done"},
                            stage : SetupReqs \cup {None}, result : {"none", "error", "exited"}]]
    <3> DEFINE pc == IF stages[id] = None THEN "refused" ELSE "create"
               moved == [run[x] EXCEPT !.stage = stages[id], !.pc = pc]
               Runs == [pc : {"idle", "refused", "create", "record", "start", "wait", "done"},
                        stage : SetupReqs \cup {None}, result : {"none", "error", "exited"}]
    <3>1. run[x] \in Runs /\ run \in [Steps -> Runs]
      BY DEF IInv, TypeOK
    <3>2. pc \in {"idle", "refused", "create", "record", "start", "wait", "done"}
      OBVIOUS
    <3>3. run' = [run EXCEPT ![x] = moved]
      BY DEF StepArrives
    <3> HIDE DEF pc
    <3>4. moved \in Runs
      BY <2>1, <3>1, <3>2
    <3>5. QED
      BY <3>1, <3>3, <3>4
  <2>3. \A y \in Steps : run'[y].pc \notin {"idle", "refused"} => run'[y].stage # None
    BY <1>1 DEF IInv, TypeOK
  <2>4. QED
    BY <2>2, <2>3 DEF StepArrives, IInv, TypeOK
<1>3. RunFrame
  BY <1>1 DEF StepArrives, RunFrame
<1>4. RunKnown'
  BY <1>1 DEF StepArrives, IInv, RunKnown
<1>5. ListsOwn'
  BY <1>3, RunKeeps DEF StepArrives, IInv, ListsOwn
<1>6. QED
  BY <1>2, <1>3, <1>4, <1>5, RunKeeps DEF IInv

\* A run that goes on keeps its stage; only one that is done has a result.
LEMMA RunMoves ==
    ASSUME IInv, NEW x \in Steps, NEW from,
           NEW to \in {"idle", "refused", "create", "record", "start", "wait", "done"},
           from \notin {"idle", "refused", "done"}, RunMove(x, from, to)
    PROVE  /\ run' \in [Steps -> [pc : {"idle", "refused", "create", "record", "start", "wait", "done"},
                            stage : SetupReqs \cup {None}, result : {"none", "error", "exited"}]]
           /\ run[x].pc = from /\ run'[x].pc = to
           /\ run[x].stage \in SetupReqs /\ run'[x].stage = run[x].stage
           /\ run[x].result # "exited" /\ run'[x].result = run[x].result
           /\ \A y \in Steps \ {x} : run'[y] = run[y]
<1>1. run[x] \in [pc : {"idle", "refused", "create", "record", "start", "wait", "done"},
                  stage : SetupReqs \cup {None}, result : {"none", "error", "exited"}]
  BY DEF IInv, TypeOK
<1>2. [run[x] EXCEPT !.pc = to]
         \in [pc : {"idle", "refused", "create", "record", "start", "wait", "done"},
              stage : SetupReqs \cup {None}, result : {"none", "error", "exited"}]
  BY <1>1
<1>3. run' = [run EXCEPT ![x] = [run[x] EXCEPT !.pc = to]]
  BY DEF RunMove
<1>4. run' \in [Steps -> [pc : {"idle", "refused", "create", "record", "start", "wait", "done"},
                            stage : SetupReqs \cup {None}, result : {"none", "error", "exited"}]]
  BY <1>2, <1>3 DEF IInv, TypeOK
<1>5. run[x].pc = from /\ run[x].stage \in SetupReqs /\ run[x].result # "exited"
  BY <1>1 DEF RunMove, IInv, TypeOK, RunKnown
<1>6. /\ run'[x] = [run[x] EXCEPT !.pc = to]
      /\ \A y \in Steps \ {x} : run'[y] = run[y]
  BY <1>3 DEF IInv, TypeOK
<1>7. QED
  BY <1>1, <1>4, <1>5, <1>6

\* A run that goes on with a container it is past making, or is making.
LEMMA RunGoesOn ==
    ASSUME IInv, NEW x \in Steps, Create(x) \/ ConnectFails(x) \/ Record(x) \/ Start(x)
    PROVE  IInv'
<1> DEFINE Dockers == [container : [Steps -> {"absent", "created", "running", "exited"}],
                       volumes : SUBSET StageIds, networks : SUBSET StageIds]
           Engines == [SetupReqs -> [configured : BOOLEAN, containers : Seq(Steps)]]
<1>1. /\ run' \in [Steps -> [pc : {"idle", "refused", "create", "record", "start", "wait", "done"},
                            stage : SetupReqs \cup {None}, result : {"none", "error", "exited"}]]
      /\ run[x].pc \in {"create", "record", "start"}
      /\ run[x].pc = "create" <=> run'[x].pc = "record"
      /\ run'[x].pc \in {"record", "start", "wait"}
      /\ run[x].stage \in SetupReqs /\ run'[x].stage = run[x].stage
      /\ run[x].result # "exited" /\ run'[x].result = run[x].result
      /\ \A y \in Steps \ {x} : run'[y] = run[y]
  <2>1. CASE Create(x)
    BY <2>1, RunMoves DEF Create
  <2>2. CASE ConnectFails(x) \/ Record(x)
    BY <2>2, RunMoves DEF ConnectFails, Record
  <2>3. CASE Start(x)
    BY <2>3, RunMoves DEF Start
  <2>4. QED
    BY <2>1, <2>2, <2>3
<1>2. stages' = stages /\ setup' = setup /\ destroy' = destroy
  BY DEF Create, ConnectFails, Record, Start
<1>3. /\ docker' \in Dockers
      /\ docker'.volumes = docker.volumes /\ docker'.networks = docker.networks
      /\ \A y \in Steps \ {x} : docker'.container[y] = docker.container[y]
      /\ run[x].pc # "create" /\ docker.container[x] = "absent" => docker'.container[x] = "absent"
  <2>1. docker \in Dockers
    BY DEF IInv, TypeOK
  <2>2. CASE Create(x)
    BY <2>1, <2>2 DEF Create, RunMove
  <2>3. CASE Start(x)
    BY <2>1, <2>3 DEF Start
  <2>4. CASE ConnectFails(x) \/ Record(x)
    <3>1. docker' = docker
      BY <2>4 DEF ConnectFails, Record
    <3>2. QED
      BY <2>1, <3>1
  <2>5. QED
    BY <2>2, <2>3, <2>4
<1>4. /\ engine' \in Engines
      /\ \A v \in SetupReqs : engine'[v].configured = engine[v].configured
      /\ \A v \in SetupReqs \ {run[x].stage} : engine'[v].containers = engine[v].containers
      /\ \A y \in Range(engine'[run[x].stage].containers) :
            y \in Range(engine[run[x].stage].containers) \/ (y = x /\ run'[x].pc = "start")
  <2>1. engine \in Engines
    BY DEF IInv, TypeOK
  <2>2. CASE Record(x)
    <3> DEFINE u == run[x].stage
               l == Append(engine[u].containers, x)
    <3>1. u \in SetupReqs /\ run'[x].pc = "start"
      BY <1>1, <2>2, RunMoves DEF Record
    <3>2. engine[u].containers \in Seq(Steps) /\ l \in Seq(Steps)
      BY <2>1, <3>1
    <3>3. engine' = [engine EXCEPT ![u] = [engine[u] EXCEPT !.containers = l]]
      BY <2>2 DEF Record
    <3>4. \A y \in Range(l) : y = x \/ y \in Range(engine[u].containers)
      BY <3>2, RangeOfAppend
    <3>5. [engine[u] EXCEPT !.containers = l] \in [configured : BOOLEAN, containers : Seq(Steps)]
      BY <2>1, <3>1, <3>2
    <3> HIDE DEF u, l
    <3>6. engine'[u].containers = l
      BY <2>1, <3>1, <3>3
    <3>7. \A v \in SetupReqs : engine'[v].configured = engine[v].configured
      BY <2>1, <3>1, <3>3
    <3>8. \A v \in SetupReqs \ {u} : engine'[v].containers = engine[v].containers
      BY <2>1, <3>1, <3>3
    <3>9. engine' \in Engines
      BY <2>1, <3>1, <3>3, <3>5
    <3>10. QED
      BY <3>1, <3>4, <3>6, <3>7, <3>8, <3>9 DEF u
  <2>3. CASE Create(x) \/ ConnectFails(x) \/ Start(x)
    <3>1. engine' = engine
      BY <2>3 DEF Create, ConnectFails, Start
    <3>2. QED
      BY <2>1, <3>1
  <2>4. QED
    BY <2>2, <2>3
<1>5. TypeOK'
  <2>1. \A y \in Steps : run'[y].pc \notin {"idle", "refused"} => run'[y].stage # None
    <3>1. run'[x].stage # None
      BY <1>1, StageAssumption
    <3>2. \A y \in Steps \ {x} : run'[y].pc \notin {"idle", "refused"} => run'[y].stage # None
      BY <1>1 DEF IInv, TypeOK
    <3>3. QED
      BY <3>1, <3>2
  <2>2. QED
    BY <1>1, <1>2, <1>3, <1>4, <2>1 DEF IInv, TypeOK
<1>6. RunFrame
  BY <1>1, <1>2, <1>3, <1>4 DEF RunFrame
<1>7. RunKnown'
  BY <1>1, <1>3 DEF IInv, RunKnown
<1>8. ListsOwn'
  <2> SUFFICES ASSUME NEW v \in SetupReqs, NEW y \in Range(engine'[v].containers)
               PROVE  y \in Made(v)'
    BY DEF ListsOwn
  <2>1. y \in Range(engine[v].containers) \/ (v = run[x].stage /\ y = x /\ run'[x].pc = "start")
    BY <1>4
  <2>2. CASE y \in Range(engine[v].containers)
    BY <1>6, <2>2, RunKeeps DEF IInv, ListsOwn
  <2>3. CASE v = run[x].stage /\ y = x /\ run'[x].pc = "start"
    BY <1>1, <2>3 DEF Made
  <2>4. QED
    BY <2>1, <2>2, <2>3
<1>9. QED
  BY <1>5, <1>6, <1>7, <1>8, RunKeeps DEF IInv

\* A run that returns has followed its container to the exit it reports.
LEMMA RunReturnsInv ==
    ASSUME IInv, NEW x \in Steps, WaitRetry(x) \/ Gone(x) \/ RunFails(x) \/ DoneUnheard(x)
    PROVE  IInv'
<1> DEFINE Dockers == [container : [Steps -> {"absent", "created", "running", "exited"}],
                       volumes : SUBSET StageIds, networks : SUBSET StageIds]
<1>1. docker \in Dockers
  BY DEF IInv, TypeOK
<1>2. PICK result \in {"error", "exited"} :
        /\ RunReturns(x, result)
        /\ result = "exited" => docker.container[x] = "exited" /\ docker' = docker
        /\ run[x].pc \in {"create", "start", "wait"}
  <2>1. CASE WaitRetry(x)
    BY <2>1 DEF WaitRetry
  <2>2. CASE Gone(x) \/ RunFails(x)
    BY <2>2 DEF Gone, RunFails
  <2>3. CASE DoneUnheard(x)
    BY <2>3 DEF DoneUnheard
  <2>4. QED
    BY <2>1, <2>2, <2>3
<1>3. UNCHANGED <<stages, setup, engine, destroy>>
  BY DEF WaitRetry, Gone, RunFails, DoneUnheard
<1>4. /\ docker' \in Dockers
      /\ docker'.volumes = docker.volumes /\ docker'.networks = docker.networks
      /\ \A y \in Steps \ {x} : docker'.container[y] = docker.container[y]
      /\ run[x].pc # "create" /\ docker.container[x] = "absent" => docker'.container[x] = "absent"
  <2>1. CASE WaitRetry(x) \/ Gone(x) \/ RunFails(x)
    <3>1. docker' = docker
      BY <2>1 DEF WaitRetry, Gone, RunFails
    <3>2. QED
      BY <1>1, <3>1
  <2>2. CASE DoneUnheard(x)
    <3>1. PICK state \in {"created", "running"} :
            /\ docker' = [docker EXCEPT !.container[x] = state]
            /\ run[x].pc = "create" \/ docker.container[x] # "absent"
      BY <2>2 DEF DoneUnheard
    <3>2. QED
      BY <1>1, <3>1
  <2>3. QED
    BY <2>1, <2>2
<1>5. run' \in [Steps -> [pc : {"idle", "refused", "create", "record", "start", "wait", "done"},
                          stage : SetupReqs \cup {None}, result : {"none", "error", "exited"}]]
  <2> DEFINE returned == [run[x] EXCEPT !.pc = "done", !.result = result]
             Runs == [pc : {"idle", "refused", "create", "record", "start", "wait", "done"},
                      stage : SetupReqs \cup {None}, result : {"none", "error", "exited"}]
  <2>1. run[x] \in Runs /\ run \in [Steps -> Runs]
    BY DEF IInv, TypeOK
  <2>2. returned \in Runs
    BY <2>1
  <2>3. run' = [run EXCEPT ![x] = returned]
    BY <1>2 DEF RunReturns
  <2>4. QED
    BY <2>1, <2>2, <2>3
<1>6. /\ run'[x].pc = "done" /\ run'[x].result = result /\ run'[x].stage = run[x].stage
      /\ \A y \in Steps \ {x} : run'[y] = run[y]
  BY <1>2 DEF RunReturns, IInv, TypeOK
<1>7. TypeOK'
  <2>1. \A y \in Steps : run'[y].pc \notin {"idle", "refused"} => run'[y].stage # None
    <3>1. run[x].stage # None
      BY <1>2 DEF IInv, TypeOK
    <3>2. \A y \in Steps \ {x} : run'[y].pc \notin {"idle", "refused"} => run'[y].stage # None
      BY <1>6 DEF IInv, TypeOK
    <3>3. QED
      BY <1>6, <3>1, <3>2
  <2>2. QED
    BY <1>3, <1>4, <1>5, <2>1 DEF IInv, TypeOK
<1>8. RunFrame
  <2>1. ASSUME NEW y \in Steps
        PROVE  /\ run[y].pc # "idle" => run'[y].stage = run[y].stage
               /\ run[y].pc \in {"start", "wait", "done"} =>
                     /\ run'[y].pc \in {"start", "wait", "done"}
                     /\ docker.container[y] = "absent" => docker'.container[y] = "absent"
    <3>1. CASE y = x
      BY <1>4, <1>6, <3>1
    <3>2. CASE y # x
      BY <1>4, <1>6, <3>2
    <3>3. QED
      BY <3>1, <3>2
  <2>2. QED
    BY <1>3, <1>4, <2>1 DEF RunFrame
<1>9. RunKnown'
  <2> SUFFICES ASSUME NEW y \in Steps
               PROVE  /\ run'[y].pc = "idle" => run'[y].stage = None
                      /\ run'[y].result = "exited" =>
                            run'[y].pc = "done" /\ docker'.container[y] \in {"exited", "absent"}
    BY DEF RunKnown
  <2>1. CASE y = x
    BY <1>2, <1>6, <2>1
  <2>2. CASE y # x
    BY <1>4, <1>6, <2>2 DEF IInv, RunKnown
  <2>3. QED
    BY <2>1, <2>2
<1>10. ListsOwn'
  BY <1>3, <1>8, RunKeeps DEF IInv, ListsOwn
<1>11. QED
  BY <1>7, <1>8, <1>9, <1>10, RunKeeps DEF IInv

LEMMA ExitsInv ==
    ASSUME IInv, NEW x \in Steps, Exits(x)
    PROVE  IInv'
<1>1. UNCHANGED <<stages, setup, engine, run, destroy>>
  BY DEF Exits
<1>2. TypeOK'
  BY <1>1 DEF Exits, IInv, TypeOK
<1>3. /\ docker'.volumes = docker.volumes /\ docker'.networks = docker.networks
      /\ docker.container[x] = "running" /\ docker'.container[x] = "exited"
      /\ \A y \in Steps \ {x} : docker'.container[y] = docker.container[y]
  BY DEF Exits, IInv, TypeOK
<1>4. RunFrame
  BY <1>1, <1>3 DEF RunFrame
<1>5. RunKnown'
  BY <1>1, <1>3 DEF IInv, RunKnown
<1>6. ListsOwn'
  BY <1>1, <1>4, RunKeeps DEF IInv, ListsOwn
<1>7. QED
  BY <1>2, <1>4, <1>5, <1>6, RunKeeps DEF IInv

-----------------------------------------------------------------------------
(* The teardowns.  One teardown takes nothing from another, from a setup or  *)
(* from a run but what the daemon and the map had; what it says of itself is *)
(* looked at step by step.                                                   *)

DestroyFrame(d) ==
    /\ setup' = setup /\ run' = run
    /\ \A s \in StageIds : stages'[s] \in {stages[s], None}
    /\ \A e \in DestroyReqs \ {d} : destroy'[e] = destroy[e]
    /\ docker'.volumes \subseteq docker.volumes /\ docker'.networks \subseteq docker.networks
    /\ \A v \in SetupReqs :
          /\ engine'[v].configured = engine[v].configured
          /\ Range(engine'[v].containers) \subseteq Range(engine[v].containers)
    /\ \A y \in Steps :
          docker.container[y] \in {"exited", "absent"} =>
             docker'.container[y] \in {docker.container[y], "absent"}

\* What the invariant says of one teardown.
OwnWork(d) ==
    LET u == destroy[d].stage IN
    /\ destroy[d].pc \notin {"idle", "notfound", "done"} =>
          destroy[d].id \in StageIds /\ setup[u].id = destroy[d].id /\ setup[u].pc # "idle"
    /\ destroy[d].pc \notin {"idle", "notfound", "done"} /\ destroy[d].ready =>
          destroy[d].configured /\ setup[u].pc = "ready"
    /\ destroy[d].pc = "idle" =>
          destroy[d].list = <<>> /\ destroy[d].todo = <<>> /\ ~destroy[d].ready
    /\ Range(destroy[d].list) \subseteq Made(u)
    /\ Range(destroy[d].todo) \subseteq Made(u)

LEMMA DestroyKeeps ==
    ASSUME IInv, NEW d \in DestroyReqs, DestroyFrame(d), TypeOK',
           OwnWork(d)', Swept(d)', Freed(d)'
    PROVE  IInv'
<1>1. \A u : Made(u)' = Made(u)
  BY DEF Made, DestroyFrame
<1>2. SetupKnown'
  BY DEF IInv, SetupKnown, DestroyFrame
<1>3. Mapped'
  BY DEF IInv, Mapped, DestroyFrame
<1>4. RunKnown'
  BY DEF IInv, RunKnown, DestroyFrame
<1>5. ListsOwn'
  BY <1>1 DEF IInv, ListsOwn, DestroyFrame
<1>6. ASSUME NEW e \in DestroyReqs \ {d}
      PROVE  OwnWork(e)' /\ Swept(e)' /\ Freed(e)'
  <2>1. destroy'[e] = destroy[e] /\ setup' = setup /\ run' = run
    BY DEF DestroyFrame
  <2>2. OwnWork(e)'
    BY <1>1, <2>1 DEF IInv, DestroyKnown, OwnWork
  <2>3. Swept(e)'
    <3>1. \A x \in Range(destroy[e].list) : x \in Steps
      BY RangeInSet DEF IInv, TypeOK
    <3>2. QED
      BY <2>1, <3>1 DEF IInv, Torn, Swept, DestroyFrame
  <2>4. Freed(e)'
    <3>1. Whole(e)' => Whole(e)
      BY <2>1 DEF Whole, Covered, Alone
    <3>2. QED
      BY <2>1, <3>1 DEF IInv, Torn, Freed, DestroyFrame
  <2>5. QED
    BY <2>2, <2>3, <2>4
<1>7. DestroyKnown'
  BY <1>6 DEF DestroyKnown, OwnWork
<1>8. Torn'
  BY <1>6 DEF Torn
<1>9. QED
  BY <1>2, <1>3, <1>4, <1>5, <1>7, <1>8 DEF IInv

DestroyRecord ==
    [pc : {"idle", "notfound", "config", "snapshot", "kill", "remove", "network", "forget", "unmap",
           "done"},
     stage : SetupReqs \cup {None}, id : StageIds \cup {None},
     configured : BOOLEAN, ready : BOOLEAN, list : Seq(Steps), todo : Seq(Steps), failed : BOOLEAN]

Dockers == [container : [Steps -> {"absent", "created", "running", "exited"}],
            volumes : SUBSET StageIds, networks : SUBSET StageIds]

LEMMA DestroyMoves ==
    ASSUME IInv, NEW d \in DestroyReqs, NEW r \in DestroyRecord,
           destroy' = [destroy EXCEPT ![d] = r]
    PROVE  /\ destroy' \in [DestroyReqs -> DestroyRecord]
           /\ destroy'[d] = r
           /\ \A e \in DestroyReqs \ {d} : destroy'[e] = destroy[e]
<1>1. destroy \in [DestroyReqs -> DestroyRecord]
  BY DEF IInv, TypeOK, DestroyRecord
<1>2. QED
  BY <1>1

LEMMA DestroyTyped ==
    ASSUME IInv, NEW d \in DestroyReqs, NEW r \in DestroyRecord,
           destroy' = [destroy EXCEPT ![d] = r],
           r.pc \notin {"idle", "notfound"} => r.stage # None,
           stages' \in [StageIds -> SetupReqs \cup {None}],
           engine' \in [SetupReqs -> [configured : BOOLEAN, containers : Seq(Steps)]],
           docker' \in Dockers, setup' = setup, run' = run
    PROVE  TypeOK'
<1>1. /\ destroy' \in [DestroyReqs -> DestroyRecord]
      /\ destroy'[d] = r
      /\ \A e \in DestroyReqs \ {d} : destroy'[e] = destroy[e]
  BY DestroyMoves
<1>2. \A e \in DestroyReqs : destroy'[e].pc \notin {"idle", "notfound"} => destroy'[e].stage # None
  <2>1. \A e \in DestroyReqs \ {d} :
           destroy'[e].pc \notin {"idle", "notfound"} => destroy'[e].stage # None
    BY <1>1 DEF IInv, TypeOK
  <2>2. QED
    BY <1>1, <2>1
<1>3. QED
  BY <1>1, <1>2 DEF IInv, TypeOK, DestroyRecord, Dockers

\* What a teardown knows of itself at any of its steps.
LEMMA DestroyHas ==
    ASSUME IInv, NEW d \in DestroyReqs
    PROVE  /\ destroy[d] \in DestroyRecord /\ docker \in Dockers
           /\ stages \in [StageIds -> SetupReqs \cup {None}]
           /\ engine \in [SetupReqs -> [configured : BOOLEAN, containers : Seq(Steps)]]
           /\ destroy[d].pc \notin {"idle", "notfound"} =>
                 destroy[d].stage \in SetupReqs /\ destroy[d].stage # None
           /\ OwnWork(d) /\ Swept(d) /\ Freed(d)
<1>1. destroy[d] \in DestroyRecord /\ docker \in Dockers
  BY DEF IInv, TypeOK, DestroyRecord, Dockers
<1>2. OwnWork(d) /\ Swept(d) /\ Freed(d)
  BY DEF IInv, DestroyKnown, OwnWork, Torn
<1>3. destroy[d].pc \notin {"idle", "notfound"} =>
         destroy[d].stage \in SetupReqs /\ destroy[d].stage # None
  BY DEF IInv, TypeOK
<1>4. QED
  BY <1>1, <1>2, <1>3 DEF IInv, TypeOK

LEMMA DestroyArrivesInv ==
    ASSUME IInv, NEW d \in DestroyReqs, NEW id \in StageIds, DestroyArrives(d, id)
    PROVE  IInv'
<1> DEFINE pc == IF stages[id] = None THEN "notfound" ELSE "config"
           r == [destroy[d] EXCEPT !.id = id, !.stage = stages[id], !.pc = pc]
<1>1. destroy' = [destroy EXCEPT ![d] = r] /\ UNCHANGED <<stages, setup, engine, docker, run>>
  BY DEF DestroyArrives
<1>2. /\ destroy[d] \in DestroyRecord /\ docker \in Dockers
      /\ stages \in [StageIds -> SetupReqs \cup {None}]
      /\ engine \in [SetupReqs -> [configured : BOOLEAN, containers : Seq(Steps)]]
  BY DestroyHas
<1>3. destroy[d].pc = "idle"
  BY DEF DestroyArrives
<1>4. pc \in {"notfound", "config"} /\ (pc = "config" <=> stages[id] # None)
  OBVIOUS
<1>5. stages[id] \in SetupReqs \cup {None}
  BY <1>2
<1> HIDE DEF pc
<1>6. r \in DestroyRecord
  BY <1>2, <1>4, <1>5 DEF DestroyRecord
<1>7. /\ r.pc = pc /\ r.id = id /\ r.stage = stages[id] /\ r.ready = destroy[d].ready
      /\ r.list = destroy[d].list /\ r.todo = destroy[d].todo
  BY <1>2 DEF DestroyRecord
<1> HIDE DEF r
<1>8. TypeOK'
  BY <1>1, <1>2, <1>4, <1>6, <1>7, DestroyTyped
<1>9. /\ destroy'[d] = r /\ \A e \in DestroyReqs \ {d} : destroy'[e] = destroy[e]
  BY <1>1, <1>6, DestroyMoves
<1>10. DestroyFrame(d)
  BY <1>1, <1>2, <1>9 DEF DestroyFrame, Dockers
<1>11. OwnWork(d)'
  <2>1. destroy[d].list = <<>> /\ destroy[d].todo = <<>> /\ ~destroy[d].ready
    BY <1>3, DestroyHas DEF OwnWork
  <2>2. pc = "config" => setup[stages[id]].id = id /\ setup[stages[id]].pc # "idle"
    BY <1>4 DEF IInv, Mapped
  <2>3. QED
    BY <1>1, <1>4, <1>7, <1>9, <2>1, <2>2, RangeOfEmpty DEF OwnWork
<1>12. Swept(d)' /\ Freed(d)'
  BY <1>4, <1>7, <1>9 DEF Swept, Freed
<1>13. QED
  BY <1>8, <1>10, <1>11, <1>12, DestroyKeeps

LEMMA ReadConfigInv ==
    ASSUME IInv, NEW d \in DestroyReqs, ReadConfig(d)
    PROVE  IInv'
<1> DEFINE u == destroy[d].stage
           c == engine[u].configured
           ok == setup[u].pc = "ready"
           r == [destroy[d] EXCEPT !.pc = "snapshot", !.configured = c, !.ready = ok]
<1>1. /\ destroy' = [destroy EXCEPT ![d] = r] /\ UNCHANGED <<stages, setup, engine, docker, run>>
      /\ destroy[d].pc = "config"
  BY DEF ReadConfig, At
<1>2. /\ destroy[d] \in DestroyRecord /\ docker \in Dockers
      /\ stages \in [StageIds -> SetupReqs \cup {None}]
      /\ engine \in [SetupReqs -> [configured : BOOLEAN, containers : Seq(Steps)]]
      /\ u \in SetupReqs /\ u # None /\ OwnWork(d)
  BY <1>1, DestroyHas
<1>3. c \in BOOLEAN /\ ok \in BOOLEAN
  BY <1>2
<1>4. ok => c
  BY <1>2 DEF IInv, SetupKnown
<1>5. ok <=> setup[u].pc = "ready"
  OBVIOUS
<1> HIDE DEF c, ok
<1>6. r \in DestroyRecord
  BY <1>2, <1>3 DEF DestroyRecord
<1>7. /\ r.pc = "snapshot" /\ r.id = destroy[d].id /\ r.stage = u /\ r.ready = ok
      /\ r.configured = c /\ r.list = destroy[d].list /\ r.todo = destroy[d].todo
  BY <1>2 DEF DestroyRecord
<1> HIDE DEF r
<1>8. TypeOK'
  BY <1>1, <1>2, <1>6, <1>7, DestroyTyped
<1>9. /\ destroy'[d] = r /\ \A e \in DestroyReqs \ {d} : destroy'[e] = destroy[e]
  BY <1>1, <1>6, DestroyMoves
<1>10. DestroyFrame(d)
  BY <1>1, <1>2, <1>9 DEF DestroyFrame, Dockers
<1>11. OwnWork(d)'
  <2>1. \A v : Made(v)' = Made(v)
    BY <1>1 DEF Made
  <2>2. destroy[d].id \in StageIds /\ setup[u].id = destroy[d].id /\ setup[u].pc # "idle"
    BY <1>1, <1>2 DEF OwnWork
  <2>3. Range(destroy[d].list) \subseteq Made(u) /\ Range(destroy[d].todo) \subseteq Made(u)
    BY <1>2 DEF OwnWork
  <2>4. setup' = setup
    BY <1>1
  <2>5. QED
    BY <1>4, <1>5, <1>7, <1>9, <2>1, <2>2, <2>3, <2>4 DEF OwnWork
<1>12. Swept(d)' /\ Freed(d)'
  BY <1>7, <1>9 DEF Swept, Freed
<1>13. QED
  BY <1>8, <1>10, <1>11, <1>12, DestroyKeeps

LEMMA SnapshotInv ==
    ASSUME IInv, NEW d \in DestroyReqs, Snapshot(d)
    PROVE  IInv'
<1> DEFINE u == destroy[d].stage
           l == engine[u].containers
           c == destroy[d].configured
           ok == destroy[d].ready
           r == [destroy[d] EXCEPT !.pc = "kill", !.list = l, !.todo = l]
<1>1. /\ destroy' = [destroy EXCEPT ![d] = r] /\ UNCHANGED <<stages, setup, engine, docker, run>>
      /\ destroy[d].pc = "snapshot"
  BY DEF Snapshot, At
<1>2. /\ destroy[d] \in DestroyRecord /\ docker \in Dockers
      /\ stages \in [StageIds -> SetupReqs \cup {None}]
      /\ engine \in [SetupReqs -> [configured : BOOLEAN, containers : Seq(Steps)]]
      /\ u \in SetupReqs /\ u # None /\ OwnWork(d)
  BY <1>1, DestroyHas
<1>3. l \in Seq(Steps)
  BY <1>2
<1>4. Range(l) \subseteq Made(u)
  BY <1>2 DEF IInv, ListsOwn
<1>5. ok => c /\ setup[u].pc = "ready"
  BY <1>1, <1>2 DEF OwnWork
<1> HIDE DEF l
<1>6. r \in DestroyRecord
  BY <1>2, <1>3 DEF DestroyRecord
<1>7. /\ r.pc = "kill" /\ r.id = destroy[d].id /\ r.stage = u /\ r.ready = ok /\ r.configured = c
      /\ r.list = l /\ r.todo = l
  BY <1>2 DEF DestroyRecord
<1> HIDE DEF r
<1>8. TypeOK'
  BY <1>1, <1>2, <1>6, <1>7, DestroyTyped
<1>9. /\ destroy'[d] = r /\ \A e \in DestroyReqs \ {d} : destroy'[e] = destroy[e]
  BY <1>1, <1>6, DestroyMoves
<1>10. DestroyFrame(d)
  BY <1>1, <1>2, <1>9 DEF DestroyFrame, Dockers
<1>11. OwnWork(d)'
  <2>1. \A v : Made(v)' = Made(v)
    BY <1>1 DEF Made
  <2>2. destroy[d].id \in StageIds /\ setup[u].id = destroy[d].id /\ setup[u].pc # "idle"
    BY <1>1, <1>2 DEF OwnWork
  <2>3. setup' = setup
    BY <1>1
  <2>4. QED
    BY <1>4, <1>5, <1>7, <1>9, <2>1, <2>2, <2>3 DEF OwnWork
<1>12. Swept(d)' /\ Freed(d)'
  BY <1>7, <1>9 DEF Swept, Freed
<1>13. QED
  BY <1>8, <1>10, <1>11, <1>12, DestroyKeeps

(* The steps after the snapshot: the teardown keeps its id, its stage and its *)
(* list, and takes from the daemon; what is left to show is what was swept    *)
(* and freed.                                                                 *)

UnderWay == {"kill", "remove", "network", "forget", "unmap"}

LEMMA DestroyGoesOn ==
    ASSUME IInv, NEW d \in DestroyReqs, NEW pc \in UnderWay, NEW todo \in Seq(Steps),
           NEW failed \in BOOLEAN,
           destroy[d].pc \in UnderWay, setup' = setup, run' = run, stages' = stages,
           destroy' = [destroy EXCEPT ![d] = [destroy[d] EXCEPT !.pc = pc, !.todo = todo, !.failed = failed]],
           \A x \in Range(todo) : x \in Range(destroy[d].todo) \/ x \in Range(destroy[d].list),
           engine' \in [SetupReqs -> [configured : BOOLEAN, containers : Seq(Steps)]],
           \A v \in SetupReqs : /\ engine'[v].configured = engine[v].configured
                                /\ Range(engine'[v].containers) \subseteq Range(engine[v].containers),
           docker' \in Dockers,
           docker'.volumes \subseteq docker.volumes, docker'.networks \subseteq docker.networks,
           \A y \in Steps : docker.container[y] \in {"exited", "absent"} =>
                               docker'.container[y] \in {docker.container[y], "absent"},
           LET moved == [destroy[d] EXCEPT !.pc = pc, !.todo = todo, !.failed = failed]
           IN  destroy'[d] = moved => Swept(d)' /\ Freed(d)'
    PROVE  IInv'
<1> DEFINE r == [destroy[d] EXCEPT !.pc = pc, !.todo = todo, !.failed = failed]
<1>1. /\ destroy[d] \in DestroyRecord
      /\ stages \in [StageIds -> SetupReqs \cup {None}]
      /\ destroy[d].stage \in SetupReqs /\ destroy[d].stage # None /\ OwnWork(d)
  BY DestroyHas DEF UnderWay
<1>2. r \in DestroyRecord
  BY <1>1 DEF DestroyRecord, UnderWay
<1>3. /\ r.pc = pc /\ r.id = destroy[d].id /\ r.stage = destroy[d].stage /\ r.ready = destroy[d].ready
      /\ r.configured = destroy[d].configured /\ r.list = destroy[d].list /\ r.todo = todo
  BY <1>1 DEF DestroyRecord
<1>4. destroy' = [destroy EXCEPT ![d] = r] /\ (destroy'[d] = r => Swept(d)' /\ Freed(d)')
  OBVIOUS
<1> HIDE DEF r
<1>5. TypeOK'
  BY <1>1, <1>2, <1>3, <1>4, DestroyTyped
<1>6. /\ destroy'[d] = r /\ \A e \in DestroyReqs \ {d} : destroy'[e] = destroy[e]
  BY <1>2, <1>4, DestroyMoves
<1>7. DestroyFrame(d)
  BY <1>6 DEF DestroyFrame
<1>8. OwnWork(d)'
  <2>1. \A v : Made(v)' = Made(v)
    BY DEF Made
  <2>2. pc # "idle" /\ destroy[d].pc \notin {"idle", "notfound", "done"}
    BY DEF UnderWay
  <2>3. QED
    BY <1>1, <1>3, <1>6, <2>1, <2>2 DEF OwnWork
<1>9. QED
  BY <1>4, <1>5, <1>6, <1>7, <1>8, DestroyKeeps

LEMMA SameFields ==
    ASSUME NEW r \in DestroyRecord, NEW t, NEW f
    PROVE  /\ [r EXCEPT !.todo = t] = [r EXCEPT !.pc = r.pc, !.todo = t, !.failed = r.failed]
           /\ [r EXCEPT !.todo = t, !.failed = f] = [r EXCEPT !.pc = r.pc, !.todo = t, !.failed = f]
           /\ \A p : /\ [r EXCEPT !.pc = p, !.todo = t]
                           = [r EXCEPT !.pc = p, !.todo = t, !.failed = r.failed]
                     /\ [r EXCEPT !.pc = p, !.failed = f]
                           = [r EXCEPT !.pc = p, !.todo = r.todo, !.failed = f]
BY DEF DestroyRecord

\* A teardown of a whole stage is one until it ends.
LEMMA WholeSince ==
    ASSUME NEW d \in DestroyReqs, setup' = setup, run' = run, Whole(d)',
           destroy'[d].list = destroy[d].list, destroy'[d].stage = destroy[d].stage,
           destroy'[d].ready = destroy[d].ready, destroy[d].failed => destroy'[d].failed
    PROVE  Whole(d)
BY DEF Whole, Covered, Alone

\* A kill ends a container that runs, and no other.
LEMMA KillInv ==
    ASSUME IInv, NEW d \in DestroyReqs, Kill(d)
    PROVE  IInv'
<1> DEFINE t == destroy[d].todo
           x == Head(t)
           rest == Tail(t)
<1>1. /\ destroy' = [destroy EXCEPT ![d] = [destroy[d] EXCEPT !.todo = rest]]
      /\ UNCHANGED <<stages, setup, engine, run>>
      /\ destroy[d].pc = "kill" /\ t # <<>>
      /\ \/ docker.container[x] = "running" /\ docker' = [docker EXCEPT !.container[x] = "exited"]
         \/ docker' = docker
  BY DEF Kill, At
<1>2. /\ destroy[d] \in DestroyRecord /\ docker \in Dockers /\ destroy[d].failed \in BOOLEAN
      /\ engine \in [SetupReqs -> [configured : BOOLEAN, containers : Seq(Steps)]]
      /\ t \in Seq(Steps)
  BY <1>1, DestroyHas DEF DestroyRecord
<1>3. /\ x \in Steps /\ rest \in Seq(Steps)
      /\ \A y \in Range(rest) : y \in Range(t)
  BY <1>1, <1>2, HeadTailProperties, TailInRange
<1> HIDE DEF x, rest
<1>4. destroy' = [destroy EXCEPT ![d] =
                     [destroy[d] EXCEPT !.pc = "kill", !.todo = rest, !.failed = destroy[d].failed]]
  <2>1. [destroy[d] EXCEPT !.todo = rest]
          = [destroy[d] EXCEPT !.pc = destroy[d].pc, !.todo = rest, !.failed = destroy[d].failed]
    BY <1>2, SameFields
  <2>2. QED
    BY <1>1, <2>1
<1>5. docker' \in Dockers /\ docker'.volumes = docker.volumes /\ docker'.networks = docker.networks
      /\ \A y \in Steps : docker.container[y] \in {"exited", "absent"} =>
                             docker'.container[y] \in {docker.container[y], "absent"}
  <2>1. CASE docker.container[x] = "running" /\ docker' = [docker EXCEPT !.container[x] = "exited"]
    BY <1>2, <1>3, <2>1 DEF Dockers
  <2>2. CASE docker' = docker
    BY <1>2, <2>2
  <2>3. QED
    BY <1>1, <2>1, <2>2
<1>6. ASSUME destroy'[d] = [destroy[d] EXCEPT !.pc = "kill", !.todo = rest, !.failed = destroy[d].failed]
      PROVE  Swept(d)' /\ Freed(d)'
  <2>1. destroy'[d].pc = "kill"
    BY <1>2, <1>6 DEF DestroyRecord
  <2>2. QED
    BY <2>1 DEF Swept, Freed
<1>7. QED
  BY <1>1, <1>2, <1>3, <1>4, <1>5, <1>6, DestroyGoesOn DEF UnderWay

LEMMA AllKilledInv ==
    ASSUME IInv, NEW d \in DestroyReqs, AllKilled(d)
    PROVE  IInv'
<1> DEFINE l == destroy[d].list
<1>1. /\ destroy' = [destroy EXCEPT ![d] = [destroy[d] EXCEPT !.pc = "remove", !.todo = l]]
      /\ UNCHANGED <<stages, setup, engine, docker, run>>
      /\ destroy[d].pc = "kill"
  BY DEF AllKilled, At
<1>2. /\ destroy[d] \in DestroyRecord /\ docker \in Dockers /\ destroy[d].failed \in BOOLEAN
      /\ engine \in [SetupReqs -> [configured : BOOLEAN, containers : Seq(Steps)]]
      /\ l \in Seq(Steps)
  BY <1>1, DestroyHas DEF DestroyRecord
<1>3. destroy' = [destroy EXCEPT ![d] =
                     [destroy[d] EXCEPT !.pc = "remove", !.todo = l, !.failed = destroy[d].failed]]
  BY <1>1, <1>2, SameFields
<1>4. ASSUME destroy'[d] = [destroy[d] EXCEPT !.pc = "remove", !.todo = l, !.failed = destroy[d].failed]
      PROVE  Swept(d)' /\ Freed(d)'
  <2>1. destroy'[d].pc = "remove" /\ destroy'[d].todo = l /\ destroy'[d].list = l
    BY <1>2, <1>4 DEF DestroyRecord
  <2>2. QED
    BY <2>1 DEF Swept, Freed
<1>5. QED
  BY <1>1, <1>2, <1>3, <1>4, DestroyGoesOn DEF UnderWay

\* A container that could be removed is gone, and the others are still to be removed or gone.
LEMMA RemoveContainerInv ==
    ASSUME IInv, NEW d \in DestroyReqs, NEW ok \in BOOLEAN, RemoveContainer(d, ok)
    PROVE  IInv'
<1> DEFINE t == destroy[d].todo
           x == Head(t)
           rest == Tail(t)
           failed == destroy[d].failed \/ ~ok
<1>1. /\ destroy' = [destroy EXCEPT ![d] = [destroy[d] EXCEPT !.todo = rest, !.failed = failed]]
      /\ UNCHANGED <<stages, setup, engine, run>>
      /\ destroy[d].pc = "remove" /\ t # <<>>
      /\ docker' = IF ok THEN [docker EXCEPT !.container[x] = "absent"] ELSE docker
  BY DEF RemoveContainer, At
<1>2. /\ destroy[d] \in DestroyRecord /\ docker \in Dockers /\ Swept(d)
      /\ engine \in [SetupReqs -> [configured : BOOLEAN, containers : Seq(Steps)]]
      /\ t \in Seq(Steps) /\ destroy[d].list \in Seq(Steps)
  BY <1>1, DestroyHas DEF DestroyRecord
<1>3. /\ x \in Steps /\ rest \in Seq(Steps)
      /\ \A y \in Range(rest) : y \in Range(t)
      /\ \A y \in Range(t) : y = x \/ y \in Range(rest)
  BY <1>1, <1>2, HeadTailProperties, TailInRange, RangeOfTail
<1>4. failed \in BOOLEAN /\ (~failed => ok /\ ~destroy[d].failed)
  OBVIOUS
<1> HIDE DEF x, rest, failed
<1>5. destroy' = [destroy EXCEPT ![d] =
                     [destroy[d] EXCEPT !.pc = "remove", !.todo = rest, !.failed = failed]]
  <2>1. [destroy[d] EXCEPT !.todo = rest, !.failed = failed]
          = [destroy[d] EXCEPT !.pc = destroy[d].pc, !.todo = rest, !.failed = failed]
    BY <1>2, SameFields
  <2>2. QED
    BY <1>1, <2>1
<1>6. /\ docker' \in Dockers /\ docker'.volumes = docker.volumes /\ docker'.networks = docker.networks
      /\ \A y \in Steps : docker'.container[y] \in {docker.container[y], "absent"}
      /\ ok => docker'.container[x] = "absent"
  <2>1. CASE ok
    BY <1>1, <1>2, <1>3, <2>1 DEF Dockers
  <2>2. CASE ~ok
    BY <1>1, <1>2, <2>2
  <2>3. QED
    BY <2>1, <2>2
<1>7. ASSUME destroy'[d] = [destroy[d] EXCEPT !.pc = "remove", !.todo = rest, !.failed = failed]
      PROVE  Swept(d)' /\ Freed(d)'
  <2>1. /\ destroy'[d].pc = "remove" /\ destroy'[d].todo = rest
        /\ destroy'[d].failed = failed /\ destroy'[d].list = destroy[d].list
    BY <1>2, <1>7 DEF DestroyRecord
  <2>2. ASSUME NEW y \in Range(destroy[d].list), ~failed
        PROVE  y \in Range(rest) \/ docker'.container[y] = "absent"
    <3>1. y \in Steps
      BY <1>2, RangeInSet
    <3>2. y \in Range(t) \/ docker.container[y] = "absent"
      BY <1>1, <1>2, <1>4, <2>2 DEF Swept
    <3>3. QED
      BY <1>3, <1>4, <1>6, <2>2, <3>1, <3>2
  <2>3. QED
    BY <2>1, <2>2 DEF Swept, Freed
<1>8. QED
  BY <1>1, <1>2, <1>3, <1>4, <1>5, <1>6, <1>7, DestroyGoesOn DEF UnderWay

\* When the list of a whole stage was worked off, nothing of the stage is left.
LEMMA NothingLeft ==
    ASSUME IInv, NEW d \in DestroyReqs, Whole(d),
           \/ destroy[d].pc = "remove" /\ destroy[d].todo = <<>>
           \/ destroy[d].pc \in {"network", "forget", "unmap"}
    PROVE  Left(destroy[d].stage) = {}
<1>1. \A x \in Range(destroy[d].list) : docker.container[x] = "absent"
  BY RangeOfEmpty DEF IInv, Torn, Swept, Whole
<1>2. QED
  BY <1>1 DEF Left, Whole, Covered

LEMMA RemoveVolumesInv ==
    ASSUME IInv, NEW d \in DestroyReqs, NEW ok \in BOOLEAN, RemoveVolumes(d, ok)
    PROVE  IInv'
<1> DEFINE t == destroy[d].todo
           failed == destroy[d].failed \/ ~ok
           r == [destroy[d] EXCEPT !.pc = "network", !.todo = t, !.failed = failed]
           freed == ok /\ destroy[d].configured /\ Left(destroy[d].stage) = {}
<1>1. /\ destroy' = [destroy EXCEPT ![d] = [destroy[d] EXCEPT !.pc = "network", !.failed = failed]]
      /\ UNCHANGED <<stages, setup, engine, run>>
      /\ destroy[d].pc = "remove" /\ t = <<>>
      /\ docker' = IF freed THEN [docker EXCEPT !.volumes = @ \ {destroy[d].id}] ELSE docker
  BY DEF RemoveVolumes, At, Then
<1>2. /\ destroy[d] \in DestroyRecord /\ docker \in Dockers /\ OwnWork(d) /\ Swept(d)
      /\ engine \in [SetupReqs -> [configured : BOOLEAN, containers : Seq(Steps)]]
      /\ t \in Seq(Steps)
  BY <1>1, DestroyHas DEF DestroyRecord
<1>3. failed \in BOOLEAN /\ (~failed => ok /\ ~destroy[d].failed)
  OBVIOUS
<1>4. Whole(d) /\ ok => freed
  <2>1. Whole(d) => destroy[d].configured
    BY <1>1, <1>2 DEF OwnWork, Whole
  <2>2. QED
    BY <1>1, <2>1, NothingLeft
<1> HIDE DEF failed, freed
<1>5. destroy' = [destroy EXCEPT ![d] = r]
  BY <1>1, <1>2, SameFields
<1>6. /\ docker' \in Dockers /\ docker'.container = docker.container
      /\ docker'.volumes \subseteq docker.volumes /\ docker'.networks = docker.networks
      /\ freed => destroy[d].id \notin docker'.volumes
  <2>1. CASE freed
    BY <1>1, <1>2, <2>1 DEF Dockers
  <2>2. CASE ~freed
    BY <1>1, <1>2, <2>2
  <2>3. QED
    BY <2>1, <2>2
<1>7. ASSUME destroy'[d] = r
      PROVE  Swept(d)' /\ Freed(d)'
  <2>1. /\ destroy'[d].pc = "network" /\ destroy'[d].failed = failed
        /\ destroy'[d].list = destroy[d].list /\ destroy'[d].stage = destroy[d].stage
        /\ destroy'[d].ready = destroy[d].ready /\ destroy'[d].id = destroy[d].id
    BY <1>2, <1>7 DEF DestroyRecord
  <2>2. Swept(d)'
    BY <1>1, <1>2, <1>3, <1>6, <2>1, RangeOfEmpty DEF Swept
  <2>3. Whole(d)' => Whole(d) /\ ok
    BY <1>1, <1>3, <2>1, WholeSince DEF Whole
  <2>4. QED
    BY <1>4, <1>6, <2>1, <2>2, <2>3 DEF Freed
<1>8. QED
  BY <1>1, <1>2, <1>3, <1>5, <1>6, <1>7, DestroyGoesOn DEF UnderWay

LEMMA RemoveNetworkInv ==
    ASSUME IInv, NEW d \in DestroyReqs, NEW ok \in BOOLEAN, RemoveNetwork(d, ok)
    PROVE  IInv'
<1> DEFINE t == destroy[d].todo
           u == destroy[d].stage
           failed == destroy[d].failed \/ ~ok
           r == [destroy[d] EXCEPT !.pc = "forget", !.todo = t, !.failed = failed]
           freed == ok /\ destroy[d].configured /\ Kind[u].named
                       /\ \A x \in Left(u) : docker.container[x] # "running"
<1>1. /\ destroy' = [destroy EXCEPT ![d] = [destroy[d] EXCEPT !.pc = "forget", !.failed = failed]]
      /\ UNCHANGED <<stages, setup, engine, run>>
      /\ destroy[d].pc = "network"
      /\ docker' = IF freed THEN [docker EXCEPT !.networks = @ \ {destroy[d].id}] ELSE docker
  BY DEF RemoveNetwork, At, Then
<1>2. /\ destroy[d] \in DestroyRecord /\ docker \in Dockers /\ OwnWork(d) /\ Swept(d) /\ Freed(d)
      /\ engine \in [SetupReqs -> [configured : BOOLEAN, containers : Seq(Steps)]]
      /\ t \in Seq(Steps)
  BY <1>1, DestroyHas DEF DestroyRecord
<1>3. failed \in BOOLEAN /\ (~failed => ok /\ ~destroy[d].failed)
  OBVIOUS
<1>4. Whole(d) /\ ok /\ Kind[u].named => freed
  <2>1. Whole(d) => destroy[d].configured
    BY <1>1, <1>2 DEF OwnWork, Whole
  <2>2. Whole(d) => Left(u) = {}
    BY <1>1, NothingLeft
  <2>3. QED
    BY <2>1, <2>2
<1> HIDE DEF failed, freed
<1>5. destroy' = [destroy EXCEPT ![d] = r]
  BY <1>1, <1>2, SameFields
<1>6. /\ docker' \in Dockers /\ docker'.container = docker.container
      /\ docker'.volumes = docker.volumes /\ docker'.networks \subseteq docker.networks
      /\ freed => destroy[d].id \notin docker'.networks
  <2>1. CASE freed
    BY <1>1, <1>2, <2>1 DEF Dockers
  <2>2. CASE ~freed
    BY <1>1, <1>2, <2>2
  <2>3. QED
    BY <2>1, <2>2
<1>7. ASSUME destroy'[d] = r
      PROVE  Swept(d)' /\ Freed(d)'
  <2>1. /\ destroy'[d].pc = "forget" /\ destroy'[d].failed = failed
        /\ destroy'[d].list = destroy[d].list /\ destroy'[d].stage = u
        /\ destroy'[d].ready = destroy[d].ready /\ destroy'[d].id = destroy[d].id
    BY <1>2, <1>7 DEF DestroyRecord
  <2>2. Swept(d)'
    BY <1>1, <1>2, <1>3, <1>6, <2>1 DEF Swept
  <2>3. Whole(d)' => Whole(d) /\ ok
    BY <1>1, <1>3, <2>1, WholeSince DEF Whole
  <2>4. Whole(d) => destroy[d].id \notin docker.volumes
    BY <1>1, <1>2 DEF Freed
  <2>5. QED
    BY <1>4, <1>6, <2>1, <2>2, <2>3, <2>4 DEF Freed
<1>8. QED
  BY <1>1, <1>2, <1>3, <1>5, <1>6, <1>7, DestroyGoesOn DEF UnderWay

LEMMA ForgetInv ==
    ASSUME IInv, NEW d \in DestroyReqs, Forget(d)
    PROVE  IInv'
<1> DEFINE t == destroy[d].todo
           u == destroy[d].stage
           failed == destroy[d].failed \/ FALSE
           r == [destroy[d] EXCEPT !.pc = "unmap", !.todo = t, !.failed = failed]
<1>1. /\ destroy' = [destroy EXCEPT ![d] = [destroy[d] EXCEPT !.pc = "unmap", !.failed = failed]]
      /\ UNCHANGED <<stages, setup, docker, run>>
      /\ destroy[d].pc = "forget"
      /\ engine' = [engine EXCEPT ![u].containers = <<>>]
  BY DEF Forget, At, Then
<1>2. /\ destroy[d] \in DestroyRecord /\ docker \in Dockers /\ Swept(d) /\ Freed(d)
      /\ engine \in [SetupReqs -> [configured : BOOLEAN, containers : Seq(Steps)]]
      /\ t \in Seq(Steps) /\ u \in SetupReqs
  BY <1>1, DestroyHas DEF DestroyRecord
<1>3. failed \in BOOLEAN /\ (~failed => ~destroy[d].failed)
  OBVIOUS
<1> HIDE DEF failed
<1>4. destroy' = [destroy EXCEPT ![d] = r]
  BY <1>1, <1>2, SameFields
<1>5. /\ engine' \in [SetupReqs -> [configured : BOOLEAN, containers : Seq(Steps)]]
      /\ \A v \in SetupReqs : /\ engine'[v].configured = engine[v].configured
                              /\ Range(engine'[v].containers) \subseteq Range(engine[v].containers)
  <2>1. <<>> \in Seq(Steps)
    OBVIOUS
  <2>2. [engine[u] EXCEPT !.containers = <<>>] \in [configured : BOOLEAN, containers : Seq(Steps)]
    BY <1>2, <2>1
  <2>3. engine' = [engine EXCEPT ![u] = [engine[u] EXCEPT !.containers = <<>>]]
    BY <1>1
  <2>4. engine'[u].containers = <<>> /\ engine'[u].configured = engine[u].configured
    BY <1>2, <2>3
  <2>5. \A v \in SetupReqs \ {u} : engine'[v] = engine[v]
    BY <1>2, <2>3
  <2>6. engine' \in [SetupReqs -> [configured : BOOLEAN, containers : Seq(Steps)]]
    BY <1>2, <2>2, <2>3
  <2>7. QED
    BY <2>4, <2>5, <2>6, RangeOfEmpty
<1>6. ASSUME destroy'[d] = r
      PROVE  Swept(d)' /\ Freed(d)'
  <2>1. /\ destroy'[d].pc = "unmap" /\ destroy'[d].failed = failed
        /\ destroy'[d].list = destroy[d].list /\ destroy'[d].stage = u
        /\ destroy'[d].ready = destroy[d].ready /\ destroy'[d].id = destroy[d].id
    BY <1>2, <1>6 DEF DestroyRecord
  <2>2. Swept(d)'
    BY <1>1, <1>2, <1>3, <2>1 DEF Swept
  <2>3. Whole(d)' => Whole(d)
    BY <1>1, <1>3, <2>1, WholeSince
  <2>4. QED
    BY <1>1, <1>2, <2>1, <2>2, <2>3 DEF Freed
<1>7. QED
  BY <1>1, <1>2, <1>3, <1>4, <1>5, <1>6, DestroyGoesOn DEF UnderWay

LEMMA UnmapInv ==
    ASSUME IInv, NEW d \in DestroyReqs, Unmap(d)
    PROVE  IInv'
<1> DEFINE u == destroy[d].stage
           r == [NoDestroy EXCEPT !.pc = "done", !.stage = u, !.failed = destroy[d].failed]
<1>1. /\ destroy' = [destroy EXCEPT ![d] = r] /\ UNCHANGED <<setup, engine, docker, run>>
      /\ stages' = [stages EXCEPT ![destroy[d].id] = None]
      /\ destroy[d].pc = "unmap"
  BY DEF Unmap, At
<1>2. /\ destroy[d] \in DestroyRecord /\ docker \in Dockers
      /\ stages \in [StageIds -> SetupReqs \cup {None}]
      /\ engine \in [SetupReqs -> [configured : BOOLEAN, containers : Seq(Steps)]]
      /\ u \in SetupReqs /\ u # None
  BY <1>1, DestroyHas
<1>3. r \in DestroyRecord
  <2>1. <<>> \in Seq(Steps) /\ destroy[d].failed \in BOOLEAN
    BY <1>2 DEF DestroyRecord
  <2>2. QED
    BY <1>2, <2>1 DEF DestroyRecord, NoDestroy
<1>4. r.pc = "done" /\ r.stage = u /\ r.list = <<>> /\ r.todo = <<>>
  BY DEF NoDestroy
<1> HIDE DEF r
<1>5. stages' \in [StageIds -> SetupReqs \cup {None}]
      /\ \A s \in StageIds : stages'[s] \in {stages[s], None}
  BY <1>1, <1>2
<1>6. TypeOK'
  BY <1>1, <1>2, <1>3, <1>4, <1>5, DestroyTyped
<1>7. /\ destroy'[d] = r /\ \A e \in DestroyReqs \ {d} : destroy'[e] = destroy[e]
  BY <1>1, <1>3, DestroyMoves
<1>8. DestroyFrame(d)
  BY <1>1, <1>2, <1>5, <1>7 DEF DestroyFrame, Dockers
<1>9. OwnWork(d)' /\ Swept(d)' /\ Freed(d)'
  BY <1>4, <1>7, RangeOfEmpty DEF OwnWork, Swept, Freed
<1>10. QED
  BY <1>6, <1>8, <1>9, DestroyKeeps

-----------------------------------------------------------------------------
LEMMA NextInv == IInv /\ [Next]_vars => IInv'
<1> SUFFICES ASSUME IInv, [Next]_vars PROVE IInv'
  OBVIOUS
<1>1. ASSUME NEW u \in SetupReqs, NEW id \in StageIds, SetupAdd(u, id) PROVE IInv'
  BY <1>1, SetupAddInv
<1>2. ASSUME NEW u \in SetupReqs, Setup(u) PROVE IInv'
  BY <1>2, SetupGoesOn, SetupUndoInv DEF Setup
<1>3. ASSUME NEW x \in Steps, NEW id \in StageIds, StepArrives(x, id) PROVE IInv'
  BY <1>3, StepArrivesInv
<1>4. ASSUME NEW x \in Steps, Run(x) \/ RunFails(x) \/ DoneUnheard(x) \/ Exits(x) PROVE IInv'
  BY <1>4, RunGoesOn, RunReturnsInv, ExitsInv DEF Run
<1>5. ASSUME NEW d \in DestroyReqs, NEW id \in StageIds, DestroyArrives(d, id) PROVE IInv'
  BY <1>5, DestroyArrivesInv
<1>6. ASSUME NEW d \in DestroyReqs, Destroy(d) PROVE IInv'
  BY <1>6, ReadConfigInv, SnapshotInv, KillInv, AllKilledInv, ForgetInv, UnmapInv, RemoveContainerInv,
     RemoveVolumesInv, RemoveNetworkInv DEF Destroy
<1>7. CASE UNCHANGED vars
  BY <1>7 DEF vars, IInv, TypeOK, SetupKnown, Mapped, RunKnown, ListsOwn, DestroyKnown, Made,
              Torn, Swept, Freed, Whole, Covered, Alone
<1>8. QED
  BY <1>1, <1>2, <1>3, <1>4, <1>5, <1>6, <1>7 DEF Next

THEOREM Invariant == Spec => []IInv
BY InitInv, NextInv, PTL DEF Spec

(* Every reachable state is well typed, and a run or a teardown that went on *)
(* found its stage (executor.go:34-66, handler/step.go:36-49,                *)
(* handler/destroy.go:28-37).                                                *)
THEOREM TypeCorrect == Spec => []TypeOK
BY Invariant, PTL DEF IInv

(* A setup that failed is in the map under no name, whatever setups and      *)
(* destroys did with its id meanwhile: it was never there under another id   *)
(* than the one its failure takes out (handler/setup.go:121-136,             *)
(* executor.go:34-66).                                                       *)
THEOREM FailedSetupForgottenAlways == Spec => []FailedSetupForgotten
<1>1. IInv => FailedSetupForgotten
  <2> SUFFICES ASSUME IInv, NEW u \in SetupReqs, setup[u].pc = "failed"
               PROVE  stages[setup[u].id] # u
    BY DEF FailedSetupForgotten
  <2>1. setup[u].id \in StageIds /\ u # None
    BY StageAssumption DEF IInv, SetupKnown
  <2>2. QED
    BY <2>1 DEF IInv, Mapped
<1>2. QED
  BY <1>1, Invariant, PTL

(* A run reports an exit only of a container that exited; no teardown and no *)
(* other run makes it run again (docker.go:371-411).                         *)
THEOREM ExitReportedIsExitAlways == Spec => []ExitReportedIsExit
<1>1. IInv => ExitReportedIsExit
  BY DEF IInv, RunKnown, ExitReportedIsExit
<1>2. QED
  BY <1>1, Invariant, PTL

(* A teardown of a whole, finished stage that was the only one of its id     *)
(* leaves no container, no volume and no network of it when none of its      *)
(* removals failed, whatever its kills did (docker.go:174-228).              *)
THEOREM CleanTeardownAlways == Spec => []CleanTeardown
<1>1. IInv => CleanTeardown
  <2> SUFFICES ASSUME IInv, NEW d \in DestroyReqs, destroy[d].pc = "unmap", Whole(d)
               PROVE  /\ Left(destroy[d].stage) = {}
                      /\ destroy[d].id \notin docker.volumes
                      /\ Kind[destroy[d].stage].named => destroy[d].id \notin docker.networks
    BY DEF CleanTeardown, Whole
  <2>1. Left(destroy[d].stage) = {}
    BY NothingLeft
  <2>2. QED
    BY <2>1 DEF IInv, Torn, Freed
<1>2. QED
  BY <1>1, Invariant, PTL

\* The daemon loses a container only to the removal of one by a teardown of its stage.
LEMMA LostToTeardown ==
    ASSUME IInv, Next, NEW x \in Steps,
           docker.container[x] # "absent", docker'.container[x] = "absent"
    PROVE  \E d \in DestroyReqs : destroy[d].pc = "remove" /\ destroy[d].stage = run[x].stage
<1>0. docker \in Dockers
  BY DEF IInv, TypeOK, Dockers
<1>1. ASSUME NEW u \in SetupReqs, (\E id \in StageIds : SetupAdd(u, id)) \/ Setup(u) PROVE FALSE
  <2>1. docker'.container = docker.container
    BY <1>0, <1>1 DEF Dockers, SetupAdd, Setup, SetupFiles, SetupVolumes, SetupNetwork, SetupFails,
                      SetupUndo
  <2>2. QED
    BY <2>1
<1>2. ASSUME NEW y \in Steps, \/ \E id \in StageIds : StepArrives(y, id)
                              \/ Run(y) \/ RunFails(y) \/ DoneUnheard(y) \/ Exits(y)
      PROVE FALSE
  <2>1. \/ docker' = docker
        \/ \E c \in {"created", "running", "exited"} : docker' = [docker EXCEPT !.container[y] = c]
    <3>1. CASE DoneUnheard(y)
      BY <3>1 DEF DoneUnheard
    <3>2. CASE ~DoneUnheard(y)
      BY <1>2, <3>2
         DEF StepArrives, Run, Create, ConnectFails, Record, Start, WaitRetry, Gone, RunFails, Exits
    <3>3. QED
      BY <3>1, <3>2
  <2>2. QED
    BY <1>0, <2>1 DEF Dockers
<1>3. ASSUME NEW d \in DestroyReqs, ~ \E ok \in BOOLEAN : RemoveContainer(d, ok),
             (\E id \in StageIds : DestroyArrives(d, id)) \/ Destroy(d)
      PROVE FALSE
  <2>1. CASE Kill(d)
    <3>1. \/ docker' = docker
          \/ \E y : docker' = [docker EXCEPT !.container[y] = "exited"]
      BY <2>1 DEF Kill
    <3>2. QED
      BY <1>0, <3>1 DEF Dockers
  <2>2. CASE ~Kill(d)
    <3>1. docker'.container = docker.container
      BY <1>0, <1>3, <2>2 DEF Dockers, DestroyArrives, Destroy, ReadConfig, Snapshot, AllKilled, RemoveVolumes,
                              RemoveNetwork, Forget, Unmap
    <3>2. QED
      BY <3>1
  <2>3. QED
    BY <2>1, <2>2
<1>4. ASSUME NEW d \in DestroyReqs, NEW ok \in BOOLEAN, RemoveContainer(d, ok)
      PROVE  destroy[d].pc = "remove" /\ destroy[d].stage = run[x].stage
  <2> DEFINE t == destroy[d].todo
             y == Head(t)
  <2>1. /\ destroy[d].pc = "remove" /\ t # <<>>
        /\ docker' = docker \/ docker' = [docker EXCEPT !.container[y] = "absent"]
    BY <1>4 DEF RemoveContainer, At
  <2>2. t \in Seq(Steps) /\ Range(t) \subseteq Made(destroy[d].stage)
    BY DestroyHas DEF DestroyRecord, OwnWork
  <2>3. y \in Made(destroy[d].stage)
    BY <2>1, <2>2, HeadInRange
  <2> HIDE DEF y
  <2>4. x = y
    BY <1>0, <2>1 DEF Dockers
  <2>5. QED
    BY <2>1, <2>3, <2>4 DEF Made
<1>5. QED
  BY <1>1, <1>2, <1>3, <1>4 DEF Next

(* A container is removed only by a teardown of the stage whose step it is:  *)
(* the engine lists the containers of its own stage, and so does the copy a  *)
(* teardown works on, while the map changes under it (docker.go:170-190,     *)
(* 354-359).                                                                 *)
THEOREM OnlyOwnContainersAlways == Spec => OnlyOwnContainers
<1> DEFINE Own == \A x \in Steps :
                     docker.container[x] # "absent" /\ docker'.container[x] = "absent" =>
                        \E d \in DestroyReqs : destroy[d].pc = "remove" /\ destroy[d].stage = run[x].stage
<1>1. IInv /\ [Next]_vars => [Own]_vars
  BY LostToTeardown
<1>2. QED
  BY <1>1, Invariant, PTL DEF Spec, OnlyOwnContainers
=============================================================================
