---------------------------- MODULE RedeployProofs ----------------------------
(***************************************************************************)
(* Proofs about Redeploy, for every fleet, every set of solutions and any  *)
(* number of deploys, crashes and restarts:                                *)
(*   - types;                                                              *)
(*   - no worker ever holds layer ranges of two plans at a time;           *)
(*   - a deploy that is over has left the workers ready for its plan;      *)
(*   - a call is not answered by a stage in the middle of the model.       *)
(*                                                                         *)
(* OnePlanAtATime alone is not inductive.  LoadBackup adds a range to what *)
(* a worker holds, and that is of the same plan only if the worker has had *)
(* its primary of that plan before: the deploy loads every primary, which  *)
(* drops the rest, before it loads the first backup, and R keeps its       *)
(* backups on workers that have a primary.                                 *)
(***************************************************************************)
EXTENDS Redeploy, TLAPS

\* What is known of the deploy itself: past its start it works on a solution of
\* the scheduler, at one of its stages.
DeployType ==
  /\ stages \in [Device -> SUBSET Key]
  /\ deploy \in [pc : {"idle", "load", "wire", "backup", "failed"}, i : Nat, todo : SUBSET Nat]
  /\ deploy.pc \in {"load", "wire", "backup"} => server \in Solutions
  /\ deploy.pc \in {"load", "wire"} => deploy.i \in DOMAIN server.devs
  /\ deploy.pc = "backup" => deploy.todo \subseteq DOMAIN server.devs

Holds(d, q) == stages[d] \subseteq Asked(q, d)

\* Every worker that the deploy has loaded holds ranges of its plan only.
LoadedSoFar ==
  /\ deploy.pc = "load" =>
       \A j \in DOMAIN server.devs : j < deploy.i => Holds(server.devs[j], server)
  /\ deploy.pc \in {"wire", "backup"} =>
       \A j \in DOMAIN server.devs : Holds(server.devs[j], server)

IInv == DeployType /\ OnePlanAtATime /\ LoadedSoFar

-----------------------------------------------------------------------------
(* Solutions. *)

\* A solution has at least one stage, on a worker of the fleet.
LEMMA SolutionShape ==
  ASSUME NEW q \in Solutions
  PROVE  /\ q.devs \in Seq(Device) /\ Len(q.devs) \in Nat \ {0}
         /\ DOMAIN q.devs = 1..Len(q.devs)
         /\ DOMAIN q.keys = DOMAIN q.devs
<1>1. q.devs \in Placements /\ q.keys \in Seq(Nat \X Nat) /\ Len(q.keys) = Len(q.devs)
  BY RedeployAssumption
<1>2. q.devs \in Seq(Device) /\ q.devs # << >>
  BY <1>1 DEF Placements
<1> QED
  BY <1>1, <1>2

\* The range of a stage is a key.
LEMMA KeyOfStage ==
  ASSUME NEW q \in Solutions, NEW i \in DOMAIN q.devs
  PROVE  q.keys[i] \in Key
  BY SolutionShape DEF Key

\* A plan asks its owner for every range ...
LEMMA OwnRangeIsAsked ==
  ASSUME NEW q, NEW i \in DOMAIN q.devs
  PROVE  q.keys[i] \in Asked(q, q.devs[i])
  BY DEF Asked

\* ... and the backup of the owner as well.
LEMMA BackupRangeIsAsked ==
  ASSUME NEW q, NEW i \in DOMAIN q.devs
  PROVE  q.keys[i] \in Asked(q, q.recovery[q.devs[i]])
  BY DEF Asked

\* A backup is the owner of some stage itself.
LEMMA BackupsAreOwners ==
  ASSUME NEW q \in Solutions, NEW i \in DOMAIN q.devs, q.recovery[q.devs[i]] # NoDevice
  PROVE  \E j \in DOMAIN q.devs : q.recovery[q.devs[i]] = q.devs[j]
<1>1. q.recovery \in [Device -> Owners(q.devs) \cup {NoDevice}]
  BY RedeployAssumption
<1>2. q.devs[i] \in Device
  BY SolutionShape
<1> QED
  BY <1>1, <1>2 DEF Owners

-----------------------------------------------------------------------------
(* The invariant. *)

LEMMA InitInvariant == Init => IInv
<1> SUFFICES ASSUME Init PROVE IInv
  OBVIOUS
<1>1. DeployType
  BY DEF Init, DeployType
<1>2. OnePlanAtATime
  BY RedeployAssumption DEF Init, OnePlanAtATime
<1>3. LoadedSoFar
  BY DEF Init, LoadedSoFar
<1> QED
  BY <1>1, <1>2, <1>3 DEF IInv

\* A deploy begins: nothing is loaded yet.
LEMMA StartDeployInvariant ==
  ASSUME IInv, NEW q \in Solutions, StartDeploy(q)
  PROVE  IInv'
<1>1. server' = q /\ deploy' = [pc |-> "load", i |-> 1, todo |-> {}] /\ stages' = stages
  BY DEF StartDeploy, workers
<1>2. 1 \in DOMAIN q.devs
  BY SolutionShape
<1>3. DeployType'
  BY <1>1, <1>2 DEF IInv, DeployType
<1>4. OnePlanAtATime'
  BY <1>1 DEF IInv, OnePlanAtATime
<1>5. LoadedSoFar'
  <2>1. \A j \in DOMAIN q.devs : ~(j < 1)
    BY SolutionShape
  <2> QED
    BY <1>1, <2>1 DEF LoadedSoFar
<1> QED
  BY <1>3, <1>4, <1>5 DEF IInv

\* Nothing is loaded or dropped, and the deploy stands or is over.
LEMMA SettledInvariant ==
  ASSUME IInv, stages' = stages,
         \/ UNCHANGED <<server, deploy>>
         \/ deploy' \in [pc : {"idle", "failed"}, i : Nat, todo : SUBSET Nat]
  PROVE  IInv'
<1>1. OnePlanAtATime'
  BY DEF IInv, OnePlanAtATime
<1>2. CASE UNCHANGED <<server, deploy>>
  <2>1. DeployType' /\ LoadedSoFar'
    BY <1>2 DEF IInv, DeployType, LoadedSoFar, Holds
  <2> QED
    BY <1>1, <2>1 DEF IInv
<1>3. CASE deploy' \in [pc : {"idle", "failed"}, i : Nat, todo : SUBSET Nat]
  <2>1. DeployType' /\ LoadedSoFar'
    BY <1>3 DEF IInv, DeployType, LoadedSoFar
  <2> QED
    BY <1>1, <2>1 DEF IInv
<1> QED
  BY <1>2, <1>3

\* A call of the deploy that fails ends it.
LEMMA FailsInvariant ==
  ASSUME IInv, Fails
  PROVE  IInv'
<1>1. stages' = stages
  BY DEF Fails, workers
<1>2. deploy' \in [pc : {"idle", "failed"}, i : Nat, todo : SUBSET Nat]
  BY DEF Fails
<1> QED
  BY <1>1, <1>2, SettledInvariant

\* A primary drops whatever else its worker held.
LEMMA LoadStageInvariant ==
  ASSUME IInv, LoadStage
  PROVE  IInv'
<1> DEFINE i == deploy.i
           d == server.devs[i]
           k == server.keys[i]
<1>1. CASE Fails
  BY <1>1, FailsInvariant
<1>2. CASE ~Fails
  <2>1. /\ deploy.pc = "load" /\ server \in Solutions /\ i \in DOMAIN server.devs
        /\ stages \in [Device -> SUBSET Key] /\ deploy.todo \in SUBSET Nat
    BY DEF LoadStage, IInv, DeployType
  <2>2. /\ stages' = [stages EXCEPT ![d] = {k}]
        /\ deploy' = IF i < Len(server.devs) THEN [deploy EXCEPT !.i = @ + 1]
                     ELSE [deploy EXCEPT !.pc = "wire", !.i = 1]
        /\ server' = server
    BY <1>2 DEF LoadStage, load_primary, Proceeds
  <2>3. /\ d \in Device /\ k \in Key /\ k \in Asked(server, d)
        /\ DOMAIN server.devs = 1..Len(server.devs) /\ Len(server.devs) \in Nat \ {0}
    BY <2>1, SolutionShape, KeyOfStage, OwnRangeIsAsked
  <2>4. stages'[d] \subseteq Asked(server, d)
    BY <2>1, <2>2, <2>3
  <2>5. \A e \in Device : e # d => stages'[e] = stages[e]
    BY <2>1, <2>2
  <2>6. DeployType'
    <3>1. stages' \in [Device -> SUBSET Key]
      BY <2>1, <2>2, <2>3
    <3>2. deploy \in [pc : {"idle", "load", "wire", "backup", "failed"}, i : Nat, todo : SUBSET Nat]
      BY DEF IInv, DeployType
    <3>3. deploy' \in [pc : {"idle", "load", "wire", "backup", "failed"}, i : Nat, todo : SUBSET Nat]
      <4>1. CASE i < Len(server.devs)
        <5>1. deploy' = [deploy EXCEPT !.i = deploy.i + 1] /\ deploy.i + 1 \in Nat
          BY <2>2, <3>2, <4>1
        <5> QED
          BY <3>2, <5>1
      <4>2. CASE ~(i < Len(server.devs))
        <5>1. deploy' = [deploy EXCEPT !.pc = "wire", !.i = 1]
          BY <2>2, <4>2
        <5> QED
          BY <3>2, <5>1
      <4> QED
        BY <4>1, <4>2
    <3>4. deploy'.pc \in {"load", "wire"} /\ deploy'.i \in DOMAIN server.devs
      BY <2>1, <2>2, <2>3, <3>2
    <3> QED
      BY <2>1, <2>2, <3>1, <3>3, <3>4 DEF DeployType
  <2>7. OnePlanAtATime'
    BY <2>1, <2>3, <2>4, <2>5 DEF IInv, OnePlanAtATime
  <2>8. \A j \in DOMAIN server.devs : j <= i => stages'[server.devs[j]] \subseteq Asked(server, server.devs[j])
    <3> SUFFICES ASSUME NEW j \in DOMAIN server.devs, j <= i
                 PROVE  stages'[server.devs[j]] \subseteq Asked(server, server.devs[j])
      OBVIOUS
    <3>1. CASE server.devs[j] = d
      BY <2>4, <3>1
    <3>2. CASE server.devs[j] # d
      <4>1. j < i
        BY <2>1, <2>3, <3>2
      <4>2. Holds(server.devs[j], server)
        BY <2>1, <4>1 DEF IInv, LoadedSoFar
      <4>3. server.devs[j] \in Device
        BY <2>1, SolutionShape
      <4> QED
        BY <2>5, <3>2, <4>2, <4>3 DEF Holds
    <3> QED
      BY <3>1, <3>2
  <2>9. LoadedSoFar'
    <3>1. CASE i < Len(server.devs)
      <4>1. deploy'.pc = "load" /\ deploy'.i = i + 1
        BY <2>1, <2>2, <3>1 DEF IInv, DeployType
      <4>2. \A j \in DOMAIN server.devs : j < i + 1 => j <= i
        BY <2>1, <2>3
      <4> QED
        BY <2>2, <2>8, <4>1, <4>2 DEF LoadedSoFar, Holds
    <3>2. CASE ~(i < Len(server.devs))
      <4>1. deploy'.pc = "wire"
        BY <2>1, <2>2, <3>2 DEF IInv, DeployType
      <4>2. \A j \in DOMAIN server.devs : j <= i
        BY <2>1, <2>3, <3>2
      <4> QED
        BY <2>2, <2>8, <4>1, <4>2 DEF LoadedSoFar, Holds
    <3> QED
      BY <3>1, <3>2
  <2> QED
    BY <2>6, <2>7, <2>9 DEF IInv
<1> QED
  BY <1>1, <1>2

\* Wiring loads nothing.
LEMMA WireStageInvariant ==
  ASSUME IInv, WireStage
  PROVE  IInv'
<1>1. CASE Fails
  BY <1>1, FailsInvariant
<1>2. CASE ~Fails
  <2>1. /\ deploy.pc = "wire" /\ server \in Solutions /\ deploy.i \in DOMAIN server.devs
        /\ deploy \in [pc : {"idle", "load", "wire", "backup", "failed"}, i : Nat, todo : SUBSET Nat]
    BY DEF WireStage, IInv, DeployType
  <2>2. /\ stages' = stages /\ server' = server
        /\ deploy' = IF deploy.i < Len(server.devs) THEN [deploy EXCEPT !.i = @ + 1]
                     ELSE [pc |-> "backup", i |-> 1,
                           todo |-> IF eager_backup THEN DOMAIN server.devs ELSE {}]
    BY <1>2 DEF WireStage, Proceeds
  <2>3. DOMAIN server.devs = 1..Len(server.devs) /\ Len(server.devs) \in Nat \ {0}
    BY <2>1, SolutionShape
  <2>4. DeployType'
    BY <2>1, <2>2, <2>3 DEF IInv, DeployType
  <2>5. OnePlanAtATime'
    BY <2>2 DEF IInv, OnePlanAtATime
  <2>6. LoadedSoFar'
    BY <2>1, <2>2 DEF IInv, LoadedSoFar, Holds
  <2> QED
    BY <2>4, <2>5, <2>6 DEF IInv
<1> QED
  BY <1>1, <1>2

\* A backup joins what its worker already holds, which is of the same plan.
LEMMA LoadBackupInvariant ==
  ASSUME IInv, NEW i \in DOMAIN server.devs, LoadBackup(i)
  PROVE  IInv'
<1> DEFINE k == server.recovery[server.devs[i]]
<1>1. CASE Fails
  BY <1>1, FailsInvariant
<1>2. CASE ~Fails
  <2>1. /\ deploy.pc = "backup" /\ server \in Solutions
        /\ stages \in [Device -> SUBSET Key]
        /\ deploy \in [pc : {"idle", "load", "wire", "backup", "failed"}, i : Nat, todo : SUBSET Nat]
        /\ deploy.todo \subseteq DOMAIN server.devs
    BY DEF LoadBackup, IInv, DeployType
  <2>2. /\ server' = server
        /\ deploy' = [deploy EXCEPT !.todo = @ \ {i}]
        /\ IF k = NoDevice THEN stages' = stages
           ELSE stages' = [stages EXCEPT ![k] = @ \cup {server.keys[i]}]
    BY <1>2 DEF LoadBackup, load_backup, BackupKey, Proceeds
  <2>3. \A e \in Device : \A q \in {server} :
          stages'[e] \subseteq stages[e] \/ (e = k /\ k # NoDevice /\ stages'[e] = stages[e] \cup {server.keys[i]})
    BY <2>1, <2>2
  <2>4. k # NoDevice => Holds(k, server) /\ server.keys[i] \in Asked(server, k)
    BY <2>1, BackupsAreOwners, BackupRangeIsAsked DEF IInv, LoadedSoFar
  <2>5. DeployType'
    <3>1. server.keys[i] \in Key
      BY <2>1, KeyOfStage
    <3>2. stages' \in [Device -> SUBSET Key]
      BY <2>1, <2>2, <3>1
    <3> QED
      BY <2>1, <2>2, <3>2 DEF DeployType
  <2>6. OnePlanAtATime'
    <3> SUFFICES ASSUME NEW e \in Device
                 PROVE  \E q \in Solutions : stages'[e] \subseteq Asked(q, e)
      BY DEF OnePlanAtATime
    <3>1. CASE stages'[e] \subseteq stages[e]
      BY <3>1 DEF IInv, OnePlanAtATime
    <3>2. CASE e = k /\ k # NoDevice /\ stages'[e] = stages[e] \cup {server.keys[i]}
      BY <2>1, <2>4, <3>2 DEF Holds
    <3> QED
      BY <2>3, <3>1, <3>2
  <2>7. \A j \in DOMAIN server.devs : stages'[server.devs[j]] \subseteq Asked(server, server.devs[j])
    <3> SUFFICES ASSUME NEW j \in DOMAIN server.devs
                 PROVE  stages'[server.devs[j]] \subseteq Asked(server, server.devs[j])
      OBVIOUS
    <3>1. server.devs[j] \in Device
      BY <2>1, SolutionShape
    <3>2. Holds(server.devs[j], server)
      BY <2>1 DEF IInv, LoadedSoFar
    <3> QED
      BY <2>3, <2>4, <3>1, <3>2 DEF Holds
  <2>8. LoadedSoFar'
    BY <2>1, <2>2, <2>7 DEF LoadedSoFar, Holds, IInv, DeployType
  <2> QED
    BY <2>5, <2>6, <2>8 DEF IInv
<1> QED
  BY <1>1, <1>2

\* A crash empties one worker.
LEMMA CrashInvariant ==
  ASSUME IInv, NEW d \in Device, Crash(d)
  PROVE  IInv'
<1>1. /\ stages' = [stages EXCEPT ![d] = {}] /\ server' = server /\ deploy' = deploy
      /\ stages \in [Device -> SUBSET Key]
  BY DEF Crash, IInv, DeployType
<1>2. \A e \in Device : stages'[e] \subseteq stages[e]
  BY <1>1
<1>3. DeployType'
  BY <1>1 DEF IInv, DeployType
<1>4. OnePlanAtATime'
  BY <1>2 DEF IInv, OnePlanAtATime
<1>5. \A j \in DOMAIN server.devs : server \in Solutions => server.devs[j] \in Device
  BY SolutionShape
<1>6. LoadedSoFar'
  BY <1>1, <1>2, <1>5 DEF IInv, DeployType, LoadedSoFar, Holds
<1> QED
  BY <1>3, <1>4, <1>6 DEF IInv

LEMMA StepInvariant == IInv /\ [Next]_vars => IInv'
<1> SUFFICES ASSUME IInv, [Next]_vars PROVE IInv'
  OBVIOUS
<1>1. ASSUME NEW q \in Solutions, AutoSchedule(q) \/ Reconfigure(q)
      PROVE  IInv'
  BY <1>1, StartDeployInvariant DEF AutoSchedule, Reconfigure
<1>2. CASE LoadStage
  BY <1>2, LoadStageInvariant
<1>3. CASE WireStage
  BY <1>3, WireStageInvariant
<1>4. ASSUME NEW i \in DOMAIN server.devs, LoadBackup(i)
      PROVE  IInv'
  BY <1>4, LoadBackupInvariant
<1>5. CASE Rebind
  <2>1. stages' = stages /\ deploy' = [deploy EXCEPT !.pc = "idle"]
    BY <1>5 DEF Rebind, workers
  <2>2. deploy \in [pc : {"idle", "load", "wire", "backup", "failed"}, i : Nat, todo : SUBSET Nat]
    BY DEF IInv, DeployType
  <2>3. deploy' \in [pc : {"idle", "failed"}, i : Nat, todo : SUBSET Nat]
    BY <2>1, <2>2
  <2> QED
    BY <2>1, <2>3, SettledInvariant
<1>6. CASE Request
  <2>1. stages' = stages /\ UNCHANGED <<server, deploy>>
    BY <1>6 DEF Request, Step, RunStage, Answer, Blame, Promote, Rewire, Server, workers
  <2> QED
    BY <2>1, SettledInvariant
<1>7. ASSUME NEW d \in Device, Crash(d)
      PROVE  IInv'
  BY <1>7, CrashInvariant
<1>8. ASSUME NEW d \in Device, Restart(d) \/ OnFailure(d) \/ Revive(d)
      PROVE  IInv'
  <2>1. stages' = stages /\ UNCHANGED <<server, deploy>>
    BY <1>8 DEF Restart, OnFailure, Revive, workers
  <2> QED
    BY <2>1, SettledInvariant
<1>9. CASE RestartCoordinator
  <2>1. stages' = stages /\ deploy' = [deploy EXCEPT !.pc = "idle", !.i = 1, !.todo = {}]
    BY <1>9 DEF RestartCoordinator, workers
  <2>2. deploy \in [pc : {"idle", "load", "wire", "backup", "failed"}, i : Nat, todo : SUBSET Nat]
    BY DEF IInv, DeployType
  <2>3. deploy' \in [pc : {"idle", "failed"}, i : Nat, todo : SUBSET Nat]
    BY <2>1, <2>2
  <2> QED
    BY <2>1, <2>3, SettledInvariant
<1>10. CASE UNCHANGED vars
  <2>1. stages' = stages /\ UNCHANGED <<server, deploy>>
    BY <1>10 DEF vars, workers
  <2> QED
    BY <2>1, SettledInvariant
<1> QED
  BY <1>1, <1>2, <1>3, <1>4, <1>5, <1>6, <1>7, <1>8, <1>9, <1>10 DEF Next, Deploying

\* No worker ever holds ranges of two plans (StageRunner.load_primary and the
\* order of deploy), however deploys fail and whoever crashes or restarts.
THEOREM OnePlan == Spec => []OnePlanAtATime
<1>1. IInv => OnePlanAtATime
  BY DEF IInv
<1> QED
  BY InitInvariant, StepInvariant, <1>1, PTL DEF Spec

-----------------------------------------------------------------------------
(* A deploy that is over has left the workers ready.                       *)
(*                                                                         *)
(* The invariant follows the deploy stage by stage: what is loaded stays   *)
(* loaded, because the devices of a solution differ; what is wired stays   *)
(* wired and what is backed up stays backed up, because its ranges differ; *)
(* and a recovery that wires the chain during or after it either has the   *)
(* very plan that is bound, or is counted in raced.                        *)

\* The owner of a stage, or its backup.
PlanShape(q, p) ==
  /\ p \in Seq(Device) /\ Len(p) = Len(q.devs)
  /\ \A j \in DOMAIN q.devs : p[j] \in {q.devs[j], q.recovery[q.devs[j]]}

Requests ==
  [pc : {"idle", "walk", "answered", "blame", "promote", "rewire"},
   dev : MaybeDevice, key : Key \cup {NoKey}, head : MaybeDevice,
   first : BOOLEAN, recovering : BOOLEAN, victim : MaybeDevice,
   rplan : Seq(Device), of : Solution, i : Nat, epoch : Nat]

WorkerType ==
  /\ backup_for \in [Device -> [Key -> MaybeDevice]]
  /\ next_hop \in [Device -> [Key -> HopType]]
  /\ head \in SUBSET Device /\ crashed \in SUBSET Device
  /\ lost \in SUBSET Device /\ raced \in BOOLEAN
  /\ deploys \in Nat

GatewayType ==
  /\ bound # NoSolution => bound \in Solutions /\ PlanShape(bound, plan)
  /\ bound # NoSolution /\ deploy.pc = "idle" => bound = server

RequestType ==
  /\ req \in Requests
  /\ req.pc # "idle" => bound # NoSolution
  /\ req.pc = "walk" => req.dev \in Device /\ req.key \in Key
  /\ req.pc = "rewire" =>
       req.of \in Solutions /\ PlanShape(req.of, req.rplan) /\ req.i \in DOMAIN req.of.devs

Loaded(q, j) == q.devs[j] \notin lost => q.keys[j] \in stages[q.devs[j]]

Wired(q, j) ==
  LET hop == next_hop[q.devs[j]][q.keys[j]]
  IN q.devs[j] \notin lost /\ ~raced =>
       IF j = Len(q.devs) THEN hop = NoHop /\ q.devs[j] \in head
       ELSE /\ hop.key = q.keys[j + 1]
            /\ hop.dev \in {q.devs[j + 1], q.recovery[q.devs[j + 1]]}

BackedUp(q, j) ==
  LET k == q.recovery[q.devs[j]]
  IN k \notin lost \cup {NoDevice} =>
       q.keys[j] \in stages[k] /\ backup_for[k][q.keys[j]] = q.devs[j]

\* How far the deploy has come, and where it is when it is over.
Underway ==
  LET Stages == DOMAIN server.devs
  IN /\ deploy.pc = "load" => \A j \in Stages : j < deploy.i => Loaded(server, j)
     /\ deploy.pc = "wire" => \A j \in Stages : Loaded(server, j) /\ (j < deploy.i => Wired(server, j))
     /\ deploy.pc = "backup" =>
          \A j \in Stages : /\ Loaded(server, j) /\ Wired(server, j)
                            /\ eager_backup /\ j \notin deploy.todo => BackedUp(server, j)
     /\ deploy.pc = "idle" /\ bound # NoSolution =>
          \A j \in Stages : /\ Loaded(server, j) /\ Wired(server, j)
                            /\ eager_backup => BackedUp(server, j)

ReadyInv == WorkerType /\ GatewayType /\ RequestType /\ Underway

\* The devices of a solution differ, and so do its ranges.
LEMMA SolutionApart ==
  ASSUME NEW q \in Solutions, NEW i \in DOMAIN q.devs, NEW j \in DOMAIN q.devs, i # j
  PROVE  q.devs[i] # q.devs[j] /\ q.keys[i] # q.keys[j]
  BY RedeployAssumption, SolutionShape DEF Placements

\* Owners and backups are workers.
LEMMA SolutionDevices ==
  ASSUME NEW q \in Solutions, NEW j \in DOMAIN q.devs
  PROVE  q.devs[j] \in Device /\ q.recovery[q.devs[j]] \in MaybeDevice
<1>1. q.recovery \in [Device -> Owners(q.devs) \cup {NoDevice}]
  BY RedeployAssumption
<1>2. q.devs[j] \in Device
  BY SolutionShape
<1>3. Owners(q.devs) \subseteq Device
  BY SolutionShape DEF Owners
<1> QED
  BY <1>1, <1>2, <1>3 DEF MaybeDevice

\* The solution itself is a plan for it ...
LEMMA OwnersArePlan ==
  ASSUME NEW q \in Solutions
  PROVE  PlanShape(q, q.devs)
  BY SolutionShape DEF PlanShape, MaybeDevice

\* ... and so is every plan that is built from it.
LEMMA BuiltIsPlan ==
  ASSUME NEW q \in Solutions, NEW D, Viable(q.devs, q.recovery, D)
  PROVE  PlanShape(q, build_execution_plan(q.devs, q.recovery, D))
<1> DEFINE p == build_execution_plan(q.devs, q.recovery, D)
<1>1. \A j \in 1..Len(q.devs) : Serving(q.devs, q.recovery, D, j) \in Device
  BY SolutionShape, SolutionDevices DEF Serving, Viable, MaybeDevice
<1>2. p = [j \in 1..Len(q.devs) |-> Serving(q.devs, q.recovery, D, j)]
  BY SolutionShape DEF build_execution_plan
<1>3. p \in Seq(Device) /\ Len(p) = Len(q.devs)
  BY <1>1, <1>2, SolutionShape
<1>4. \A j \in DOMAIN q.devs : p[j] \in {q.devs[j], q.recovery[q.devs[j]]}
  BY <1>2, SolutionShape DEF Serving
<1> QED
  BY <1>3, <1>4 DEF PlanShape

LEMMA InitReady == Init => ReadyInv
<1> SUFFICES ASSUME Init PROVE ReadyInv
  OBVIOUS
<1>1. WorkerType
  BY DEF Init, WorkerType, NoOwner, Unwired, NoHop, HopType, MaybeDevice
<1>2. GatewayType
  BY DEF Init, GatewayType
<1>3. << >> \in Seq(Device)
  OBVIOUS
<1>4. RequestType
  BY <1>3 DEF Init, RequestType, NoRequest, Requests, MaybeDevice, Solution
<1>5. Underway
  BY DEF Init, Underway
<1> QED
  BY <1>1, <1>2, <1>4, <1>5 DEF ReadyInv

\* Nothing that the deploy has done is undone, and no more is claimed of it.
LEMMA KeptReady ==
  ASSUME ReadyInv, UNCHANGED <<workers, server, deploy, lost, raced>>,
         \/ bound' = bound
         \/ bound' = NoSolution
  PROVE  Underway'
<1> USE DEF workers
<1>1. ASSUME NEW q, NEW j
      PROVE  /\ Loaded(q, j) => Loaded(q, j)'
             /\ Wired(q, j) => Wired(q, j)'
             /\ BackedUp(q, j) => BackedUp(q, j)'
  BY DEF Loaded, Wired, BackedUp
<1> QED
  BY <1>1 DEF ReadyInv, Underway, Loaded, Wired, BackedUp

\* A deploy that begins claims nothing yet, ...
LEMMA StartReady ==
  ASSUME ReadyInv, NEW q \in Solutions, StartDeploy(q)
  PROVE  ReadyInv'
<1> USE DEF StartDeploy, workers, gateway
<1>1. WorkerType'
  <2>1. /\ UNCHANGED <<crashed, backup_for, next_hop, head>>
        /\ lost' = crashed /\ raced' = FALSE /\ deploys' = deploys + 1
    OBVIOUS
  <2>2. deploys' \in Nat
    BY <2>1 DEF ReadyInv, WorkerType
  <2>3. raced' \in BOOLEAN /\ lost' \in SUBSET Device
    BY <2>1 DEF ReadyInv, WorkerType
  <2> HIDE DEF StartDeploy
  <2> QED
    BY <2>1, <2>2, <2>3 DEF ReadyInv, WorkerType
<1>2. GatewayType'
  BY DEF ReadyInv, GatewayType
<1>3. RequestType'
  BY DEF ReadyInv, RequestType
<1>4. Underway'
  <2>1. \A j \in DOMAIN q.devs : ~(j < 1)
    BY SolutionShape
  <2> QED
    BY <2>1 DEF Underway
<1> QED
  BY <1>1, <1>2, <1>3, <1>4 DEF ReadyInv

\* ... and one that fails none any more.
LEMMA FailsReady ==
  ASSUME ReadyInv, Fails
  PROVE  ReadyInv'
<1> USE DEF Fails, workers, gateway, counts
<1>1. WorkerType'
  BY DEF ReadyInv, WorkerType
<1>2. GatewayType'
  BY DEF ReadyInv, GatewayType
<1>3. RequestType'
  BY DEF ReadyInv, RequestType
<1>4. Underway'
  BY DEF Underway
<1> QED
  BY <1>1, <1>2, <1>3, <1>4 DEF ReadyInv

\* A deploy that goes on leaves the gateway and the requests alone.
LEMMA ProceedsReady ==
  ASSUME ReadyInv, Proceeds, deploy'.pc # "idle"
  PROVE  GatewayType' /\ RequestType' /\ UNCHANGED <<crashed, lost, raced, deploys, server>>
<1> USE DEF Proceeds, gateway, counts
<1>1. GatewayType'
  BY DEF ReadyInv, GatewayType
<1>2. RequestType'
  BY DEF ReadyInv, RequestType
<1> QED
  BY <1>1, <1>2

\* The primary of a stage drops nothing of another stage's.
LEMMA LoadStageReady ==
  ASSUME IInv, ReadyInv, LoadStage
  PROVE  ReadyInv'
<1>1. CASE Fails
  BY <1>1, FailsReady
<1>2. CASE ~Fails
  <2> DEFINE i == deploy.i
             d == server.devs[i]
             k == server.keys[i]
  <2>1. /\ deploy.pc = "load" /\ server \in Solutions /\ i \in DOMAIN server.devs
        /\ stages \in [Device -> SUBSET Key]
        /\ deploy \in [pc : {"idle", "load", "wire", "backup", "failed"}, i : Nat, todo : SUBSET Nat]
    BY DEF LoadStage, IInv, DeployType
  <2>2. /\ stages' = [stages EXCEPT ![d] = {k}]
        /\ backup_for' = [backup_for EXCEPT ![d] = NoOwner]
        /\ deploy' = IF i < Len(server.devs) THEN [deploy EXCEPT !.i = @ + 1]
                     ELSE [deploy EXCEPT !.pc = "wire", !.i = 1]
        /\ UNCHANGED <<next_hop, head>> /\ Proceeds
    BY <1>2 DEF LoadStage, load_primary
  <2>3. \/ i < Len(server.devs) /\ deploy'.pc = "load" /\ deploy'.i = i + 1
        \/ ~(i < Len(server.devs)) /\ deploy'.pc = "wire" /\ deploy'.i = 1
    BY <2>1, <2>2
  <2>4. GatewayType' /\ RequestType' /\ UNCHANGED <<crashed, lost, raced, deploys, server>>
    BY <2>2, <2>3, ProceedsReady
  <2>5. WorkerType'
    <3>1. NoOwner \in [Key -> MaybeDevice]
      BY DEF NoOwner, MaybeDevice
    <3> QED
      BY <2>2, <2>4, <3>1 DEF ReadyInv, WorkerType
  <2>6. d \in Device /\ DOMAIN server.devs = 1..Len(server.devs) /\ Len(server.devs) \in Nat \ {0}
    BY <2>1, SolutionShape, SolutionDevices
  <2>7. ASSUME NEW j \in DOMAIN server.devs, j <= i
        PROVE  Loaded(server, j)'
    <3>1. CASE j = i
      BY <2>1, <2>2, <2>4, <2>6, <3>1 DEF Loaded
    <3>2. CASE j # i
      <4>1. Loaded(server, j)
        BY <2>1, <2>6, <2>7, <3>2 DEF ReadyInv, Underway
      <4>2. server.devs[j] # d /\ server.devs[j] \in Device
        BY <2>1, <3>2, SolutionApart, SolutionDevices
      <4> QED
        BY <2>1, <2>2, <2>4, <4>1, <4>2 DEF Loaded
    <3> QED
      BY <3>1, <3>2
  <2>8. Underway'
    <3>1. CASE i < Len(server.devs)
      <4>1. \A j \in DOMAIN server.devs : j < i + 1 => j <= i
        BY <2>1, <2>6
      <4>2. deploy'.pc = "load" /\ deploy'.i = i + 1
        BY <2>3, <3>1
      <4> QED
        BY <2>4, <2>7, <4>1, <4>2 DEF Underway
    <3>2. CASE ~(i < Len(server.devs))
      <4>1. \A j \in DOMAIN server.devs : j <= i /\ ~(j < 1)
        BY <2>1, <2>6, <3>2
      <4>2. deploy'.pc = "wire" /\ deploy'.i = 1
        BY <2>3, <3>2
      <4> QED
        BY <2>4, <2>7, <4>1, <4>2 DEF Underway
    <3> QED
      BY <3>1, <3>2
  <2> QED
    BY <2>4, <2>5, <2>8 DEF ReadyInv
<1> QED
  BY <1>1, <1>2

\* Wiring a stage unwires no other one.
LEMMA WireStageReady ==
  ASSUME IInv, ReadyInv, WireStage
  PROVE  ReadyInv'
<1>1. CASE Fails
  BY <1>1, FailsReady
<1>2. CASE ~Fails
  <2> DEFINE i == deploy.i
             d == server.devs[i]
             k == server.keys[i]
             hop == Hop(server.devs, server.keys, i)
  <2>1. /\ deploy.pc = "wire" /\ server \in Solutions /\ i \in DOMAIN server.devs
        /\ deploy \in [pc : {"idle", "load", "wire", "backup", "failed"}, i : Nat, todo : SUBSET Nat]
    BY DEF WireStage, IInv, DeployType
  <2>2. /\ next_hop' = [next_hop EXCEPT ![d][k] = hop]
        /\ IF i < Len(server.devs) THEN head' = head ELSE head' = head \cup {d}
        /\ deploy' = IF i < Len(server.devs) THEN [deploy EXCEPT !.i = @ + 1]
                     ELSE [pc |-> "backup", i |-> 1,
                           todo |-> IF eager_backup THEN DOMAIN server.devs ELSE {}]
        /\ UNCHANGED <<stages, backup_for>> /\ Proceeds
    BY <1>2 DEF WireStage, SetNextHop, load_head
  <2>3. \/ i < Len(server.devs) /\ deploy'.pc = "wire" /\ deploy'.i = i + 1
        \/ /\ ~(i < Len(server.devs)) /\ deploy'.pc = "backup"
           /\ deploy'.todo = IF eager_backup THEN DOMAIN server.devs ELSE {}
    BY <2>1, <2>2
  <2>4. GatewayType' /\ RequestType' /\ UNCHANGED <<crashed, lost, raced, deploys, server>>
    BY <2>2, <2>3, ProceedsReady
  <2>5. /\ d \in Device /\ k \in Key
        /\ DOMAIN server.devs = 1..Len(server.devs) /\ Len(server.devs) \in Nat \ {0}
    BY <2>1, SolutionShape, SolutionDevices, KeyOfStage
  <2>6. hop \in HopType
    <3>1. CASE i < Len(server.devs)
      <4>1. i + 1 \in DOMAIN server.devs
        BY <2>1, <2>5, <3>1
      <4>2. server.devs[i + 1] \in Device /\ server.keys[i + 1] \in Key
        BY <2>1, <4>1, SolutionDevices, KeyOfStage
      <4> QED
        BY <3>1, <4>2 DEF Hop, HopType, MaybeDevice
    <3>2. CASE ~(i < Len(server.devs))
      BY <3>2 DEF Hop, NoHop, HopType, MaybeDevice
    <3> QED
      BY <3>1, <3>2
  <2>7. WorkerType'
    BY <2>2, <2>4, <2>5, <2>6 DEF ReadyInv, WorkerType
  <2>8. ASSUME NEW j \in DOMAIN server.devs
        PROVE  Loaded(server, j)'
    BY <2>1, <2>2, <2>4 DEF ReadyInv, Underway, Loaded
  <2>9. ASSUME NEW j \in DOMAIN server.devs, j <= i
        PROVE  Wired(server, j)'
    <3>1. CASE j = i
      <4>1. next_hop'[d][k] = hop
        BY <2>2, <2>5 DEF ReadyInv, WorkerType
      <4>2. CASE i < Len(server.devs)
        BY <2>4, <2>5, <3>1, <4>1, <4>2 DEF Wired, Hop
      <4>3. CASE ~(i < Len(server.devs))
        <5>1. i = Len(server.devs)
          BY <2>1, <2>5, <4>3
        <5> QED
          BY <2>2, <2>4, <2>5, <3>1, <4>1, <4>3, <5>1 DEF Wired, Hop
      <4> QED
        BY <4>2, <4>3
    <3>2. CASE j # i
      <4>1. Wired(server, j)
        BY <2>1, <2>5, <2>9, <3>2 DEF ReadyInv, Underway
      <4>2. server.keys[j] # k /\ server.devs[j] # d /\ server.devs[j] \in Device
        BY <2>1, <3>2, SolutionApart, SolutionDevices
      <4>3. next_hop'[server.devs[j]] = next_hop[server.devs[j]]
        BY <2>2, <4>2 DEF ReadyInv, WorkerType
      <4> QED
        BY <2>2, <2>4, <4>1, <4>3 DEF Wired
    <3> QED
      BY <3>1, <3>2
  <2>10. Underway'
    <3>1. CASE i < Len(server.devs)
      <4>1. \A j \in DOMAIN server.devs : j < i + 1 => j <= i
        BY <2>1, <2>5
      <4>2. deploy'.pc = "wire" /\ deploy'.i = i + 1
        BY <2>3, <3>1
      <4> QED
        BY <2>4, <2>8, <2>9, <4>1, <4>2 DEF Underway
    <3>2. CASE ~(i < Len(server.devs))
      <4>1. \A j \in DOMAIN server.devs : j <= i
        BY <2>1, <2>5, <3>2
      <4>2. deploy'.pc = "backup" /\ (eager_backup => deploy'.todo = DOMAIN server.devs)
        BY <2>3, <3>2
      <4> QED
        BY <2>4, <2>8, <2>9, <4>1, <4>2 DEF Underway
    <3> QED
      BY <3>1, <3>2
  <2> QED
    BY <2>4, <2>7, <2>10 DEF ReadyInv
<1> QED
  BY <1>1, <1>2

\* A backup joins what is there, and its range has no other owner.
LEMMA LoadBackupReady ==
  ASSUME IInv, ReadyInv, NEW i \in DOMAIN server.devs, LoadBackup(i)
  PROVE  ReadyInv'
<1>1. CASE Fails
  BY <1>1, FailsReady
<1>2. CASE ~Fails
  <2> DEFINE d == server.devs[i]
             r == server.keys[i]
             k == server.recovery[d]
  <2>1. /\ deploy.pc = "backup" /\ server \in Solutions
        /\ stages \in [Device -> SUBSET Key]
        /\ backup_for \in [Device -> [Key -> MaybeDevice]]
        /\ deploy \in [pc : {"idle", "load", "wire", "backup", "failed"}, i : Nat, todo : SUBSET Nat]
    BY DEF LoadBackup, IInv, DeployType, ReadyInv, WorkerType
  <2>2. /\ IF k = NoDevice THEN UNCHANGED <<stages, backup_for>>
           ELSE /\ stages' = [stages EXCEPT ![k] = @ \cup {r}]
                /\ backup_for' = [backup_for EXCEPT ![k][r] = d]
        /\ deploy' = [deploy EXCEPT !.todo = @ \ {i}]
        /\ UNCHANGED <<next_hop, head>> /\ Proceeds
    BY <1>2 DEF LoadBackup, load_backup, BackupKey
  <2>3. deploy'.pc = "backup" /\ deploy'.todo = deploy.todo \ {i}
    BY <2>1, <2>2
  <2>4. GatewayType' /\ RequestType' /\ UNCHANGED <<crashed, lost, raced, deploys, server>>
    BY <2>2, <2>3, ProceedsReady
  <2>5. d \in Device /\ k \in MaybeDevice /\ r \in Key
    BY <2>1, SolutionDevices, KeyOfStage
  <2>6. k # NoDevice => k \in Device
    BY <2>5 DEF MaybeDevice
  <2>7. WorkerType'
    <3>1. backup_for' \in [Device -> [Key -> MaybeDevice]]
      <4>1. CASE k = NoDevice
        BY <2>1, <2>2, <4>1
      <4>2. CASE k # NoDevice
        <5>1. d \in MaybeDevice
          BY <2>5 DEF MaybeDevice
        <5>2. [backup_for[k] EXCEPT ![r] = d] \in [Key -> MaybeDevice]
          BY <2>1, <2>6, <4>2, <5>1
        <5> QED
          BY <2>1, <2>2, <4>2, <5>2
      <4> QED
        BY <4>1, <4>2
    <3> QED
      BY <2>2, <2>4, <3>1 DEF ReadyInv, WorkerType
  <2>8. \A e \in Device : stages[e] \subseteq stages'[e]
    BY <2>1, <2>2
  <2>9. ASSUME NEW j \in DOMAIN server.devs
        PROVE  Loaded(server, j)' /\ Wired(server, j)'
    <3>1. Loaded(server, j) /\ Wired(server, j)
      BY <2>1 DEF ReadyInv, Underway
    <3>2. server.devs[j] \in Device
      BY <2>1, SolutionDevices
    <3>3. Loaded(server, j)'
      BY <2>4, <2>8, <3>1, <3>2 DEF Loaded
    <3>4. Wired(server, j)'
      BY <2>2, <2>4, <3>1 DEF Wired
    <3> QED
      BY <3>3, <3>4
  <2>10. BackedUp(server, i)'
    <3>1. CASE k = NoDevice
      BY <2>4, <3>1 DEF BackedUp
    <3>2. CASE k # NoDevice
      <4>1. stages'[k] = stages[k] \cup {r} /\ backup_for'[k][r] = d
        BY <2>1, <2>2, <2>5, <2>6, <3>2
      <4> QED
        BY <2>4, <4>1 DEF BackedUp
    <3> QED
      BY <3>1, <3>2
  <2>11. ASSUME NEW j \in DOMAIN server.devs, j # i, eager_backup, j \notin deploy.todo
         PROVE  BackedUp(server, j)'
    <3> DEFINE e == server.recovery[server.devs[j]]
    <3>1. BackedUp(server, j)
      BY <2>1, <2>11 DEF ReadyInv, Underway
    <3>2. server.keys[j] # r /\ server.keys[j] \in Key /\ e \in MaybeDevice
      BY <2>1, <2>11, SolutionApart, SolutionDevices, KeyOfStage
    <3>3. CASE e = NoDevice
      BY <2>4, <3>3 DEF BackedUp
    <3>4. CASE e # NoDevice
      <4>1. e \in Device
        BY <3>2, <3>4 DEF MaybeDevice
      <4>2. backup_for'[e][server.keys[j]] = backup_for[e][server.keys[j]]
        <5>1. CASE k = NoDevice \/ e # k
          BY <2>1, <2>2, <4>1, <5>1
        <5>2. CASE k # NoDevice /\ e = k
          <6>1. backup_for'[k] = [backup_for[k] EXCEPT ![r] = d]
            BY <2>1, <2>2, <2>6, <5>2
          <6>2. backup_for[k] \in [Key -> MaybeDevice]
            BY <2>1, <2>6, <5>2
          <6> QED
            BY <3>2, <5>2, <6>1, <6>2
        <5> QED
          BY <5>1, <5>2
      <4> QED
        BY <2>4, <2>8, <3>1, <4>1, <4>2 DEF BackedUp
    <3> QED
      BY <3>3, <3>4
  <2>12. Underway'
    BY <2>3, <2>4, <2>9, <2>10, <2>11 DEF Underway
  <2> QED
    BY <2>4, <2>7, <2>12 DEF ReadyInv
<1> QED
  BY <1>1, <1>2

\* The gateway is bound to what has just been deployed.
LEMMA RebindReady ==
  ASSUME IInv, ReadyInv, Rebind
  PROVE  ReadyInv'
<1>1. /\ deploy.pc = "backup" /\ deploy.todo = {} /\ server \in Solutions
      /\ deploy \in [pc : {"idle", "load", "wire", "backup", "failed"}, i : Nat, todo : SUBSET Nat]
  BY DEF Rebind, IInv, DeployType
<1>2. /\ bound' = server /\ plan' = server.devs /\ deploy' = [deploy EXCEPT !.pc = "idle"]
      /\ UNCHANGED <<crashed, workers, server, req, counts, lost, raced>>
  BY DEF Rebind
<1>3. deploy'.pc = "idle" /\ PlanShape(server, server.devs) /\ server # NoSolution
  <2>1. Len(NoSolution.devs) = 0
    BY DEF NoSolution
  <2>2. Len(server.devs) # 0
    BY <1>1, SolutionShape
  <2> QED
    BY <1>1, <1>2, <2>1, <2>2, OwnersArePlan
<1>4. WorkerType'
  BY <1>2 DEF ReadyInv, WorkerType, workers, counts
<1>5. GatewayType'
  BY <1>1, <1>2, <1>3 DEF GatewayType
<1>6. RequestType'
  BY <1>2, <1>3 DEF ReadyInv, RequestType
<1>7. Underway'
  BY <1>1, <1>2, <1>3 DEF ReadyInv, Underway, Loaded, Wired, BackedUp, workers
<1> QED
  BY <1>4, <1>5, <1>6, <1>7 DEF ReadyInv

\* What is claimed is kept when each stage keeps it.
LEMMA PointwiseReady ==
  ASSUME IInv, ReadyInv, UNCHANGED <<server, deploy, bound>>,
         server \in Solutions => \A j \in DOMAIN server.devs :
           /\ Loaded(server, j) => Loaded(server, j)'
           /\ deploy.pc \notin {"load", "failed"} /\ Wired(server, j) => Wired(server, j)'
           /\ BackedUp(server, j) => BackedUp(server, j)'
  PROVE  Underway'
<1>1. deploy.pc \in {"load", "wire", "backup"} => server \in Solutions
  BY DEF IInv, DeployType
<1>2. deploy.pc = "idle" /\ bound # NoSolution => server \in Solutions
  BY DEF ReadyInv, GatewayType
<1>3. Underway
  BY DEF ReadyInv
<1>4. CASE server \notin Solutions
  BY <1>1, <1>2, <1>4 DEF Underway
<1>5. CASE server \in Solutions
  <2>1. /\ deploy'.pc = deploy.pc /\ deploy'.i = deploy.i /\ deploy'.todo = deploy.todo
        /\ server' = server /\ bound' = bound
    OBVIOUS
  <2>2. \A j \in DOMAIN server.devs :
           /\ Loaded(server, j) => Loaded(server, j)'
           /\ deploy.pc \notin {"load", "failed"} /\ Wired(server, j) => Wired(server, j)'
           /\ BackedUp(server, j) => BackedUp(server, j)'
    BY <1>5
  <2>3. CASE deploy.pc = "load"
    BY <1>3, <2>1, <2>2, <2>3 DEF Underway
  <2>4. CASE deploy.pc = "wire"
    BY <1>3, <2>1, <2>2, <2>4 DEF Underway
  <2>5. CASE deploy.pc = "backup"
    BY <1>3, <2>1, <2>2, <2>5 DEF Underway
  <2>6. CASE deploy.pc = "idle"
    BY <1>3, <2>1, <2>2, <2>6 DEF Underway
  <2>7. CASE deploy.pc \notin {"load", "wire", "backup", "idle"}
    BY <2>1, <2>7 DEF Underway
  <2> QED
    BY <2>3, <2>4, <2>5, <2>6, <2>7
<1> QED
  BY <1>4, <1>5

\* Whoever crashes has lost what it held, and counts as lost.
LEMMA CrashReady ==
  ASSUME IInv, ReadyInv, NEW d \in Device, Crash(d)
  PROVE  ReadyInv'
<1>1. /\ crashed' = crashed \cup {d} /\ lost' = lost \cup {d}
      /\ stages' = [stages EXCEPT ![d] = {}]
      /\ backup_for' = [backup_for EXCEPT ![d] = NoOwner]
      /\ next_hop' = [next_hop EXCEPT ![d] = Unwired]
      /\ head' = head \ {d}
      /\ UNCHANGED <<server, deploy, bound, dead, plan, req, deploys, raced>>
  BY DEF Crash, gateway
<1>2. /\ stages \in [Device -> SUBSET Key] /\ next_hop \in [Device -> [Key -> HopType]]
      /\ backup_for \in [Device -> [Key -> MaybeDevice]]
  BY DEF IInv, DeployType, ReadyInv, WorkerType
<1>3. NoOwner \in [Key -> MaybeDevice] /\ Unwired \in [Key -> HopType]
  BY DEF NoOwner, Unwired, NoHop, HopType, MaybeDevice
<1>4. WorkerType'
  BY <1>1, <1>3 DEF ReadyInv, WorkerType
<1>5. GatewayType' /\ RequestType'
  BY <1>1 DEF ReadyInv, GatewayType, RequestType
<1>6. ASSUME NEW j \in DOMAIN server.devs, server \in Solutions
      PROVE  /\ Loaded(server, j) => Loaded(server, j)'
             /\ Wired(server, j) => Wired(server, j)'
             /\ BackedUp(server, j) => BackedUp(server, j)'
  <2>1. server.devs[j] \in Device /\ server.recovery[server.devs[j]] \in MaybeDevice
    BY <1>6, SolutionDevices
  <2>2. \A e \in Device \ {d} : /\ stages'[e] = stages[e] /\ next_hop'[e] = next_hop[e]
                               /\ backup_for'[e] = backup_for[e]
    BY <1>1, <1>2
  <2>3. Loaded(server, j) => Loaded(server, j)'
    BY <1>1, <2>1, <2>2 DEF Loaded
  <2>4. Wired(server, j) => Wired(server, j)'
    BY <1>1, <2>1, <2>2 DEF Wired
  <2>5. BackedUp(server, j) => BackedUp(server, j)'
    BY <1>1, <2>1, <2>2 DEF BackedUp, MaybeDevice
  <2> QED
    BY <2>3, <2>4, <2>5
<1>7. Underway'
  BY <1>1, <1>6, PointwiseReady
<1> QED
  BY <1>4, <1>5, <1>7 DEF ReadyInv

\* The workers keep what they hold, the coordinator forgets it.
LEMMA RestartCoordinatorReady ==
  ASSUME ReadyInv, RestartCoordinator
  PROVE  ReadyInv'
<1> USE DEF RestartCoordinator, workers, counts
<1>1. WorkerType'
  BY DEF ReadyInv, WorkerType
<1>2. GatewayType'
  BY DEF GatewayType
<1>3. RequestType'
  <2>1. req' = NoRequest /\ NoRequest.pc = "idle"
    BY DEF NoRequest
  <2>2. << >> \in Seq(Device)
    OBVIOUS
  <2>3. NoRequest \in Requests
    BY <2>2 DEF NoRequest, Requests, MaybeDevice, Solution
  <2> QED
    BY <2>1, <2>3 DEF RequestType
<1>4. Underway'
  <2>1. bound' = NoSolution /\ deploy'.pc \notin {"load", "wire", "backup"}
    <3>1. deploy' = [deploy EXCEPT !.pc = "idle", !.i = 1, !.todo = {}]
      OBVIOUS
    <3> QED
      BY <3>1
  <2> QED
    BY <2>1 DEF Underway
<1> QED
  BY <1>1, <1>2, <1>3, <1>4 DEF ReadyInv

\* A mark or a revive gives the bound solution a plan of its own, or leaves it.
LEMMA MarkKeepsShape ==
  ASSUME ReadyInv, bound \in Solutions, bound # NoSolution, NEW D,
         plan' = IF Viable(bound.devs, bound.recovery, D)
                 THEN build_execution_plan(bound.devs, bound.recovery, D) ELSE plan
  PROVE  PlanShape(bound, plan')
<1>1. PlanShape(bound, plan)
  BY DEF ReadyInv, GatewayType
<1>2. ASSUME NEW q \in Solutions
      PROVE  Viable(q.devs, q.recovery, D) =>
               PlanShape(q, build_execution_plan(q.devs, q.recovery, D))
  BY BuiltIsPlan
<1>3. Viable(bound.devs, bound.recovery, D) =>
        PlanShape(bound, build_execution_plan(bound.devs, bound.recovery, D))
  BY <1>2
<1> QED
  BY <1>1, <1>3

LEMMA MarksReady ==
  ASSUME IInv, ReadyInv, NEW d \in Device, OnFailure(d) \/ Revive(d)
  PROVE  ReadyInv'
<1>1. /\ UNCHANGED <<crashed, workers, server, deploy, bound, req, counts, lost, raced>>
      /\ bound # NoSolution => PlanShape(bound, plan')
  <2>1. CASE OnFailure(d)
    <3>1. bound # NoSolution => bound \in Solutions
      BY DEF ReadyInv, GatewayType
    <3>2. plan' = IF Viable(bound.devs, bound.recovery, dead')
                  THEN build_execution_plan(bound.devs, bound.recovery, dead') ELSE plan
      BY <2>1 DEF OnFailure, MarkDead
    <3>3. bound # NoSolution => PlanShape(bound, plan')
      BY <3>1, <3>2, MarkKeepsShape
    <3> QED
      BY <2>1, <3>3 DEF OnFailure
  <2>2. CASE Revive(d)
    <3>1. bound # NoSolution => bound \in Solutions
      BY DEF ReadyInv, GatewayType
    <3>2. plan' = IF Viable(bound.devs, bound.recovery, dead')
                  THEN build_execution_plan(bound.devs, bound.recovery, dead') ELSE plan
      BY <2>2 DEF Revive
    <3>3. bound # NoSolution => PlanShape(bound, plan')
      BY <3>1, <3>2, MarkKeepsShape
    <3> QED
      BY <2>2, <3>3 DEF Revive
  <2> QED
    BY <2>1, <2>2
<1>2. WorkerType'
  BY <1>1 DEF ReadyInv, WorkerType, workers, counts
<1>3. GatewayType'
  BY <1>1 DEF ReadyInv, GatewayType
<1>4. RequestType'
  BY <1>1 DEF ReadyInv, RequestType
<1>5. Underway'
  BY <1>1, KeptReady
<1> QED
  BY <1>2, <1>3, <1>4, <1>5 DEF ReadyInv

-----------------------------------------------------------------------------
(* The request thread. *)

LEMMA IdleRequest == NoRequest \in Requests /\ NoRequest.pc = "idle"
<1>1. << >> \in Seq(Device)
  OBVIOUS
<1> QED
  BY <1>1 DEF NoRequest, Requests, MaybeDevice, Solution

\* A call goes to the head of the plan.
LEMMA CallType ==
  ASSUME ReadyInv, bound # NoSolution
  PROVE  LET r == CallHead(NoRequest)
         IN r \in Requests /\ r.pc = "walk" /\ r.dev \in Device /\ r.key \in Key
<1>1. bound \in Solutions /\ PlanShape(bound, plan) /\ deploys \in Nat
  BY DEF ReadyInv, GatewayType, WorkerType
<1>2. 1 \in DOMAIN bound.devs
  BY <1>1, SolutionShape
<1>3. plan[1] \in Device /\ bound.keys[1] \in Key
  <2>1. DOMAIN bound.devs = 1..Len(bound.devs) /\ DOMAIN plan = 1..Len(plan)
    BY <1>1, SolutionShape DEF PlanShape
  <2> QED
    BY <1>1, <1>2, <2>1, KeyOfStage DEF PlanShape
<1>4. (IF deploy.pc = "idle" THEN deploys ELSE 0) \in Nat
  BY <1>1
<1> QED
  BY <1>3, <1>4, IdleRequest DEF CallHead, Requests, MaybeDevice

\* A request that wires nothing and calls nobody.
LEMMA RestingType ==
  ASSUME req' \in Requests, req'.pc \notin {"walk", "rewire"}, bound' = bound,
         req'.pc = "idle" \/ bound # NoSolution
  PROVE  RequestType'
  BY DEF RequestType

LEMMA StepCalls == ASSUME ReadyInv, Step PROVE RequestType'
<1>1. bound # NoSolution /\ bound' = bound /\ req' = CallHead(NoRequest)
  BY DEF Step, Server
<1> QED
  BY <1>1, CallType DEF RequestType

LEMMA RunStageType == ASSUME IInv, ReadyInv, RunStage PROVE RequestType'
<1> DEFINE hop == next_hop[req.dev][req.key]
<1>1. /\ req.pc = "walk" /\ req \in Requests /\ bound # NoSolution /\ bound' = bound
      /\ req.dev \in Device /\ req.key \in Key
      /\ next_hop \in [Device -> [Key -> HopType]]
  BY DEF RunStage, ReadyInv, RequestType, WorkerType, Server
<1>2. hop \in HopType
  BY <1>1
<1>3. \/ req' = NoRequest
      \/ req' = [req EXCEPT !.pc = "blame"]
      \/ req' = [req EXCEPT !.pc = "answered"]
      \/ hop # NoHop /\ req' = [req EXCEPT !.dev = hop.dev, !.key = hop.key, !.first = FALSE]
  BY DEF RunStage
<1>4. CASE req' = NoRequest
  BY <1>1, <1>4, IdleRequest, RestingType
<1>5. CASE req' = [req EXCEPT !.pc = "blame"]
  <2>1. req' \in Requests /\ req'.pc = "blame"
    BY <1>1, <1>5 DEF Requests
  <2> QED
    BY <1>1, <2>1, RestingType
<1>6. CASE req' = [req EXCEPT !.pc = "answered"]
  <2>1. req' \in Requests /\ req'.pc = "answered"
    BY <1>1, <1>6 DEF Requests
  <2> QED
    BY <1>1, <2>1, RestingType
<1>7. CASE hop # NoHop /\ req' = [req EXCEPT !.dev = hop.dev, !.key = hop.key, !.first = FALSE]
  <2>1. hop.dev \in Device /\ hop.key \in Key
    BY <1>2, <1>7 DEF HopType
  <2>2. req' \in Requests /\ req'.pc = "walk" /\ req'.dev = hop.dev /\ req'.key = hop.key
    BY <1>1, <1>7, <2>1 DEF Requests, MaybeDevice
  <2> QED
    BY <1>1, <2>1, <2>2 DEF RequestType
<1> QED
  BY <1>3, <1>4, <1>5, <1>6, <1>7

\* The device that is blamed is one of the placement, or the head that was called.
LEMMA BlamedType ==
  ASSUME ReadyInv, req.pc = "blame"
  PROVE  Blamed \in MaybeDevice
<1>1. req \in Requests /\ bound \in Solutions
  BY DEF ReadyInv, RequestType, GatewayType
<1>2. \A j \in DOMAIN bound.keys : bound.devs[j] \in Device
  BY <1>1, SolutionShape, SolutionDevices
<1>3. CASE ~req.first /\ \E j \in DOMAIN bound.keys : bound.keys[j] = req.key
  <2>1. (CHOOSE j \in DOMAIN bound.keys : bound.keys[j] = req.key) \in DOMAIN bound.keys
    BY <1>3
  <2> QED
    BY <1>2, <1>3, <2>1 DEF Blamed, MaybeDevice
<1>4. CASE ~(~req.first /\ \E j \in DOMAIN bound.keys : bound.keys[j] = req.key)
  BY <1>1, <1>4 DEF Blamed, Requests
<1> QED
  BY <1>3, <1>4

LEMMA BlameType == ASSUME ReadyInv, Blame PROVE RequestType'
<1>1. req.pc = "blame" /\ bound # NoSolution /\ bound' = bound
  BY DEF Blame, ReadyInv, RequestType, Server
<1>2. req' = NoRequest \/ req' = [NoRequest EXCEPT !.pc = "promote", !.victim = Blamed]
  BY DEF Blame
<1>3. CASE req' = NoRequest
  BY <1>1, <1>3, IdleRequest, RestingType
<1>4. CASE req' = [NoRequest EXCEPT !.pc = "promote", !.victim = Blamed]
  <2>1. req' \in Requests /\ req'.pc = "promote"
    BY <1>1, <1>4, BlamedType, IdleRequest DEF Requests
  <2> QED
    BY <1>1, <2>1, RestingType
<1> QED
  BY <1>2, <1>3, <1>4

LEMMA PromoteType == ASSUME ReadyInv, Promote PROVE RequestType'
<1>1. req.pc = "promote" /\ bound # NoSolution /\ bound' = bound
  BY DEF Promote, ReadyInv, RequestType, Server
<1>2. bound \in Solutions /\ PlanShape(bound, plan) /\ plan \in Seq(Device)
  BY <1>1 DEF ReadyInv, GatewayType, PlanShape
<1>3. \/ req' = NoRequest
      \/ req' = [NoRequest EXCEPT !.pc = "rewire", !.i = 1, !.rplan = plan, !.of = bound]
  BY DEF Promote
<1>4. CASE req' = NoRequest
  BY <1>1, <1>4, IdleRequest, RestingType
<1>5. CASE req' = [NoRequest EXCEPT !.pc = "rewire", !.i = 1, !.rplan = plan, !.of = bound]
  <2>1. /\ req' \in Requests /\ req'.pc = "rewire" /\ req'.i = 1
        /\ req'.rplan = plan /\ req'.of = bound
    BY <1>2, <1>5, IdleRequest DEF Requests, Solution
  <2>2. 1 \in DOMAIN bound.devs
    BY <1>2, SolutionShape
  <2> QED
    BY <1>1, <1>2, <2>1, <2>2 DEF RequestType
<1> QED
  BY <1>3, <1>4, <1>5

LEMMA RewireType == ASSUME ReadyInv, Rewire PROVE RequestType'
<1>1. /\ req.pc = "rewire" /\ req \in Requests /\ bound # NoSolution /\ bound' = bound
      /\ req.of \in Solutions /\ PlanShape(req.of, req.rplan) /\ req.i \in DOMAIN req.of.devs
  BY DEF Rewire, ReadyInv, RequestType, Server
<1>2. \/ req.i < Len(req.rplan) /\ req' = [req EXCEPT !.i = req.i + 1]
      \/ req' = [CallHead(NoRequest) EXCEPT !.recovering = TRUE]
  BY DEF Rewire
<1>3. CASE req.i < Len(req.rplan) /\ req' = [req EXCEPT !.i = req.i + 1]
  <2>1. req.i + 1 \in DOMAIN req.of.devs /\ req.i + 1 \in Nat
    BY <1>1, <1>3, SolutionShape DEF PlanShape
  <2>2. /\ req' \in Requests /\ req'.pc = "rewire" /\ req'.i = req.i + 1
        /\ req'.rplan = req.rplan /\ req'.of = req.of
    BY <1>1, <1>3, <2>1 DEF Requests
  <2> QED
    BY <1>1, <2>1, <2>2 DEF RequestType
<1>4. CASE req' = [CallHead(NoRequest) EXCEPT !.recovering = TRUE]
  <2> DEFINE r == CallHead(NoRequest)
  <2>1. r \in Requests /\ r.pc = "walk" /\ r.dev \in Device /\ r.key \in Key
    BY <1>1, CallType
  <2> HIDE DEF r
  <2>2. req' \in Requests /\ req'.pc = "walk" /\ req'.dev = r.dev /\ req'.key = r.key
    BY <1>4, <2>1 DEF Requests, r
  <2> QED
    BY <1>1, <2>1, <2>2 DEF RequestType
<1> QED
  BY <1>2, <1>3, <1>4

-----------------------------------------------------------------------------
(* A recovery wires the chain. *)

\* One SetNextHop of a recovery that has the bound plan, with no deploy under
\* way, puts a next hop that is as right as the one it replaces.
LEMMA RewireKeepsWired ==
  ASSUME NEW q \in Solutions, NEW p, PlanShape(q, p), NEW i \in DOMAIN q.devs,
         next_hop \in [Device -> [Key -> HopType]],
         SetNextHop(p, q.keys, i), UNCHANGED <<head, lost, raced>>,
         NEW j \in DOMAIN q.devs, Wired(q, j)
  PROVE  Wired(q, j)'
<1> DEFINE d == p[i]
           k == q.keys[i]
<1>1. /\ DOMAIN q.devs = 1..Len(q.devs) /\ Len(q.devs) \in Nat \ {0} /\ Len(p) = Len(q.devs)
      /\ p \in Seq(Device) /\ d \in Device /\ k \in Key
  BY SolutionShape, KeyOfStage DEF PlanShape
<1>2. q.devs[j] \in Device /\ q.keys[j] \in Key
  BY SolutionDevices, KeyOfStage
<1>3. next_hop' = [next_hop EXCEPT ![d][k] = Hop(p, q.keys, i)]
  BY DEF SetNextHop
<1>4. CASE j # i \/ d # q.devs[j]
  <2>1. next_hop'[q.devs[j]][q.keys[j]] = next_hop[q.devs[j]][q.keys[j]]
    <3>1. CASE d # q.devs[j]
      BY <1>1, <1>2, <1>3, <3>1
    <3>2. CASE d = q.devs[j] /\ j # i
      <4>1. q.keys[j] # k
        BY <3>2, SolutionApart
      <4>2. next_hop'[d] = [next_hop[d] EXCEPT ![k] = Hop(p, q.keys, i)]
        BY <1>1, <1>3
      <4>3. next_hop[d] \in [Key -> HopType]
        BY <1>1
      <4> QED
        BY <1>2, <3>2, <4>1, <4>2, <4>3
    <3> QED
      BY <1>4, <3>1, <3>2
  <2> QED
    BY <2>1 DEF Wired
<1>5. CASE j = i /\ d = q.devs[j]
  <2>1. next_hop'[q.devs[j]][q.keys[j]] = Hop(p, q.keys, i)
    BY <1>1, <1>3, <1>5
  <2>2. CASE i < Len(p)
    <3>1. /\ Hop(p, q.keys, i).dev = p[i + 1] /\ Hop(p, q.keys, i).key = q.keys[i + 1]
          /\ i # Len(q.devs) /\ i + 1 \in DOMAIN q.devs
      BY <1>1, <2>2 DEF Hop
    <3>2. p[i + 1] \in {q.devs[i + 1], q.recovery[q.devs[i + 1]]}
      BY <3>1 DEF PlanShape
    <3> QED
      BY <1>5, <2>1, <3>1, <3>2 DEF Wired
  <2>3. CASE ~(i < Len(p))
    <3>1. Hop(p, q.keys, i) = NoHop /\ i = Len(q.devs)
      BY <1>1, <2>3 DEF Hop
    <3> QED
      BY <1>5, <2>1, <3>1 DEF Wired
  <2> QED
    BY <2>2, <2>3
<1> QED
  BY <1>4, <1>5

LEMMA RewireReady ==
  ASSUME IInv, ReadyInv, Rewire
  PROVE  ReadyInv'
<1> DEFINE d == req.rplan[req.i]
           other == req.of # bound \/ deploy.pc \in {"wire", "backup"}
<1>1. /\ req.pc = "rewire" /\ bound # NoSolution /\ bound \in Solutions
      /\ req.of \in Solutions /\ PlanShape(req.of, req.rplan) /\ req.i \in DOMAIN req.of.devs
      /\ next_hop \in [Device -> [Key -> HopType]] /\ raced \in BOOLEAN
  BY DEF Rewire, ReadyInv, RequestType, GatewayType, WorkerType
<1>2. /\ UNCHANGED <<crashed, server, deploy, bound, counts, lost>>
      /\ UNCHANGED <<stages, backup_for, head, dead, plan>>
      /\ \/ UNCHANGED <<next_hop, raced>>
         \/ SetNextHop(req.rplan, req.of.keys, req.i) /\ raced' = (raced \/ other)
  BY DEF Rewire, Server
<1>3. next_hop' \in [Device -> [Key -> HopType]]
  <2>1. Hop(req.rplan, req.of.keys, req.i) \in HopType
    <3>1. CASE req.i < Len(req.rplan)
      <4>1. req.i + 1 \in DOMAIN req.of.devs /\ req.i + 1 \in DOMAIN req.rplan
        BY <1>1, <3>1, SolutionShape DEF PlanShape
      <4>2. req.rplan[req.i + 1] \in Device /\ req.of.keys[req.i + 1] \in Key
        BY <1>1, <4>1, KeyOfStage DEF PlanShape
      <4> QED
        BY <3>1, <4>2 DEF Hop, HopType
    <3>2. CASE ~(req.i < Len(req.rplan))
      BY <3>2 DEF Hop, HopType
    <3> QED
      BY <3>1, <3>2
  <2>2. CASE next_hop' = next_hop
    BY <1>1, <2>2
  <2>3. CASE SetNextHop(req.rplan, req.of.keys, req.i)
    BY <1>1, <2>1, <2>3 DEF SetNextHop
  <2> QED
    BY <1>2, <2>2, <2>3
<1>4. WorkerType'
  <2>1. raced' \in BOOLEAN
    BY <1>1, <1>2
  <2> QED
    BY <1>2, <1>3, <2>1 DEF ReadyInv, WorkerType, counts
<1>5. GatewayType'
  BY <1>2 DEF ReadyInv, GatewayType
<1>6. RequestType'
  BY RewireType
<1>7. Underway'
  <2>1. ASSUME NEW j \in DOMAIN server.devs, server \in Solutions
        PROVE  /\ Loaded(server, j) => Loaded(server, j)'
               /\ BackedUp(server, j) => BackedUp(server, j)'
    BY <1>2 DEF Loaded, BackedUp
  <2>2. ASSUME NEW j \in DOMAIN server.devs, server \in Solutions,
               deploy.pc \notin {"load", "failed"}, Wired(server, j)
        PROVE  Wired(server, j)'
    <3>1. CASE UNCHANGED <<next_hop, raced>>
      BY <1>2, <2>2, <3>1 DEF Wired
    <3>2. CASE raced' = TRUE
      BY <1>2, <3>2 DEF Wired
    <3>3. CASE SetNextHop(req.rplan, req.of.keys, req.i) /\ raced' = (raced \/ other) /\ ~raced'
      <4>1. raced' = raced /\ req.of = bound /\ deploy.pc \notin {"wire", "backup"}
        BY <1>1, <3>3
      <4>2. deploy.pc = "idle"
        BY <2>2, <4>1 DEF IInv, DeployType
      <4>3. bound = server
        BY <1>1, <4>2 DEF ReadyInv, GatewayType
      <4>4. /\ PlanShape(server, req.rplan) /\ req.i \in DOMAIN server.devs
            /\ SetNextHop(req.rplan, server.keys, req.i) /\ UNCHANGED <<head, lost, raced>>
        BY <1>1, <1>2, <3>3, <4>1, <4>3
      <4>5. ASSUME NEW q \in Solutions, q = server
            PROVE  Wired(q, j)'
        BY <1>1, <2>2, <4>4, <4>5, RewireKeepsWired
      <4> QED
        BY <1>2, <2>2, <4>5 DEF Wired
    <3> QED
      BY <1>1, <1>2, <3>1, <3>2, <3>3
  <2> QED
    BY <1>2, <2>1, <2>2, PointwiseReady
<1> QED
  BY <1>4, <1>5, <1>6, <1>7 DEF ReadyInv

\* A request thread that wires nothing leaves the workers as they are.
LEMMA RequestReady ==
  ASSUME IInv, ReadyInv, Request
  PROVE  ReadyInv'
<1>1. CASE Rewire
  BY <1>1, RewireReady
<1>2. CASE Step \/ RunStage \/ Answer \/ Blame \/ Promote
  <2>1. UNCHANGED <<workers, raced, crashed, server, deploy, bound, counts, lost>>
    BY <1>2 DEF Step, RunStage, Answer, Blame, Promote, Server
  <2>2. WorkerType'
    BY <2>1 DEF ReadyInv, WorkerType, workers, counts
  <2>3. GatewayType'
    <3>1. bound # NoSolution => PlanShape(bound, plan')
      <4>1. CASE plan' = plan
        BY <4>1 DEF ReadyInv, GatewayType
      <4>2. ASSUME NEW D, plan' = IF Viable(bound.devs, bound.recovery, D)
                 THEN build_execution_plan(bound.devs, bound.recovery, D) ELSE plan
            PROVE  bound # NoSolution => PlanShape(bound, plan')
        <5>1. bound # NoSolution => bound \in Solutions
          BY DEF ReadyInv, GatewayType
        <5> QED
          BY <4>2, <5>1, MarkKeepsShape
      <4> QED
        BY <1>2, <4>1, <4>2 DEF Step, RunStage, Answer, Blame, Promote, MarkDead
    <3> QED
      BY <2>1, <3>1 DEF ReadyInv, GatewayType
  <2>4. RequestType'
    <3>1. CASE Answer
      <4>1. req' = NoRequest /\ bound' = bound
        BY <3>1 DEF Answer, Server
      <4> QED
        BY <4>1, IdleRequest, RestingType
    <3> QED
      BY <1>2, <3>1, StepCalls, RunStageType, BlameType, PromoteType
  <2>5. Underway'
    BY <2>1, KeptReady
  <2> QED
    BY <2>2, <2>3, <2>4, <2>5 DEF ReadyInv
<1> QED
  BY <1>1, <1>2 DEF Request

LEMMA StepReady == IInv /\ ReadyInv /\ [Next]_vars => ReadyInv'
<1> SUFFICES ASSUME IInv, ReadyInv, [Next]_vars PROVE ReadyInv'
  OBVIOUS
<1>1. ASSUME NEW q \in Solutions, AutoSchedule(q) \/ Reconfigure(q)
      PROVE  ReadyInv'
  BY <1>1, StartReady DEF AutoSchedule, Reconfigure
<1>2. CASE LoadStage
  BY <1>2, LoadStageReady
<1>3. CASE WireStage
  BY <1>3, WireStageReady
<1>4. ASSUME NEW i \in DOMAIN server.devs, LoadBackup(i)
      PROVE  ReadyInv'
  BY <1>4, LoadBackupReady
<1>5. CASE Rebind
  BY <1>5, RebindReady
<1>6. CASE Request
  BY <1>6, RequestReady
<1>7. ASSUME NEW d \in Device, Crash(d)
      PROVE  ReadyInv'
  BY <1>7, CrashReady
<1>8. ASSUME NEW d \in Device, OnFailure(d) \/ Revive(d)
      PROVE  ReadyInv'
  BY <1>8, MarksReady
<1>9. ASSUME NEW d \in Device, Restart(d)
      PROVE  ReadyInv'
  <2>1. /\ crashed' = crashed \ {d}
        /\ UNCHANGED <<workers, server, deploy, gateway, req, counts, lost, raced>>
    BY <1>9 DEF Restart
  <2>2. WorkerType' /\ GatewayType' /\ RequestType'
    BY <2>1 DEF ReadyInv, WorkerType, GatewayType, RequestType, workers, gateway, counts
  <2>3. Underway'
    BY <2>1, KeptReady DEF gateway
  <2> QED
    BY <2>2, <2>3 DEF ReadyInv
<1>10. CASE RestartCoordinator
  BY <1>10, RestartCoordinatorReady
<1>11. CASE UNCHANGED vars
  <2>1. WorkerType' /\ GatewayType' /\ RequestType'
    BY <1>11 DEF ReadyInv, WorkerType, GatewayType, RequestType, vars, workers, gateway, counts
  <2>2. Underway'
    BY <1>11, KeptReady DEF vars, gateway
  <2> QED
    BY <2>1, <2>2 DEF ReadyInv
<1> QED
  BY <1>1, <1>2, <1>3, <1>4, <1>5, <1>6, <1>7, <1>8, <1>9, <1>10, <1>11 DEF Next, Deploying

\* A deploy that is over has left every worker that lived through it with the
\* stage, the backups and the next hop that the bound plan and R take it to have
\* (CoordinatorServer.deploy and rebind_plan), whatever recoveries, failed deploys
\* and restarts came before or since.
THEOREM ReadyWhenDeployed == Spec => []DeployedIsReady
<1>1. Spec => []IInv
  BY InitInvariant, StepInvariant, PTL DEF Spec
<1>2. ReadyInv => DeployedIsReady
  BY DEF ReadyInv, GatewayType, Underway, Loaded, Wired, BackedUp, DeployedIsReady
<1> QED
  BY <1>1, <1>2, InitReady, StepReady, PTL DEF Spec

-----------------------------------------------------------------------------
(* Types.                                                                  *)

\* The dead are workers, and a coordinator without a plan knows of none.
MarksType ==
  /\ server \in Solution
  /\ dead \subseteq Device
  /\ bound = NoSolution => dead = {} /\ plan = << >>
  /\ req.pc \in {"walk", "answered", "blame"} => req.head \in Device

LEMMA NoSolutionIsNone == NoSolution \notin Solutions
<1>1. NoSolution.devs = << >>
  BY DEF NoSolution
<1> QED
  BY <1>1, RedeployAssumption DEF Placements

LEMMA InitMarks == Init => MarksType
  BY DEF Init, MarksType, NoRequest, Solution

\* A call goes to a worker.
LEMMA CallHeadType ==
  ASSUME ReadyInv, bound # NoSolution
  PROVE  plan[1] \in Device /\ CallHead(NoRequest).head = plan[1]
<1>1. bound \in Solutions /\ PlanShape(bound, plan)
  BY DEF ReadyInv, GatewayType
<1>2. 1 \in 1..Len(plan) /\ plan \in Seq(Device)
  BY <1>1, SolutionShape DEF PlanShape
<1> QED
  BY <1>2 DEF CallHead, NoRequest

\* Who is blamed is a worker.
LEMMA BlamedIsWorker ==
  ASSUME ReadyInv, MarksType, req.pc = "blame"
  PROVE  Blamed \in Device
<1>1. bound \in Solutions /\ req.head \in Device
  BY DEF ReadyInv, GatewayType, RequestType, MarksType
<1>2. \A j \in DOMAIN bound.keys : bound.devs[j] \in Device
  BY <1>1, SolutionShape, SolutionDevices
<1>3. CASE ~req.first /\ \E j \in DOMAIN bound.keys : bound.keys[j] = req.key
  <2>1. (CHOOSE j \in DOMAIN bound.keys : bound.keys[j] = req.key) \in DOMAIN bound.keys
    BY <1>3
  <2> QED
    BY <1>2, <1>3, <2>1 DEF Blamed
<1>4. CASE ~(~req.first /\ \E j \in DOMAIN bound.keys : bound.keys[j] = req.key)
  BY <1>1, <1>4 DEF Blamed
<1> QED
  BY <1>3, <1>4

LEMMA RequestMarks == IInv /\ ReadyInv /\ MarksType /\ Request => MarksType'
<1> SUFFICES ASSUME IInv, ReadyInv, MarksType, Request PROVE MarksType'
  OBVIOUS
<1>1. req \in Requests /\ (req.pc # "idle" => bound # NoSolution)
  BY DEF ReadyInv, RequestType
<1>2. CASE Step
  <2>1. bound # NoSolution /\ req' = CallHead(NoRequest) /\ UNCHANGED <<gateway, server>>
    BY <1>2 DEF Step, Server, gateway
  <2> QED
    BY <2>1, CallHeadType DEF MarksType, gateway
<1>3. CASE RunStage
  <2>1. UNCHANGED <<gateway, server>> /\ req.pc = "walk"
    BY <1>3 DEF RunStage, Server, gateway
  <2>2. req'.pc = "idle" \/ req'.head = req.head
    BY <1>1, <1>3 DEF RunStage, NoRequest, Requests
  <2> QED
    BY <2>1, <2>2 DEF MarksType, gateway
<1>4. CASE Answer
  BY <1>4 DEF Answer, Server, MarksType, NoRequest
<1>5. CASE Blame
  <2>1. req.pc = "blame" /\ bound # NoSolution /\ UNCHANGED <<bound, server>> /\ Blamed \in Device
    BY <1>1, <1>5, BlamedIsWorker DEF Blame, Server
  <2>2. dead' = dead \/ dead' = dead \cup {Blamed}
    BY <1>5 DEF Blame, MarkDead
  <2>3. req'.pc \in {"idle", "promote"}
    BY <1>5 DEF Blame, NoRequest
  <2> QED
    BY <2>1, <2>2, <2>3 DEF MarksType
<1>6. CASE Promote
  <2>1. UNCHANGED <<gateway, server>> /\ req'.pc \in {"idle", "rewire"}
    BY <1>6 DEF Promote, Server, NoRequest, gateway
  <2> QED
    BY <2>1 DEF MarksType, gateway
<1>7. CASE Rewire
  <2>1. UNCHANGED <<gateway, server>> /\ bound # NoSolution /\ req.pc = "rewire"
    BY <1>1, <1>7 DEF Rewire, Server, gateway
  <2>2. \/ req'.pc = "rewire"
        \/ req' = [CallHead(NoRequest) EXCEPT !.recovering = TRUE]
    BY <1>1, <1>7 DEF Rewire, Requests
  <2>3. CASE req' = [CallHead(NoRequest) EXCEPT !.recovering = TRUE]
    <3>1. PICK r \in Requests : r = CallHead(NoRequest) /\ r.head \in Device
      BY <2>1, CallType, CallHeadType
    <3>2. req'.head = r.head
      BY <2>3, <3>1 DEF Requests
    <3> QED
      BY <2>1, <3>1, <3>2 DEF MarksType, gateway
  <2> QED
    BY <2>1, <2>2, <2>3 DEF MarksType, gateway
<1> QED
  BY <1>2, <1>3, <1>4, <1>5, <1>6, <1>7 DEF Request

LEMMA NextMarks == IInv /\ ReadyInv /\ MarksType /\ [Next]_vars => MarksType'
<1> SUFFICES ASSUME IInv, ReadyInv, MarksType, [Next]_vars PROVE MarksType'
  OBVIOUS
<1>1. CASE UNCHANGED <<gateway, req, server>>
  BY <1>1 DEF MarksType, gateway
<1>2. CASE Request
  BY <1>2, RequestMarks
<1>3. CASE Rebind
  <2>1. server \in Solutions /\ bound' = server /\ dead' = {} /\ UNCHANGED <<req, server>>
    BY <1>3 DEF Rebind, IInv, DeployType
  <2> QED
    BY <2>1, NoSolutionIsNone DEF MarksType, Solution
<1>4. CASE RestartCoordinator
  BY <1>4 DEF RestartCoordinator, MarksType, NoRequest, Solution
<1>5. ASSUME NEW d \in Device, OnFailure(d) \/ Revive(d)
      PROVE  MarksType'
  <2>1. bound # NoSolution /\ UNCHANGED <<bound, req, server>> /\ dead' \subseteq Device
    BY <1>5 DEF OnFailure, Revive, MarkDead, MarksType
  <2> QED
    BY <2>1 DEF MarksType
<1>6. CASE UNCHANGED vars
  BY <1>1, <1>6 DEF vars
<1>7. ASSUME NEW q \in Solutions, AutoSchedule(q) \/ Reconfigure(q)
      PROVE  MarksType'
  BY <1>7 DEF AutoSchedule, Reconfigure, StartDeploy, MarksType, Solution, gateway
<1>8. CASE LoadStage \/ WireStage \/ \E i \in DOMAIN server.devs : LoadBackup(i)
  BY <1>1, <1>8 DEF LoadStage, WireStage, LoadBackup, Fails, Proceeds
<1>9. ASSUME NEW d \in Device, Crash(d) \/ Restart(d)
      PROVE  MarksType'
  BY <1>1, <1>9 DEF Crash, Restart
<1> QED
  BY <1>2, <1>3, <1>4, <1>5, <1>6, <1>7, <1>8, <1>9 DEF Next, Deploying

\* Every value has its type: no deploy works on a solution that is not there, no
\* request runs without a plan, a plan has a worker for every range of the bound
\* solution, and only workers are dead.
THEOREM TypesHold == Spec => []TypeOK
<1>1. Spec => []IInv
  BY InitInvariant, StepInvariant, PTL DEF Spec
<1>2. Spec => []ReadyInv
  BY <1>1, InitReady, StepReady, PTL DEF Spec
<1>3. Spec => []MarksType
  BY <1>1, <1>2, InitMarks, NextMarks, PTL DEF Spec
<1>4. IInv /\ ReadyInv /\ MarksType => TypeOK
  <2> SUFFICES ASSUME IInv, ReadyInv, MarksType PROVE TypeOK
    OBVIOUS
  <2>1. /\ crashed \subseteq Device /\ lost \subseteq Device /\ head \subseteq Device
        /\ stages \in [Device -> SUBSET Key]
        /\ backup_for \in [Device -> [Key -> MaybeDevice]]
        /\ next_hop \in [Device -> [Key -> HopType]]
        /\ raced \in BOOLEAN
    BY DEF IInv, DeployType, ReadyInv, WorkerType
  <2>2. /\ deploy.pc \in {"idle", "load", "wire", "backup", "failed"}
        /\ deploy.pc \in {"load", "wire", "backup"} => server # NoSolution
        /\ deploy.i \in Nat /\ deploy.todo \subseteq Nat
    BY NoSolutionIsNone DEF IInv, DeployType
  <2>3. bound \in Solution
    BY DEF ReadyInv, GatewayType, Solution
  <2>4. plan \in Seq(Device) /\ Len(plan) = Len(bound.devs)
    <3>1. CASE bound = NoSolution
      BY <3>1 DEF MarksType, NoSolution
    <3>2. CASE bound # NoSolution
      BY <3>2 DEF ReadyInv, GatewayType, PlanShape
    <3> QED
      BY <3>1, <3>2
  <2>5. /\ req.pc \in {"idle", "walk", "answered", "blame", "promote", "rewire"}
        /\ req.pc # "idle" => bound # NoSolution
    BY DEF ReadyInv, RequestType, Requests
  <2> QED
    BY <2>1, <2>2, <2>3, <2>4, <2>5 DEF TypeOK, MarksType
<1> QED
  BY <1>1, <1>2, <1>3, <1>4, PTL

-----------------------------------------------------------------------------
(* No call is cut short.                                                   *)
(*                                                                         *)
(* A chain W of the bound plan has, for every stage, the devices that a    *)
(* call may reach there: the owner, and every device that a recovery has   *)
(* wired the stage before it to.  Each of them that holds the range leads  *)
(* to the chain's devices of the next stage, except the one that a         *)
(* recovery is about to wire, when no call is on its way.                  *)

Emptied == \A d \in crashed : stages[d] = {}

Counted ==
  /\ server # NoSolution \/ bound # NoSolution => deploys > 0
  /\ req.epoch <= deploys
  /\ deploy.pc # "idle" => req.epoch < deploys

OwnerWired(q, j) ==
  q.keys[j] \in stages[q.devs[j]] => next_hop[q.devs[j]][q.keys[j]] = Hop(q.devs, q.keys, j)

WiredSoFar ==
  ~raced =>
    /\ deploy.pc = "wire" => \A j \in DOMAIN server.devs : j < deploy.i => OwnerWired(server, j)
    /\ deploy.pc = "backup" => \A j \in DOMAIN server.devs : OwnerWired(server, j)

AboutToWire(d, j) == req.pc = "rewire" /\ req.of = bound /\ req.i = j /\ req.rplan[j] = d

Leads(W, d, j) ==
  LET hop == next_hop[d][bound.keys[j]]
  IN bound.keys[j] \in stages[d] =>
       IF j = Len(bound.devs) THEN hop = NoHop
       ELSE hop.key = bound.keys[j + 1] /\ hop.dev \in W[j + 1]

OnChain(W) ==
  /\ \A j \in DOMAIN bound.devs : bound.devs[j] \in W[j]
  /\ \A j \in DOMAIN bound.devs : \A d \in W[j] : AboutToWire(d, j) \/ Leads(W, d, j)
  /\ req.pc = "walk" /\ req.epoch = deploys /\ req.head = bound.devs[1] =>
       \E j \in DOMAIN bound.devs : req.key = bound.keys[j] /\ req.dev \in W[j]

Chained ==
  deploy.pc = "idle" /\ bound # NoSolution /\ ~raced =>
    \E W \in [DOMAIN bound.devs -> SUBSET Device] : OnChain(W)

ChainInv == Emptied /\ Counted /\ WiredSoFar /\ Chained

LEMMA InitChain == Init => ChainInv
  BY DEF Init, ChainInv, Emptied, Counted, WiredSoFar, Chained, NoRequest

\* A deploy begins: nothing is claimed of the chain, and no call counts as after it.
LEMMA StartChain ==
  ASSUME ReadyInv, ChainInv, NEW q \in Solutions, StartDeploy(q)
  PROVE  ChainInv'
<1>1. /\ deploy'.pc = "load" /\ deploys' = deploys + 1 /\ deploys \in Nat
      /\ UNCHANGED <<crashed, stages, req>> /\ req.epoch \in Nat
  BY DEF StartDeploy, workers, ReadyInv, WorkerType, RequestType, Requests
<1>2. Counted'
  BY <1>1 DEF ChainInv, Counted
<1> QED
  BY <1>1, <1>2 DEF ChainInv, Emptied, WiredSoFar, Chained

\* A worker that does not answer ends the deploy.
LEMMA FailsChain ==
  ASSUME ChainInv, deploy.pc # "idle", Fails
  PROVE  ChainInv'
<1>1. deploy'.pc = "failed" /\ UNCHANGED <<crashed, stages, server, bound, req, deploys>>
  BY DEF Fails, workers, gateway, counts
<1> QED
  BY <1>1 DEF ChainInv, Emptied, Counted, WiredSoFar, Chained

LEMMA LoadStageChain ==
  ASSUME IInv, ReadyInv, ChainInv, LoadStage
  PROVE  ChainInv'
<1> DEFINE d == server.devs[deploy.i]
<1>1. /\ deploy.pc = "load" /\ stages \in [Device -> SUBSET Key]
      /\ deploy \in [pc : {"idle", "load", "wire", "backup", "failed"}, i : Nat, todo : SUBSET Nat]
      /\ server \in Solutions
  BY DEF LoadStage, IInv, DeployType
<1>2. CASE Fails
  BY <1>1, <1>2, FailsChain
<1>3. CASE ~Fails
  <2>1. /\ d \notin crashed /\ load_primary(d, server.keys[deploy.i]) /\ Proceeds
        /\ \/ deploy' = [deploy EXCEPT !.i = @ + 1]
           \/ deploy' = [deploy EXCEPT !.pc = "wire", !.i = 1]
    BY <1>3 DEF LoadStage
  <2>2. deploy'.pc = "load" \/ (deploy'.pc = "wire" /\ deploy'.i = 1)
    BY <1>1, <2>1
  <2>3. Emptied'
    BY <1>1, <2>1 DEF ChainInv, Emptied, load_primary, Proceeds
  <2>4. Counted'
    BY <1>1, <2>1 DEF ChainInv, Counted, Proceeds, counts, gateway
  <2>5. WiredSoFar'
    <3>1. server' = server /\ \A j \in DOMAIN server.devs : ~(j < 1)
      BY <1>1, <2>1, SolutionShape DEF Proceeds
    <3> QED
      BY <2>2, <3>1 DEF WiredSoFar
  <2> QED
    BY <2>2, <2>3, <2>4, <2>5 DEF ChainInv, Chained
<1> QED
  BY <1>2, <1>3

\* The owners are wired front to back.
LEMMA WireStageChain ==
  ASSUME IInv, ReadyInv, ChainInv, WireStage
  PROVE  ChainInv'
<1>0. server \in Solutions /\ deploy.i \in DOMAIN server.devs
  BY DEF WireStage, IInv, DeployType
<1> PICK q \in Solutions : q = server
  BY <1>0
<1> PICK i \in DOMAIN q.devs : i = deploy.i
  BY <1>0
<1> DEFINE d == q.devs[i]
           k == q.keys[i]
<1>1. /\ deploy.pc = "wire"
      /\ deploy \in [pc : {"idle", "load", "wire", "backup", "failed"}, i : Nat, todo : SUBSET Nat]
      /\ next_hop \in [Device -> [Key -> HopType]]
  BY DEF WireStage, IInv, DeployType, ReadyInv, WorkerType
<1>2. CASE Fails
  BY <1>1, <1>2, FailsChain
<1>3. CASE ~Fails
  <2>1. /\ SetNextHop(q.devs, q.keys, i) /\ UNCHANGED <<stages, backup_for>> /\ Proceeds
        /\ deploy' = IF i < Len(q.devs) THEN [deploy EXCEPT !.i = @ + 1]
                     ELSE [pc |-> "backup", i |-> 1,
                           todo |-> IF eager_backup THEN DOMAIN q.devs ELSE {}]
    BY <1>3 DEF WireStage
  <2>2. /\ i < Len(q.devs) => deploy'.pc = "wire" /\ deploy'.i = i + 1
        /\ ~(i < Len(q.devs)) => deploy'.pc = "backup"
    BY <1>1, <2>1
  <2>3. Emptied' /\ Counted'
    BY <1>1, <2>1 DEF ChainInv, Emptied, Counted, Proceeds, counts, gateway
  <2>4. d \in Device /\ k \in Key /\ DOMAIN q.devs = 1..Len(q.devs) /\ Len(q.devs) \in Nat
    BY <1>1, SolutionDevices, KeyOfStage, SolutionShape
  <2>5. OwnerWired(q, i)'
    <3>1. next_hop'[d][k] = Hop(q.devs, q.keys, i)
      BY <1>1, <2>1, <2>4 DEF SetNextHop
    <3> QED
      BY <2>1, <3>1 DEF OwnerWired
  <2>6. ASSUME ~raced, NEW j \in DOMAIN q.devs, j < i
        PROVE  OwnerWired(q, j)'
    <3>1. OwnerWired(q, j)
      BY <1>1, <2>6 DEF ChainInv, WiredSoFar
    <3>2. q.devs[j] # d /\ q.devs[j] \in Device /\ q.keys[j] \in Key
      BY <1>1, <2>4, <2>6, SolutionApart, SolutionDevices, KeyOfStage
    <3>3. next_hop'[q.devs[j]] = next_hop[q.devs[j]]
      BY <1>1, <2>1, <2>4, <3>2 DEF SetNextHop
    <3> QED
      BY <2>1, <3>1, <3>3 DEF OwnerWired, Proceeds
  <2>7. WiredSoFar'
    <3>1. server' = q /\ raced' = raced
      BY <2>1 DEF Proceeds
    <3>2. ASSUME ~raced, NEW j \in DOMAIN q.devs, j < i \/ j = i
          PROVE  OwnerWired(q, j)'
      <4>1. CASE j = i
        BY <2>5, <4>1 DEF OwnerWired
      <4>2. CASE j < i
        BY <2>6, <3>2, <4>2
      <4> QED
        BY <3>2, <4>1, <4>2
    <3>3. ASSUME NEW j \in DOMAIN q.devs
          PROVE  /\ j < i + 1 => j < i \/ j = i
                 /\ ~(i < Len(q.devs)) => j < i \/ j = i
      BY <1>1, <2>4
    <3>5. CASE i < Len(q.devs)
      BY <2>2, <3>1, <3>2, <3>3, <3>5 DEF WiredSoFar, OwnerWired
    <3>6. CASE ~(i < Len(q.devs))
      BY <2>2, <3>1, <3>2, <3>3, <3>6 DEF WiredSoFar, OwnerWired
    <3> QED
      BY <3>5, <3>6
  <2>8. Chained'
    BY <2>2 DEF Chained
  <2> QED
    BY <2>3, <2>7, <2>8 DEF ChainInv
<1> QED
  BY <1>2, <1>3

\* A backup adds a range to a worker, but not the one the worker owns.
LEMMA LoadBackupChain ==
  ASSUME IInv, ReadyInv, ChainInv, NEW i \in DOMAIN server.devs, LoadBackup(i)
  PROVE  ChainInv'
<1>0. server \in Solutions /\ deploy.pc = "backup"
  BY DEF LoadBackup, IInv, DeployType
<1> PICK q \in Solutions : q = server
  BY <1>0
<1> DEFINE k == q.recovery[q.devs[i]]
<1>1. /\ deploy \in [pc : {"idle", "load", "wire", "backup", "failed"}, i : Nat, todo : SUBSET Nat]
      /\ stages \in [Device -> SUBSET Key] /\ i \in DOMAIN q.devs
      /\ k # q.devs[i] /\ k \in MaybeDevice /\ q.devs[i] \in Device
  <2>1. q.devs[i] \in Device /\ q.recovery[q.devs[i]] \in MaybeDevice
    BY SolutionDevices
  <2> QED
    BY <2>1, RedeployAssumption DEF IInv, DeployType
<1>2. CASE Fails
  BY <1>0, <1>2, FailsChain
<1>3. CASE ~Fails
  <2>1. /\ k \notin crashed /\ UNCHANGED <<next_hop, head>> /\ Proceeds
        /\ deploy' = [deploy EXCEPT !.todo = @ \ {i}]
        /\ k = NoDevice => stages' = stages
        /\ k # NoDevice => stages' = [stages EXCEPT ![k] = @ \cup {q.keys[i]}]
    BY <1>3 DEF LoadBackup, load_backup, BackupKey
  <2>2. deploy'.pc = "backup"
    BY <1>0, <1>1, <2>1
  <2>3. Counted'
    BY <1>0, <2>1, <2>2 DEF ChainInv, Counted, Proceeds, counts, gateway
  <2>4. Emptied'
    <3>1. crashed \subseteq Device /\ crashed' = crashed /\ Emptied
      BY <2>1 DEF ReadyInv, WorkerType, ChainInv, Proceeds
    <3>2. ASSUME NEW d \in crashed
          PROVE  stages'[d] = stages[d]
      BY <1>1, <2>1, <3>1, <3>2
    <3> QED
      BY <3>1, <3>2 DEF Emptied
  <2>5. ASSUME ~raced, NEW j \in DOMAIN q.devs
        PROVE  OwnerWired(q, j)'
    <3>1. OwnerWired(q, j)
      BY <1>0, <2>5 DEF ChainInv, WiredSoFar
    <3>2. q.devs[j] \in Device
      BY SolutionDevices
    <3>3. q.keys[j] \in stages'[q.devs[j]] => q.keys[j] \in stages[q.devs[j]]
      <4>1. CASE q.devs[j] = k /\ k # NoDevice
        <5>1. i # j
          BY <1>1, <4>1
        <5>2. q.keys[i] # q.keys[j]
          BY <1>1, <5>1, SolutionApart
        <5> QED
          BY <1>1, <2>1, <3>2, <4>1, <5>2
      <4>2. CASE ~(q.devs[j] = k /\ k # NoDevice)
        BY <1>1, <2>1, <3>2, <4>2
      <4> QED
        BY <4>1, <4>2
    <3> QED
      BY <2>1, <3>1, <3>3 DEF OwnerWired
  <2>6. WiredSoFar'
    BY <2>1, <2>2, <2>5 DEF WiredSoFar, Proceeds
  <2> QED
    BY <2>2, <2>3, <2>4, <2>6 DEF ChainInv, Chained
<1> QED
  BY <1>2, <1>3

\* The owners are a chain.
LEMMA RebindChain ==
  ASSUME IInv, ReadyInv, ChainInv, Rebind
  PROVE  ChainInv'
<1>0. server \in Solutions /\ deploy.pc = "backup"
  BY DEF Rebind, IInv, DeployType
<1> PICK q \in Solutions : q = server
  BY <1>0
<1>1. /\ deploy'.pc = "idle" /\ bound' = q
      /\ UNCHANGED <<crashed, workers, server, req, counts, raced>>
  BY DEF Rebind, IInv, DeployType
<1>2. Emptied' /\ WiredSoFar'
  BY <1>1 DEF ChainInv, Emptied, WiredSoFar, workers
<1>3. req.epoch < deploys /\ deploys > 0 /\ req.epoch \in Nat /\ deploys \in Nat
  BY <1>0, NoSolutionIsNone DEF ChainInv, Counted, ReadyInv, RequestType, Requests, WorkerType
<1>4. Counted'
  BY <1>1, <1>3 DEF ChainInv, Counted, counts
<1> DEFINE W == [j \in DOMAIN q.devs |-> {q.devs[j]}]
<1>5. ASSUME ~raced
      PROVE  OnChain(W)'
  <2>1. /\ DOMAIN q.devs = 1..Len(q.devs) /\ Len(q.devs) \in Nat
    BY SolutionShape
  <2>2. ASSUME NEW j \in DOMAIN q.devs
        PROVE  Leads(W, q.devs[j], j)'
    <3>1. OwnerWired(q, j)
      BY <1>0, <1>5 DEF ChainInv, WiredSoFar
    <3>2. CASE j = Len(q.devs)
      <4>1. Hop(q.devs, q.keys, j) = NoHop
        BY <2>1, <3>2 DEF Hop
      <4> QED
        BY <1>1, <3>1, <3>2, <4>1 DEF OwnerWired, Leads, workers
    <3>3. CASE j # Len(q.devs)
      <4>1. j + 1 \in DOMAIN q.devs /\ j < Len(q.devs)
        BY <2>1, <3>3
      <4>2. Hop(q.devs, q.keys, j).dev \in W[j + 1] /\ Hop(q.devs, q.keys, j).key = q.keys[j + 1]
        BY <4>1 DEF Hop
      <4> QED
        BY <1>1, <3>1, <3>3, <4>2 DEF OwnerWired, Leads, workers
    <3> QED
      BY <3>2, <3>3
  <2>3. \A j \in DOMAIN q.devs : q.devs[j] \in W[j] /\ \A d \in W[j] : d = q.devs[j]
    OBVIOUS
  <2> HIDE DEF W
  <2>4. req'.epoch # deploys'
    BY <1>1, <1>3 DEF counts
  <2> QED
    BY <1>1, <2>2, <2>3, <2>4 DEF OnChain
<1>6. Chained'
  <2>1. W \in [DOMAIN q.devs -> SUBSET Device]
    BY SolutionDevices
  <2> QED
    BY <1>1, <1>5, <2>1 DEF Chained
<1> QED
  BY <1>2, <1>4, <1>6 DEF ChainInv

\* Who crashes holds nothing, so no call is cut short there.
LEMMA CrashChain ==
  ASSUME IInv, ReadyInv, ChainInv, NEW e \in Device, Crash(e)
  PROVE  ChainInv'
<1>1. /\ crashed' = crashed \cup {e}
      /\ stages' = [stages EXCEPT ![e] = {}] /\ next_hop' = [next_hop EXCEPT ![e] = Unwired]
      /\ UNCHANGED <<server, deploy, bound, req, deploys, raced>>
  BY DEF Crash, gateway
<1>2. stages \in [Device -> SUBSET Key] /\ next_hop \in [Device -> [Key -> HopType]]
  BY DEF IInv, DeployType, ReadyInv, WorkerType
<1>3. /\ stages'[e] = {}
      /\ \A d : d # e => stages'[d] = stages[d] /\ next_hop'[d] = next_hop[d]
  <2>1. DOMAIN stages = Device /\ DOMAIN next_hop = Device
    BY <1>2
  <2>2. ASSUME NEW d, d # e
        PROVE  stages'[d] = stages[d] /\ next_hop'[d] = next_hop[d]
    BY <1>1, <2>1, <2>2
  <2> QED
    BY <1>1, <2>1, <2>2
<1>4. Emptied' /\ Counted'
  BY <1>1, <1>2, <1>3 DEF ChainInv, Emptied, Counted
<1>5. WiredSoFar'
  BY <1>1, <1>3 DEF ChainInv, WiredSoFar, OwnerWired
<1>6. Chained'
  <2>1. SUFFICES ASSUME deploy.pc = "idle", bound # NoSolution, ~raced
                 PROVE  \E W \in [DOMAIN bound.devs -> SUBSET Device] : OnChain(W)'
    BY <1>1 DEF Chained
  <2>2. PICK W \in [DOMAIN bound.devs -> SUBSET Device] : OnChain(W)
    BY <2>1 DEF ChainInv, Chained
  <2>3. ASSUME NEW d, NEW j, Leads(W, d, j)
        PROVE  Leads(W, d, j)'
    BY <1>1, <1>3, <2>3 DEF Leads
  <2>4. OnChain(W)'
    BY <1>1, <2>2, <2>3 DEF OnChain, AboutToWire
  <2> QED
    BY <2>2, <2>4
<1> QED
  BY <1>4, <1>5, <1>6 DEF ChainInv

-----------------------------------------------------------------------------
(* The request thread on the chain.                                        *)

\* A request that calls nobody.
LEMMA RestingRequest ==
  ASSUME Answer \/ Blame \/ Promote
  PROVE  req'.pc # "walk" /\ req'.epoch = 0
<1>1. NoRequest \in Requests /\ NoRequest.epoch = 0 /\ NoRequest.pc = "idle"
  BY IdleRequest DEF NoRequest
<1>2. CASE req' = NoRequest
  BY <1>1, <1>2
<1>3. ASSUME NEW v, req' = [NoRequest EXCEPT !.pc = "promote", !.victim = v]
      PROVE  req'.pc # "walk" /\ req'.epoch = 0
  BY <1>1, <1>3 DEF Requests
<1>4. CASE req' = [NoRequest EXCEPT !.pc = "rewire", !.i = 1, !.rplan = plan, !.of = bound]
  BY <1>1, <1>4 DEF Requests
<1> QED
  BY <1>2, <1>3, <1>4 DEF Answer, Blame, Promote

\* Requests only start a call after the deploys there were.
LEMMA RequestCounted ==
  ASSUME ReadyInv, ChainInv, Request
  PROVE  Counted'
<1>1. /\ UNCHANGED <<server, bound, deploy, deploys>> /\ req \in Requests /\ deploys \in Nat
      /\ req.pc # "idle" => bound # NoSolution
  <2>1. UNCHANGED <<server, bound, deploy, deploys>>
    BY DEF Request, Step, RunStage, Answer, Blame, Promote, Rewire, Server, counts
  <2> QED
    BY <2>1 DEF ReadyInv, RequestType, WorkerType
<1>2. bound # NoSolution
  BY <1>1 DEF Request, Step, RunStage, Answer, Blame, Promote, Rewire
<1>3. deploys > 0
  BY <1>2 DEF ChainInv, Counted
<1>4. req'.epoch = req.epoch \/ req'.epoch = 0
      \/ req'.epoch = (IF deploy.pc = "idle" THEN deploys ELSE 0)
  <2>1. CASE Step
    BY <2>1 DEF Step, CallHead, NoRequest
  <2>2. CASE RunStage
    BY <1>1, <2>2 DEF RunStage, Requests, NoRequest
  <2>3. CASE Answer \/ Blame \/ Promote
    BY <2>3, RestingRequest
  <2>4. CASE Rewire
    <3>1. \/ req' = [req EXCEPT !.i = @ + 1]
          \/ req' = [CallHead(NoRequest) EXCEPT !.recovering = TRUE]
      BY <2>4 DEF Rewire
    <3> QED
      BY <1>1, <3>1 DEF Requests, CallHead, NoRequest
  <2> QED
    BY <2>1, <2>2, <2>3, <2>4 DEF Request
<1> QED
  BY <1>1, <1>3, <1>4 DEF ChainInv, Counted

\* A call that starts after this deploy, at the owner of the first stage, is on
\* the chain.
LEMMA CallOnChain ==
  ASSUME ReadyInv, bound # NoSolution, NEW W, \A j \in DOMAIN bound.devs : bound.devs[j] \in W[j],
         NEW r \in Requests, r.dev = plan[1], r.head = plan[1], r.key = bound.keys[1],
         r.head = bound.devs[1]
  PROVE  \E j \in DOMAIN bound.devs : r.key = bound.keys[j] /\ r.dev \in W[j]
<1>1. 1 \in DOMAIN bound.devs
  BY SolutionShape DEF ReadyInv, GatewayType
<1> QED
  BY <1>1

\* A thread that wires nothing stays on the chain.
LEMMA WalkChained ==
  ASSUME IInv, ReadyInv, ChainInv, Step \/ RunStage \/ Answer \/ Blame \/ Promote
  PROVE  Chained'
<1>1. /\ UNCHANGED <<workers, raced, deploy, bound, deploys>>
      /\ req \in Requests /\ req.pc # "rewire"
  BY DEF Step, RunStage, Answer, Blame, Promote, Server, counts, ReadyInv, RequestType
<1>2. SUFFICES ASSUME deploy.pc = "idle", bound # NoSolution, ~raced
               PROVE  \E W \in [DOMAIN bound.devs -> SUBSET Device] : OnChain(W)'
  BY <1>1 DEF Chained
<1>3. PICK W \in [DOMAIN bound.devs -> SUBSET Device] : OnChain(W)
  BY <1>2 DEF ChainInv, Chained
<1>4. /\ \A j \in DOMAIN bound.devs : bound.devs[j] \in W[j]
      /\ \A j \in DOMAIN bound.devs : \A d \in W[j] : Leads(W, d, j)
  BY <1>1, <1>3 DEF OnChain, AboutToWire
<1>5. ASSUME NEW d, NEW j, Leads(W, d, j)
      PROVE  Leads(W, d, j)'
  BY <1>1, <1>5 DEF Leads, workers
<1>6. ASSUME req'.pc = "walk", req'.epoch = deploys, req'.head = bound.devs[1]
      PROVE  \E j \in DOMAIN bound.devs : req'.key = bound.keys[j] /\ req'.dev \in W[j]
  <2>1. CASE Step
    <3>1. req' = CallHead(NoRequest) /\ CallHead(NoRequest) \in Requests
      BY <1>2, <2>1, CallType DEF Step
    <3>2. /\ CallHead(NoRequest).dev = plan[1] /\ CallHead(NoRequest).head = plan[1]
          /\ CallHead(NoRequest).key = bound.keys[1]
      BY DEF CallHead, NoRequest
    <3> QED
      BY <1>2, <1>4, <1>6, <3>1, <3>2, CallOnChain
  <2>2. CASE RunStage
    <3> DEFINE hop == next_hop[req.dev][req.key]
    <3>1. /\ req.pc = "walk" /\ req.key \in stages[req.dev] /\ hop # NoHop
          /\ req' = [req EXCEPT !.dev = hop.dev, !.key = hop.key, !.first = FALSE]
      BY <1>1, <1>6, <2>2 DEF RunStage, NoRequest, Requests
    <3>2. req.epoch = deploys /\ req.head = bound.devs[1] /\ req'.dev = hop.dev /\ req'.key = hop.key
      BY <1>1, <1>6, <3>1 DEF Requests
    <3>3. PICK j \in DOMAIN bound.devs : req.key = bound.keys[j] /\ req.dev \in W[j]
      BY <1>3, <3>1, <3>2 DEF OnChain
    <3>4. j # Len(bound.devs) /\ hop.key = bound.keys[j + 1] /\ hop.dev \in W[j + 1]
      BY <1>4, <3>1, <3>3 DEF Leads
    <3>5. j + 1 \in DOMAIN bound.devs
      <4>1. bound \in Solutions
        BY <1>2 DEF ReadyInv, GatewayType
      <4> QED
        BY <3>3, <3>4, <4>1, SolutionShape
    <3> QED
      BY <3>2, <3>4, <3>5
  <2>3. CASE Answer \/ Blame \/ Promote
    BY <1>6, <2>3, RestingRequest
  <2> QED
    BY <2>1, <2>2, <2>3
<1>7. OnChain(W)'
  BY <1>1, <1>4, <1>5, <1>6 DEF OnChain
<1> QED
  BY <1>3, <1>7

\* One SetNextHop of the bound plan, with no deploy under way, puts the next device
\* of the plan on the chain.
LEMMA RewireStepChained ==
  ASSUME ReadyInv, ChainInv, Rewire, req.of = bound, req.rplan[req.i] \notin crashed,
         deploy.pc = "idle", bound # NoSolution, ~raced
  PROVE  \E W \in [DOMAIN bound.devs -> SUBSET Device] : OnChain(W)'
<1>0. bound \in Solutions
  BY DEF ReadyInv, GatewayType
<1> PICK q \in Solutions : q = bound
  BY <1>0
<1>1. /\ req.pc = "rewire" /\ req \in Requests
      /\ PlanShape(q, req.rplan) /\ req.i \in DOMAIN q.devs
      /\ next_hop \in [Device -> [Key -> HopType]]
  BY DEF Rewire, ReadyInv, RequestType, WorkerType
<1> PICK i \in DOMAIN q.devs : i = req.i
  BY <1>1
<1> PICK p \in Seq(Device) : p = req.rplan
  BY <1>1 DEF PlanShape
<1>2. /\ DOMAIN q.devs = 1..Len(q.devs) /\ Len(q.devs) \in Nat /\ Len(p) = Len(q.devs)
      /\ DOMAIN q.keys = DOMAIN q.devs
  BY <1>1, SolutionShape DEF PlanShape
<1>3. p[i] \in Device /\ q.keys[i] \in Key /\ (i < Len(p) => i + 1 \in DOMAIN q.devs /\ p[i + 1] \in Device)
  BY <1>2, KeyOfStage
<1>4. /\ next_hop' = [next_hop EXCEPT ![p[i]][q.keys[i]] = Hop(p, q.keys, i)]
      /\ req' = IF i < Len(p) THEN [req EXCEPT !.i = @ + 1]
                ELSE [CallHead(NoRequest) EXCEPT !.recovering = TRUE]
      /\ UNCHANGED <<bound, deploy, deploys, stages>>
  BY DEF Rewire, SetNextHop, Server, counts
<1>5. PICK W \in [DOMAIN q.devs -> SUBSET Device] : OnChain(W)
  BY DEF ChainInv, Chained
<1>6. /\ \A j \in DOMAIN q.devs : q.devs[j] \in W[j]
      /\ \A j \in DOMAIN q.devs : \A d \in W[j] : (j = i /\ d = p[i]) \/ Leads(W, d, j)
  BY <1>5 DEF OnChain, AboutToWire
<1> DEFINE V == IF i < Len(p) THEN [W EXCEPT ![i + 1] = @ \cup {p[i + 1]}] ELSE W
<1>7. /\ V \in [DOMAIN q.devs -> SUBSET Device]
      /\ \A j \in DOMAIN q.devs : W[j] \subseteq V[j]
      /\ \A j \in DOMAIN q.devs : \A d \in V[j] :
           d \in W[j] \/ (i < Len(p) /\ j = i + 1 /\ d = p[i + 1])
      /\ i < Len(p) => p[i + 1] \in V[i + 1]
  <2>1. CASE i < Len(p)
    <3>1. V = [W EXCEPT ![i + 1] = @ \cup {p[i + 1]}] /\ i + 1 \in DOMAIN q.devs
      BY <1>3, <2>1
    <3> HIDE DEF V
    <3>2. \A j \in DOMAIN q.devs : V[j] = IF j = i + 1 THEN W[j] \cup {p[i + 1]} ELSE W[j]
      BY <3>1
    <3>3. V \in [DOMAIN q.devs -> SUBSET Device]
      BY <1>3, <2>1, <3>1
    <3> QED
      BY <2>1, <3>1, <3>2, <3>3
  <2>2. CASE ~(i < Len(p))
    BY <2>2
  <2> QED
    BY <2>1, <2>2
<1> HIDE DEF V
<1>8. ASSUME NEW j \in DOMAIN q.devs, NEW d \in W[j]
      PROVE  Leads(V, d, j)'
  <2>1. j # Len(q.devs) => j + 1 \in DOMAIN q.devs
    BY <1>2
  <2>2. d \in Device /\ q.keys[j] \in Key
    BY <1>8, KeyOfStage
  <2>3. CASE j = i /\ d = p[i]
    <3>1. next_hop'[d][q.keys[j]] = Hop(p, q.keys, i)
      BY <1>1, <1>3, <1>4, <2>3
    <3>2. CASE i < Len(p)
      <4>1. Hop(p, q.keys, i).dev = p[i + 1] /\ Hop(p, q.keys, i).key = q.keys[i + 1]
        BY <3>2 DEF Hop
      <4> QED
        BY <1>2, <1>4, <1>7, <2>3, <3>1, <3>2, <4>1 DEF Leads
    <3>3. CASE ~(i < Len(p))
      <4>1. Hop(p, q.keys, i) = NoHop /\ i = Len(q.devs)
        BY <1>2, <3>3 DEF Hop
      <4> QED
        BY <1>4, <2>3, <3>1, <4>1 DEF Leads
    <3> QED
      BY <3>2, <3>3
  <2>4. CASE ~(j = i /\ d = p[i])
    <3>1. Leads(W, d, j)
      BY <1>6, <1>8, <2>4
    <3>2. next_hop'[d][q.keys[j]] = next_hop[d][q.keys[j]]
      <4>1. CASE d # p[i]
        BY <1>1, <1>3, <1>4, <2>2, <4>1
      <4>2. CASE d = p[i] /\ j # i
        <5>1. q.keys[j] # q.keys[i]
          BY <4>2, SolutionApart
        <5>2. next_hop'[d] = [next_hop[d] EXCEPT ![q.keys[i]] = Hop(p, q.keys, i)]
          BY <1>1, <1>3, <1>4, <4>2
        <5>3. next_hop[d] \in [Key -> HopType]
          BY <1>1, <2>2
        <5> QED
          BY <2>2, <5>1, <5>2, <5>3
      <4> QED
        BY <2>4, <4>1, <4>2
    <3> QED
      BY <1>4, <1>7, <2>1, <3>1, <3>2 DEF Leads
  <2> QED
    BY <2>3, <2>4
<1>9. ASSUME NEW j \in DOMAIN q.devs, NEW d \in V[j]
      PROVE  AboutToWire(d, j)' \/ Leads(V, d, j)'
  <2>1. CASE d \in W[j]
    BY <1>8, <2>1
  <2>2. CASE i < Len(p) /\ j = i + 1 /\ d = p[i + 1]
    <3>1. i + 1 \in Nat
      BY <1>2
    <3>2. req'.pc = "rewire" /\ req'.of = bound /\ req'.i = i + 1 /\ req'.rplan = p
      BY <1>1, <1>4, <2>2, <3>1 DEF Requests
    <3> QED
      BY <1>4, <2>2, <3>2 DEF AboutToWire
  <2> QED
    BY <1>7, <1>9, <2>1, <2>2
<1>10. ASSUME req'.pc = "walk", req'.epoch = deploys, req'.head = bound.devs[1]
       PROVE  \E j \in DOMAIN q.devs : req'.key = q.keys[j] /\ req'.dev \in V[j]
  <2>1. req' = [CallHead(NoRequest) EXCEPT !.recovering = TRUE]
    BY <1>1, <1>4, <1>10 DEF Requests
  <2>2. PICK r \in Requests : r = CallHead(NoRequest)
    BY CallType
  <2>3. r.dev = plan[1] /\ r.head = plan[1] /\ r.key = bound.keys[1]
    BY <2>2 DEF CallHead, NoRequest
  <2>4. req'.dev = plan[1] /\ req'.head = plan[1] /\ req'.key = bound.keys[1]
    BY <2>1, <2>2, <2>3 DEF Requests
  <2>5. 1 \in DOMAIN q.devs /\ q.devs[1] \in V[1]
    BY <1>2, <1>6, <1>7, SolutionShape
  <2> QED
    BY <1>10, <2>4, <2>5
<1>11. OnChain(V)'
  <2>1. \A j \in DOMAIN q.devs : q.devs[j] \in V[j]
    BY <1>6, <1>7
  <2> QED
    BY <1>4, <1>9, <1>10, <2>1 DEF OnChain
<1> QED
  BY <1>7, <1>11

\* A worker that is gone is skipped: it holds nothing.
LEMMA RewireSkipChained ==
  ASSUME IInv, ReadyInv, ChainInv, Rewire, req.rplan[req.i] \in crashed,
         deploy.pc = "idle", bound # NoSolution, ~raced
  PROVE  \E W \in [DOMAIN bound.devs -> SUBSET Device] : OnChain(W)'
<1>0. bound \in Solutions
  BY DEF ReadyInv, GatewayType
<1>1. /\ UNCHANGED <<next_hop, stages, bound, deploys>> /\ req \in Requests /\ req.pc = "rewire"
      /\ \/ req' = [req EXCEPT !.i = @ + 1]
         \/ req' = [CallHead(NoRequest) EXCEPT !.recovering = TRUE]
  BY DEF Rewire, Server, counts, ReadyInv, RequestType
<1>2. PICK W \in [DOMAIN bound.devs -> SUBSET Device] : OnChain(W)
  BY DEF ChainInv, Chained
<1>3. ASSUME NEW j \in DOMAIN bound.devs, NEW d \in W[j]
      PROVE  Leads(W, d, j)'
  <2>1. Leads(W, d, j)
    <3>1. CASE AboutToWire(d, j)
      <4>1. stages[d] = {}
        BY <3>1 DEF AboutToWire, ChainInv, Emptied
      <4> QED
        BY <4>1 DEF Leads
    <3> QED
      BY <1>2, <1>3, <3>1 DEF OnChain
  <2> QED
    BY <1>1, <2>1 DEF Leads
<1>4. ASSUME req'.pc = "walk", req'.epoch = deploys, req'.head = bound.devs[1]
      PROVE  \E j \in DOMAIN bound.devs : req'.key = bound.keys[j] /\ req'.dev \in W[j]
  <2>1. req' = [CallHead(NoRequest) EXCEPT !.recovering = TRUE]
    BY <1>1, <1>4 DEF Requests
  <2>2. PICK r \in Requests : r = CallHead(NoRequest)
    BY CallType
  <2>3. r.dev = plan[1] /\ r.head = plan[1] /\ r.key = bound.keys[1]
    BY <2>2 DEF CallHead, NoRequest
  <2>4. req'.dev = plan[1] /\ req'.head = plan[1] /\ req'.key = bound.keys[1]
    BY <2>1, <2>2, <2>3 DEF Requests
  <2>5. 1 \in DOMAIN bound.devs /\ bound.devs[1] \in W[1]
    BY <1>0, <1>2, SolutionShape DEF OnChain
  <2> QED
    BY <1>4, <2>4, <2>5
<1>5. OnChain(W)'
  BY <1>1, <1>2, <1>3, <1>4 DEF OnChain
<1> QED
  BY <1>2, <1>5

LEMMA RewireChained ==
  ASSUME IInv, ReadyInv, ChainInv, Rewire
  PROVE  Chained'
<1>1. UNCHANGED <<deploy, bound>>
  BY DEF Rewire, Server
<1>2. CASE req.rplan[req.i] \in crashed
  <2>1. raced' = raced
    BY <1>2 DEF Rewire
  <2> QED
    BY <1>1, <1>2, <2>1, RewireSkipChained DEF Chained
<1>3. CASE req.rplan[req.i] \notin crashed
  <2>1. raced' = (raced \/ req.of # bound \/ deploy.pc \in {"wire", "backup"})
    BY <1>3 DEF Rewire
  <2> QED
    BY <1>1, <1>3, <2>1, RewireStepChained DEF Chained
<1> QED
  BY <1>2, <1>3

LEMMA RequestChain ==
  ASSUME IInv, ReadyInv, ChainInv, Request
  PROVE  ChainInv'
<1>1. UNCHANGED <<crashed, server, deploy, stages>>
  BY DEF Request, Step, RunStage, Answer, Blame, Promote, Rewire, Server, workers
<1>2. Emptied'
  BY <1>1 DEF ChainInv, Emptied
<1>3. WiredSoFar'
  <2>1. CASE UNCHANGED <<next_hop, raced>>
    BY <1>1, <2>1 DEF ChainInv, WiredSoFar, OwnerWired
  <2>2. CASE ~UNCHANGED <<next_hop, raced>>
    <3>1. Rewire /\ req.rplan[req.i] \notin crashed
      BY <2>2 DEF Request, Step, RunStage, Answer, Blame, Promote, Rewire, workers
    <3>2. raced' = (raced \/ req.of # bound \/ deploy.pc \in {"wire", "backup"})
      BY <3>1 DEF Rewire
    <3>3. deploy.pc \in {"wire", "backup"} => raced'
      BY <3>2
    <3> QED
      BY <1>1, <3>3 DEF WiredSoFar
  <2> QED
    BY <2>1, <2>2
<1>4. Chained'
  BY RewireChained, WalkChained DEF Request
<1> QED
  BY <1>2, <1>3, <1>4, RequestCounted DEF ChainInv

\* The rest leaves the workers, the request and what is claimed of them alone.
LEMMA KeptChain ==
  ASSUME ChainInv, crashed' \subseteq crashed,
         UNCHANGED <<stages, next_hop, server, deploy, bound, req, deploys, raced>>
  PROVE  ChainInv'
<1>1. Emptied' /\ Counted' /\ WiredSoFar'
  BY DEF ChainInv, Emptied, Counted, WiredSoFar, OwnerWired
<1>2. \A W : OnChain(W) => OnChain(W)'
  BY DEF OnChain, AboutToWire, Leads
<1> QED
  BY <1>1, <1>2 DEF ChainInv, Chained

LEMMA RestartCoordinatorChain ==
  ASSUME ReadyInv, ChainInv, RestartCoordinator
  PROVE  ChainInv'
<1>1. /\ UNCHANGED <<crashed, stages, deploys>> /\ deploys \in Nat
      /\ server' = NoSolution /\ bound' = NoSolution /\ req'.epoch = 0
      /\ deploy' = [deploy EXCEPT !.pc = "idle", !.i = 1, !.todo = {}]
  BY DEF RestartCoordinator, workers, counts, NoRequest, ReadyInv, WorkerType
<1>2. deploy'.pc \notin {"wire", "backup"}
  BY <1>1
<1>3. deploys > 0
  BY DEF RestartCoordinator, ChainInv, Counted
<1>4. Counted'
  <2>1. 0 <= deploys
    BY <1>1
  <2>2. deploy'.pc # "idle" => req'.epoch < deploys
    BY <1>1, <1>3
  <2> QED
    BY <1>1, <2>1, <2>2 DEF Counted
<1> QED
  BY <1>1, <1>2, <1>4 DEF ChainInv, Emptied, WiredSoFar, Chained

LEMMA NextChain == IInv /\ ReadyInv /\ ChainInv /\ [Next]_vars => ChainInv'
<1> SUFFICES ASSUME IInv, ReadyInv, ChainInv, [Next]_vars PROVE ChainInv'
  OBVIOUS
<1>1. ASSUME NEW q \in Solutions, AutoSchedule(q) \/ Reconfigure(q)
      PROVE  ChainInv'
  BY <1>1, StartChain DEF AutoSchedule, Reconfigure
<1>2. CASE LoadStage \/ WireStage \/ Rebind
  BY <1>2, LoadStageChain, WireStageChain, RebindChain
<1>3. ASSUME NEW i \in DOMAIN server.devs, LoadBackup(i)
      PROVE  ChainInv'
  BY <1>3, LoadBackupChain
<1>4. CASE Request
  BY <1>4, RequestChain
<1>5. ASSUME NEW d \in Device, Crash(d)
      PROVE  ChainInv'
  BY <1>5, CrashChain
<1>6. ASSUME NEW d \in Device, Restart(d) \/ OnFailure(d) \/ Revive(d)
      PROVE  ChainInv'
  <2>1. crashed' \subseteq crashed
    BY <1>6 DEF Restart, OnFailure, Revive
  <2>2. UNCHANGED <<stages, next_hop, server, deploy, bound, req, deploys, raced>>
    BY <1>6 DEF Restart, OnFailure, Revive, workers, gateway, counts
  <2> QED
    BY <2>1, <2>2, KeptChain
<1>7. CASE RestartCoordinator
  BY <1>7, RestartCoordinatorChain
<1>8. CASE UNCHANGED vars
  BY <1>8, KeptChain DEF vars, workers, gateway, counts
<1> QED
  BY <1>1, <1>2, <1>3, <1>4, <1>5, <1>6, <1>7, <1>8 DEF Next, Deploying

\* On the chain only the last stage has no next hop.
LEMMA OnlyTheLastAnswers ==
  ASSUME ReadyInv, Chained, RunStage, req'.pc = "answered",
         deploy.pc = "idle", ~raced, req.epoch = deploys, req.head = bound.devs[1]
  PROVE  req.key[2] = Layers
<1>1. /\ req.pc = "walk" /\ bound \in Solutions /\ bound # NoSolution /\ req \in Requests
  BY NoSolutionIsNone DEF RunStage, ReadyInv, RequestType, GatewayType
<1>2. req.key \in stages[req.dev] /\ next_hop[req.dev][req.key] = NoHop
  BY <1>1 DEF RunStage, Requests, NoRequest
<1>3. PICK W \in [DOMAIN bound.devs -> SUBSET Device] : OnChain(W)
  BY <1>1 DEF Chained
<1>4. PICK j \in DOMAIN bound.devs : req.key = bound.keys[j] /\ req.dev \in W[j]
  BY <1>1, <1>3 DEF OnChain
<1>5. Leads(W, req.dev, j)
  BY <1>1, <1>3, <1>4 DEF OnChain, AboutToWire
<1>6. j = Len(bound.devs)
  <2>1. SUFFICES ASSUME j # Len(bound.devs) PROVE FALSE
    OBVIOUS
  <2>2. NoHop.dev \in W[j + 1]
    BY <1>2, <1>4, <1>5, <2>1 DEF Leads
  <2>3. j + 1 \in DOMAIN bound.devs
    BY <1>1, <2>1, SolutionShape
  <2>4. NoHop.dev = NoDevice
    BY DEF NoHop
  <2> QED
    BY <2>2, <2>3, <2>4, NoDeviceIsNoDevice
<1>7. Len(bound.keys) = Len(bound.devs) /\ bound.keys[Len(bound.keys)][2] = Layers
  BY <1>1, RedeployAssumption DEF Contiguous
<1> QED
  BY <1>4, <1>6, <1>7

\* Outside deploys, with nothing wired over the bound plan, a call of this deploy
\* that began at the owner of the first stage is answered by the last stage only
\* (_forward_next in worker/server.py returns the token of whoever has no next
\* hop), whatever crashes, recoveries, restarts and revivals came before.
THEOREM NoCallIsCutShort == Spec => NoSilentTruncation
<1> DEFINE Act == (req.pc = "walk" /\ req'.pc = "answered" /\ req.key[2] # Layers)
                    => \/ deploy.pc # "idle" \/ raced \/ req.epoch # deploys
                       \/ req.head # bound.devs[1]
<1>1. ReadyInv /\ ChainInv /\ [Next]_vars => Act
  <2> SUFFICES ASSUME ReadyInv, ChainInv, [Next]_vars,
                      req.pc = "walk", req'.pc = "answered",
                      deploy.pc = "idle", ~raced, req.epoch = deploys,
                      req.head = bound.devs[1]
               PROVE  req.key[2] = Layers
    BY DEF ReadyInv
  <2>1. RunStage
    <3>1. req' # req
      OBVIOUS
    <3>2. Request \/ RestartCoordinator
      BY <3>1 DEF Next, Deploying, AutoSchedule, Reconfigure, StartDeploy, Fails, Proceeds,
                  LoadStage, WireStage, LoadBackup, Rebind, Crash, Restart, OnFailure, Revive, vars
    <3>3. ~RestartCoordinator
      BY DEF RestartCoordinator, NoRequest
    <3> QED
      BY <3>2, <3>3 DEF Request, Step, Answer, Blame, Promote, Rewire
  <2> QED
    BY <2>1, OnlyTheLastAnswers DEF ChainInv
<1>2. Spec => []IInv
  BY InitInvariant, StepInvariant, PTL DEF Spec
<1>3. Spec => []ReadyInv
  BY <1>2, InitReady, StepReady, PTL DEF Spec
<1>4. Spec => []ChainInv
  BY <1>2, <1>3, InitChain, NextChain, PTL DEF Spec
<1> QED
  BY <1>1, <1>3, <1>4, PTL DEF Spec, NoSilentTruncation
=============================================================================
