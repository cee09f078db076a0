------------------------------ MODULE Redeploy ------------------------------
(***************************************************************************)
(* What the workers hold, and how deploys change it under the requests:    *)
(* CoordinatorServer.deploy call by call, StageRunner's loading and        *)
(* unloading, the next-hop tables, reconfigure_over_survivors, worker and  *)
(* coordinator restarts, and a request thread that walks the chain and     *)
(* recovers from a failed call meanwhile.                                  *)
(*                                                                         *)
(* A solution of the scheduler is a record: devs, the devices in the order *)
(* of the layers; keys, their layer ranges; recovery, the table R.         *)
(***************************************************************************)
EXTENDS RecoveryPlan, FiniteSets

CONSTANTS Solutions,    \* what the scheduler may answer
          fleet,        \* the workers in the order of the config
          Layers,       \* number of layers of the model
          eager_backup, \* config.eager_backup
          MaxCrashes,   \* bound: how many times workers crash
          MaxDeploys    \* bound: how many deploys, the first included

Contiguous(keys) ==
  /\ keys[1][1] = 1 /\ keys[Len(keys)][2] = Layers
  /\ \A i \in 1..(Len(keys) - 1) : keys[i + 1][1] = keys[i][2] + 1

\* Backups live on other devices of the placement (recovery_table.py).
ASSUME RedeployAssumption ==
  /\ Layers \in Nat \ {0} /\ eager_backup \in BOOLEAN
  /\ MaxCrashes \in Nat /\ MaxDeploys \in Nat
  /\ fleet \in Seq(Device) /\ \A d \in Device : \E e \in DOMAIN fleet : fleet[e] = d
  /\ Solutions # {}
  /\ \A q \in Solutions :
       /\ q.devs \in Placements
       /\ q.keys \in Seq(Nat \X Nat) /\ Len(q.keys) = Len(q.devs)
       /\ Contiguous(q.keys)
       /\ \A i, j \in DOMAIN q.keys : q.keys[i] = q.keys[j] => i = j
       /\ q.recovery \in [Device -> Owners(q.devs) \cup {NoDevice}]
       /\ \A d \in Device : q.recovery[d] # d

Key == UNION {{q.keys[i] : i \in DOMAIN q.keys} : q \in Solutions}
NoKey == <<0, 0>>
NoHop == [dev |-> NoDevice, key |-> NoKey]
NoSolution == [devs |-> << >>, keys |-> << >>, recovery |-> NoBackups]

VARIABLES
  crashed,     \* workers whose process is gone
  stages,      \* runner._stages: the layer ranges a worker has loaded
  backup_for,  \* runner._backup_for: whose backup a range is
  next_hop,    \* servicer._next_hops
  head,        \* workers with the modules that sample a token
  server,      \* server.placement and server.recovery
  deploy,      \* the thread in deploy()
  bound,       \* gateway.placement and gateway.recovery
  dead, plan,  \* gateway._dead, gateway._execution_plan
  req,         \* a request thread of the gateway
  crashes, deploys,
  lost,        \* crashed since the last deploy began
  raced        \* a recovery has wired another plan since that deploy wired its own

workers == <<stages, backup_for, next_hop, head>>
gateway == <<bound, dead, plan>>
counts  == <<crashes, deploys>>
vars == <<crashed, workers, server, deploy, gateway, req, counts, lost, raced>>

NoOwner == [k \in Key |-> NoDevice]
Unwired == [k \in Key |-> NoHop]
NoRequest == [pc |-> "idle", dev |-> NoDevice, key |-> NoKey, head |-> NoDevice,
              first |-> TRUE, recovering |-> FALSE, victim |-> NoDevice,
              rplan |-> << >>, of |-> NoSolution, i |-> 0, epoch |-> 0]

\* The coordinator and the workers have just been started.
Init ==
  /\ crashed = {}
  /\ stages = [d \in Device |-> {}]
  /\ backup_for = [d \in Device |-> NoOwner]
  /\ next_hop = [d \in Device |-> Unwired]
  /\ head = {}
  /\ server = NoSolution
  /\ deploy = [pc |-> "idle", i |-> 1, todo |-> {}]
  /\ bound = NoSolution /\ dead = {} /\ plan = << >>
  /\ req = NoRequest
  /\ crashes = 0 /\ deploys = 0
  /\ lost = {} /\ raced = FALSE

-----------------------------------------------------------------------------
(* StageRunner and SetNextHop. *)

\* Variant: the stages of the previous plan stay.
load_primary_keeps(d, k) ==
  /\ stages' = [stages EXCEPT ![d] = @ \cup {k}]
  /\ backup_for' = [backup_for EXCEPT ![d] = NoOwner]

\* A new primary drops everything else; a resident range is reused.
load_primary(d, k) ==
  /\ stages' = [stages EXCEPT ![d] = {k}]
  /\ backup_for' = [backup_for EXCEPT ![d] = NoOwner]

\* A range that is resident is reused, and gets an owner all the same.
load_backup(d, k, owner) ==
  /\ stages' = [stages EXCEPT ![d] = @ \cup {k}]
  /\ backup_for' = [backup_for EXCEPT ![d][k] = owner]

\* final_layer_norm and lm_head; nothing ever unloads them.
load_head(d) == head' = head \cup {d}

\* promote_backup raises when no range is held for that device.
HasBackup(d, owner) == \E k \in Key : backup_for[d][k] = owner

\* Variant: the last stage but one is taken for the last one.
Hop_short(devs, keys, i) ==
  IF i + 1 < Len(devs) THEN [dev |-> devs[i + 1], key |-> keys[i + 1]] ELSE NoHop

Hop(devs, keys, i) ==
  IF i < Len(devs) THEN [dev |-> devs[i + 1], key |-> keys[i + 1]] ELSE NoHop

SetNextHop(devs, keys, i) ==
  next_hop' = [next_hop EXCEPT ![devs[i]][keys[i]] = Hop(devs, keys, i)]

-----------------------------------------------------------------------------
(* deploy(): a call to a worker that is gone raises and ends it. *)

Idle == deploy.pc \in {"idle", "failed"}

StartDeploy(q) ==
  /\ deploys < MaxDeploys
  /\ server' = q
  /\ deploy' = [pc |-> "load", i |-> 1, todo |-> {}]
  /\ deploys' = deploys + 1
  /\ lost' = crashed /\ raced' = FALSE
  /\ UNCHANGED <<crashed, workers, gateway, req, crashes>>

\* auto_schedule, once in the life of a coordinator; profiling needs every worker.
AutoSchedule(q) ==
  /\ server = NoSolution /\ crashed = {}
  /\ StartDeploy(q)

\* POST /api/reconfigure: R = {}, unless the placement cache, whose key ignores
\* the override, still has the solution of the full fleet.
Reconfigure(q) ==
  /\ Idle /\ bound # NoSolution
  /\ LET survivors == Device \ dead
     IN /\ survivors # {} /\ survivors \cap crashed = {}
        /\ Owners(q.devs) \subseteq survivors
        /\ q.recovery = NoBackups \/ survivors = Device
  /\ StartDeploy(q)

Fails ==
  /\ deploy' = [pc |-> "failed", i |-> 1, todo |-> {}]
  /\ UNCHANGED <<crashed, workers, server, gateway, req, counts, lost, raced>>

Proceeds == UNCHANGED <<crashed, server, gateway, req, counts, lost, raced>>

LoadStage ==
  LET d == server.devs[deploy.i]
  IN /\ deploy.pc = "load"
     /\ \/ d \in crashed /\ Fails
        \/ /\ d \notin crashed
           /\ load_primary(d, server.keys[deploy.i])
           /\ deploy' = IF deploy.i < Len(server.devs)
                        THEN [deploy EXCEPT !.i = @ + 1]
                        ELSE [deploy EXCEPT !.pc = "wire", !.i = 1]
           /\ UNCHANGED <<next_hop, head>>
           /\ Proceeds

\* Front to back; the last worker gets the head first.
WireStage ==
  LET d == server.devs[deploy.i]
  IN /\ deploy.pc = "wire"
     /\ \/ d \in crashed /\ Fails
        \/ /\ d \notin crashed
           /\ SetNextHop(server.devs, server.keys, deploy.i)
           /\ IF deploy.i < Len(server.devs) THEN UNCHANGED head ELSE load_head(d)
           /\ deploy' = IF deploy.i < Len(server.devs)
                        THEN [deploy EXCEPT !.i = @ + 1]
                        ELSE [pc |-> "backup", i |-> 1,
                              todo |-> IF eager_backup THEN DOMAIN server.devs ELSE {}]
           /\ UNCHANGED <<stages, backup_for>>
           /\ Proceeds

\* Variant: the range of the backup itself, in place of that of the device it
\* stands in for.
BackupKey_own(i) ==
  IF \E j \in DOMAIN server.devs : server.devs[j] = server.recovery[server.devs[i]]
  THEN server.keys[CHOOSE j \in DOMAIN server.devs :
                     server.devs[j] = server.recovery[server.devs[i]]]
  ELSE server.keys[i]

BackupKey(i) == server.keys[i]

\* inverse_recovery groups the table, which is in the order of the fleet, by backup.
Entry(i) == CHOOSE e \in DOMAIN fleet : fleet[e] = server.devs[i]
Group(i) ==
  CHOOSE e \in {Entry(f) : f \in DOMAIN server.devs} :
    /\ server.recovery[fleet[e]] = server.recovery[server.devs[i]]
    /\ \A f \in DOMAIN server.devs :
         server.recovery[server.devs[f]] = server.recovery[server.devs[i]] => e <= Entry(f)
NotAfter(i, j) ==
  Group(i) < Group(j) \/ (Group(i) = Group(j) /\ Entry(i) <= Entry(j))

\* The backup of stage i, if R has one.
LoadBackup(i) ==
  LET j == server.devs[i]
      k == server.recovery[j]
  IN /\ deploy.pc = "backup" /\ i \in deploy.todo
     /\ \A other \in deploy.todo : NotAfter(i, other)
     /\ \/ k \in crashed /\ Fails
        \/ /\ k \notin crashed
           /\ IF k = NoDevice THEN UNCHANGED <<stages, backup_for>>
              ELSE load_backup(k, BackupKey(i), j)
           /\ deploy' = [deploy EXCEPT !.todo = @ \ {i}]
           /\ UNCHANGED <<next_hop, head>>
           /\ Proceeds

\* rebind_plan, or the creation of the gateway after the first deploy.
Rebind ==
  /\ deploy.pc = "backup" /\ deploy.todo = {}
  /\ bound' = server /\ dead' = {} /\ plan' = server.devs
  /\ deploy' = [deploy EXCEPT !.pc = "idle"]
  /\ UNCHANGED <<crashed, workers, server, req, counts, lost, raced>>

-----------------------------------------------------------------------------
(* Workers and the coordinator go and come back. *)

Crash(d) ==
  /\ d \notin crashed /\ crashes < MaxCrashes
  /\ crashed' = crashed \cup {d} /\ crashes' = crashes + 1
  /\ lost' = lost \cup {d}
  /\ stages' = [stages EXCEPT ![d] = {}]
  /\ backup_for' = [backup_for EXCEPT ![d] = NoOwner]
  /\ next_hop' = [next_hop EXCEPT ![d] = Unwired]
  /\ head' = head \ {d}
  /\ UNCHANGED <<server, deploy, gateway, req, deploys, raced>>

\* A new process: it heartbeats and answers, with nothing loaded.
Restart(d) ==
  /\ d \in crashed /\ crashed' = crashed \ {d}
  /\ UNCHANGED <<workers, server, deploy, gateway, req, counts, lost, raced>>

\* The workers keep what they hold; the requests are gone.
RestartCoordinator ==
  /\ server # NoSolution /\ deploys < MaxDeploys
  /\ server' = NoSolution /\ bound' = NoSolution /\ dead' = {} /\ plan' = << >>
  /\ deploy' = [deploy EXCEPT !.pc = "idle", !.i = 1, !.todo = {}]
  /\ req' = NoRequest
  /\ UNCHANGED <<crashed, workers, counts, lost, raced>>

\* Variant: the plan is built without a test for missing backups.
MarkDead_unchecked(d) ==
  /\ dead' = dead \cup {d}
  /\ plan' = build_execution_plan(bound.devs, bound.recovery, dead')

\* mark_dead and mark_alive, as in GatewayPlan.
MarkDead(d) ==
  /\ dead' = dead \cup {d}
  /\ plan' = IF Viable(bound.devs, bound.recovery, dead')
             THEN build_execution_plan(bound.devs, bound.recovery, dead') ELSE plan

\* The heartbeats of a worker stop: nothing is wired again.
OnFailure(d) ==
  /\ bound # NoSolution /\ d \in crashed \ dead
  /\ MarkDead(d)
  /\ UNCHANGED <<crashed, workers, server, deploy, bound, req, counts, lost, raced>>

Revive(d) ==
  /\ d \in dead \ crashed
  /\ dead' = dead \ {d}
  /\ plan' = IF Viable(bound.devs, bound.recovery, dead')
             THEN build_execution_plan(bound.devs, bound.recovery, dead') ELSE plan
  /\ UNCHANGED <<crashed, workers, server, deploy, bound, req, counts, lost, raced>>
-----------------------------------------------------------------------------
(* A request thread: one step along the chain, and the recovery of its failure. *)

Server == UNCHANGED <<crashed, server, deploy, bound, counts, lost>>

\* epoch is the deploy the call comes after, 0 when one is under way or failed.
CallHead(r) == [r EXCEPT !.pc = "walk", !.dev = plan[1], !.key = bound.keys[1],
                         !.head = plan[1], !.first = TRUE,
                         !.epoch = IF deploy.pc = "idle" THEN deploys ELSE 0]

Step ==
  /\ req.pc = "idle" /\ bound # NoSolution
  /\ req' = CallHead(NoRequest)
  /\ UNCHANGED <<workers, dead, plan, raced>> /\ Server

\* RunStage fails on a worker that is gone or does not hold the range; otherwise
\* the worker forwards along its own next hop, or answers if it has none.
RunStage ==
  LET d == req.dev
      k == req.key
      hop == next_hop[d][k]
  IN /\ req.pc = "walk"
     /\ req' = IF d \in crashed \/ k \notin stages[d]
               THEN IF req.recovering THEN NoRequest ELSE [req EXCEPT !.pc = "blame"]
               ELSE IF hop = NoHop THEN [req EXCEPT !.pc = "answered"]
               ELSE [req EXCEPT !.dev = hop.dev, !.key = hop.key, !.first = FALSE]
     /\ UNCHANGED <<workers, dead, plan, raced>> /\ Server

Answer ==
  /\ req.pc = "answered"
  /\ req' = NoRequest
  /\ UNCHANGED <<workers, dead, plan, raced>> /\ Server

\* _attribute_chain_failure: the owner of the range in the gateway's placement
\* of now, else the head that was called.
Blamed ==
  IF ~req.first /\ \E i \in DOMAIN bound.keys : bound.keys[i] = req.key
  THEN bound.devs[CHOOSE i \in DOMAIN bound.keys : bound.keys[i] = req.key]
  ELSE req.head

\* mark_dead unless it is known; NoRecoveryError ends the request.
Blame ==
  LET d == Blamed
  IN /\ req.pc = "blame"
     /\ IF d \in dead THEN UNCHANGED <<dead, plan>> ELSE MarkDead(d)
     /\ req' = IF d \notin dead /\ ~Viable(bound.devs, bound.recovery, dead \cup {d})
               THEN NoRequest ELSE [NoRequest EXCEPT !.pc = "promote", !.victim = d]
     /\ UNCHANGED <<workers, raced>> /\ Server

\* PromoteBackup, which raises at a worker without that backup; then the copy of
\* the plan that _rewire_chain works through.
Promote ==
  LET k == bound.recovery[req.victim]
  IN /\ req.pc = "promote"
     /\ req' = IF k # NoDevice /\ k \notin crashed /\ HasBackup(k, req.victim)
               THEN [NoRequest EXCEPT !.pc = "rewire", !.i = 1, !.rplan = plan, !.of = bound]
               ELSE NoRequest
     /\ UNCHANGED <<workers, dead, plan, raced>> /\ Server

\* _rewire_chain, one SetNextHop at a time; a worker that is gone is skipped.
\* At its end the history is replayed from the head of the plan of then.
Rewire ==
  LET d == req.rplan[req.i]
      other == req.of # bound \/ deploy.pc \in {"wire", "backup"}
  IN /\ req.pc = "rewire"
     /\ IF d \in crashed THEN UNCHANGED <<next_hop, raced>>
        ELSE /\ SetNextHop(req.rplan, req.of.keys, req.i)
             /\ raced' = (raced \/ other)
     /\ req' = IF req.i < Len(req.rplan) THEN [req EXCEPT !.i = @ + 1]
               ELSE [CallHead(NoRequest) EXCEPT !.recovering = TRUE]
     /\ UNCHANGED <<stages, backup_for, head, dead, plan>> /\ Server

Deploying == LoadStage \/ WireStage \/ (\E i \in DOMAIN server.devs : LoadBackup(i)) \/ Rebind

Request == Step \/ RunStage \/ Answer \/ Blame \/ Promote \/ Rewire

Next ==
  \/ \E q \in Solutions : AutoSchedule(q) \/ Reconfigure(q)
  \/ Deploying
  \/ Request
  \/ \E d \in Device : Crash(d) \/ Restart(d) \/ OnFailure(d) \/ Revive(d)
  \/ RestartCoordinator

Spec == Init /\ [][Next]_vars

-----------------------------------------------------------------------------
(* Properties. *)

Solution == Solutions \cup {NoSolution}
HopType == {NoHop} \cup [dev : Device, key : Key]

TypeOK ==
  /\ crashed \subseteq Device /\ lost \subseteq Device /\ head \subseteq Device
  /\ stages \in [Device -> SUBSET Key]
  /\ backup_for \in [Device -> [Key -> MaybeDevice]]
  /\ next_hop \in [Device -> [Key -> HopType]]
  /\ server \in Solution /\ bound \in Solution
  /\ deploy.pc \in {"idle", "load", "wire", "backup", "failed"}
  /\ deploy.pc \in {"load", "wire", "backup"} => server # NoSolution
  /\ deploy.i \in Nat /\ deploy.todo \subseteq Nat
  /\ dead \subseteq Device /\ plan \in Seq(Device) /\ Len(plan) = Len(bound.devs)
  /\ req.pc \in {"idle", "walk", "answered", "blame", "promote", "rewire"}
  /\ req.pc # "idle" => bound # NoSolution
  /\ raced \in BOOLEAN

\* What the solution q asks of worker d: its own range and those it backs up.
Asked(q, d) ==
  {q.keys[i] : i \in {i \in DOMAIN q.devs : q.devs[i] = d \/ q.recovery[q.devs[i]] = d}}

\* No worker ever holds ranges of two plans at a time: "keeping them doubled a
\* worker's weight footprint on every redeploy ... an OOM kill mid-LoadStage"
\* (stage_runner.py, load_primary).  It has to hold through deploys that fail
\* halfway, restarts of workers and restarts of the coordinator.
OnePlanAtATime ==
  \A d \in Device : \E q \in Solutions : stages[d] \subseteq Asked(q, d)

\* Once a deploy is over and the gateway is bound to it, every worker that has
\* not crashed since the deploy began holds what the plan and R take it to hold,
\* backups registered under the right owner included, and its next hop is the
\* next stage, at its owner or its backup -- unless a recovery that still had an
\* earlier plan, or came between the wirings, has wired that one.
DeployedIsReady ==
  deploy.pc = "idle" /\ bound # NoSolution =>
    \A i \in DOMAIN bound.devs :
      LET d == bound.devs[i]
          k == bound.recovery[d]
          hop == next_hop[d][bound.keys[i]]
      IN /\ d \notin lost =>
              /\ bound.keys[i] \in stages[d]
              /\ ~raced => IF i = Len(bound.devs) THEN hop = NoHop /\ d \in head
                           ELSE /\ hop.key = bound.keys[i + 1]
                                /\ hop.dev \in {bound.devs[i + 1],
                                               bound.recovery[bound.devs[i + 1]]}
         /\ eager_backup /\ k \notin lost \cup {NoDevice} =>
              bound.keys[i] \in stages[k] /\ backup_for[k][bound.keys[i]] = d

\* With no deploy under way or failed halfway, or wired over by a recovery, a
\* call is never answered by a stage in the middle of the model as if it were
\* the last one -- however stale the next hops are that redeploys, restarts and
\* revivals leave behind -- as long as the first stage is at its owner.  The
\* heartbeats put its backup there without wiring it, and it may then follow what
\* an earlier deploy told it.
NoSilentTruncation ==
  [][ (req.pc = "walk" /\ req'.pc = "answered" /\ req.key[2] # Layers)
        => \/ deploy.pc # "idle" \/ raced \/ req.epoch # deploys
           \/ req.head # bound.devs[1] ]_vars
=============================================================================
