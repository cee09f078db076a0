----------------------------- MODULE GatewayPlan -----------------------------
(***************************************************************************)
(* Who decides that a device is dead, and which plan requests are sent     *)
(* along: the plan-locked state of RequestGateway (gateway.py), the        *)
(* FailureDetector with its tick thread and on_failure callback            *)
(* (failure_detector.py, server.py), the web controls that edit the dead   *)
(* set (web_api.py) and the reactive re-placement that replaces the plan   *)
(* (server.py).                                                            *)
(*                                                                         *)
(* Threads: the tick thread (Tick, then one callback per flagged device,   *)
(* outside the detector's lock), the gRPC threads that deliver heartbeats, *)
(* the generation threads (Dispatch, ChainMarkDead) and the web threads    *)
(* (Inject, Revive, one clear-all loop, one reconfigure).                  *)
(***************************************************************************)
EXTENDS RecoveryPlan, FiniteSets

CONSTANTS InitPlacement,  \* the placement deploy() pushed before serving
          InitRecovery,   \* and its recovery table
          AutoMode,       \* schedule_mode = auto: the gateway appears later
          Heartbeating,   \* workers started with a coordinator address
          WebOps,         \* which web controls are in use
          MaxCrashes,     \* bound: workers that crash
          MaxReconfigs    \* bound: reconfigure calls

ASSUME PlacementAssumption == InitPlacement \in Placements
ASSUME RecoveryAssumption == InitRecovery \in RecoveryTable
ASSUME ModeAssumption ==
  /\ AutoMode \in BOOLEAN
  /\ Heartbeating \subseteq Device
  /\ WebOps \subseteq {"inject", "revive", "clear", "reconfigure"}
ASSUME BoundAssumption == MaxCrashes \in Nat /\ MaxReconfigs \in Nat

VARIABLES
  gatewayUp,    \* server.gateway is not None
  placement,    \* gateway.placement
  recovery,     \* gateway.recovery
  dead,         \* gateway._dead
  plan,         \* gateway._execution_plan
  dispatched,   \* the plan the latest pipeline step was sent along
  srvPlacement, \* server.placement
  srvRecovery,  \* server.recovery
  crashed,      \* workers whose process is gone
  hbInFlight,   \* workers with a Heartbeat RPC on its way
  record,       \* detector._records: age of the newest heartbeat
  fired,        \* detector._fired
  fired_now,    \* flagged by the current tick, callback not yet begun
  clearing,     \* devices the clear-all loop has still to revive
  reconf,       \* program counter of the reconfigure call
  deployed,     \* worker calls of its deploy() that were answered
  reconfigs     \* reconfigure calls so far

gatewayVars == <<gatewayUp, placement, recovery, dead, plan>>
serverVars  == <<srvPlacement, srvRecovery>>
detectorVars == <<hbInFlight, record, fired, fired_now>>
webVars     == <<clearing, reconf, deployed, reconfigs>>
vars == <<gatewayVars, dispatched, serverVars, detectorVars, crashed, webVars>>

NoPlan == << >>

Init ==
  /\ gatewayUp = ~AutoMode
  /\ placement = InitPlacement
  /\ recovery = InitRecovery
  /\ dead = {}
  /\ plan = build_execution_plan(InitPlacement, InitRecovery, {})
  /\ dispatched = NoPlan
  /\ srvPlacement = InitPlacement
  /\ srvRecovery = InitRecovery
  /\ crashed = {}
  /\ hbInFlight = {}
  /\ record = [d \in Device |-> "none"]
  /\ fired = {}
  /\ fired_now = {}
  /\ clearing = {}
  /\ reconf = "idle"
  /\ deployed = 0
  /\ reconfigs = 0

-----------------------------------------------------------------------------
(* Gateway operations, each under _plan_lock. *)

\* Mutant: the substitution is made without asking whether the backup is alive.
Rebuild_unchecked(newDead) ==
  /\ dead' = newDead
  /\ plan' = build_execution_plan(placement, recovery, newDead)

\* What both writers of _dead do next: rebuild the plan, or raise
\* NoRecoveryError and leave the previous plan in place.
Rebuild(newDead) ==
  /\ dead' = newDead
  /\ plan' = IF Viable(placement, recovery, newDead)
             THEN build_execution_plan(placement, recovery, newDead)
             ELSE plan

Raises(newDead) == ~Viable(placement, recovery, newDead)

\* Mutant: the plan is built for the latest failure alone.
mark_dead_latest(d) ==
  /\ d \notin dead /\ dead' = dead \cup {d}
  /\ plan' = IF Viable(placement, recovery, {d})
             THEN build_execution_plan(placement, recovery, {d}) ELSE plan
  /\ UNCHANGED <<gatewayUp, placement, recovery>>

\* Mutant: NoRecoveryError takes the device out of the dead set again.
mark_dead_rollback(d) ==
  /\ IF d \in dead \/ Raises(dead \cup {d})
     THEN UNCHANGED <<dead, plan>> ELSE Rebuild(dead \cup {d})
  /\ UNCHANGED <<gatewayUp, placement, recovery>>

\* A device that is already dead returns False before anything changes.
mark_dead(d) ==
  /\ IF d \in dead THEN UNCHANGED <<dead, plan>> ELSE Rebuild(dead \cup {d})
  /\ UNCHANGED <<gatewayUp, placement, recovery>>

\* Mutant: the plan is not rebuilt.
mark_alive_stale(d) ==
  /\ dead' = dead \ {d}
  /\ UNCHANGED <<plan, gatewayUp, placement, recovery>>

mark_alive(d) ==
  /\ IF d \in dead THEN Rebuild(dead \ {d}) ELSE UNCHANGED <<dead, plan>>
  /\ UNCHANGED <<gatewayUp, placement, recovery>>

\* server.deploy() is over: the old dead set goes wholesale.
rebind_plan(p, R) ==
  /\ placement' = p
  /\ recovery' = R
  /\ dead' = {}
  /\ plan' = build_execution_plan(p, R, {})
  /\ UNCHANGED gatewayUp

\* Auto mode: the gateway is built once profiling and deploy are over.
EnsureGateway ==
  /\ ~gatewayUp
  /\ gatewayUp' = TRUE
  /\ UNCHANGED <<placement, recovery, dead, plan, dispatched, serverVars,
                 detectorVars, crashed, webVars>>

\* _run_pipeline copies the plan at the start of a step.
Dispatch ==
  /\ gatewayUp
  /\ dispatched' = plan
  /\ UNCHANGED <<gatewayVars, serverVars, detectorVars, crashed, webVars>>

\* A chain call failed: a crash, a missed deadline, a stage that a deploy has
\* unloaded.  _attribute_chain_failure answers with an owner of the placement or
\* with the head that was called, and the recovery marks it.
ChainMarkDead(d) ==
  /\ gatewayUp
  /\ dispatched # NoPlan
  /\ d \in Owners(placement) \cup {dispatched[1]}
  /\ d \notin dead
  /\ mark_dead(d)
  /\ UNCHANGED <<dispatched, serverVars, detectorVars, crashed, webVars>>

-----------------------------------------------------------------------------
(* Workers and their heartbeats. *)

Crash(d) ==
  /\ Cardinality(crashed) < MaxCrashes
  /\ d \notin crashed
  /\ crashed' = crashed \cup {d}
  /\ UNCHANGED <<gatewayVars, dispatched, serverVars, detectorVars, webVars>>

SendHeartbeat(d) ==
  /\ d \in Heartbeating \ (crashed \cup hbInFlight)
  /\ hbInFlight' = hbInFlight \cup {d}
  /\ UNCHANGED <<gatewayVars, dispatched, serverVars, record, fired,
                 fired_now, crashed, webVars>>

LoseHeartbeat(d) ==
  /\ d \in hbInFlight
  /\ hbInFlight' = hbInFlight \ {d}
  /\ UNCHANGED <<gatewayVars, dispatched, serverVars, record, fired,
                 fired_now, crashed, webVars>>

\* FailureDetector.record: the timestamp is the worker's, so a heartbeat that
\* was delayed may already be too old when it is stored.
DeliverHeartbeat(d) ==
  /\ d \in hbInFlight
  /\ hbInFlight' = hbInFlight \ {d}
  /\ \E age \in {"fresh", "stale"} : record' = [record EXCEPT ![d] = age]
  /\ fired' = fired \ {d}
  /\ UNCHANGED <<gatewayVars, dispatched, serverVars, fired_now, crashed,
                 webVars>>

\* Time passes: the newest heartbeat of d is now older than the timeout.
HeartbeatAges(d) ==
  /\ record[d] = "fresh"
  /\ record' = [record EXCEPT ![d] = "stale"]
  /\ UNCHANGED <<gatewayVars, dispatched, serverVars, hbInFlight, fired,
                 fired_now, crashed, webVars>>

-----------------------------------------------------------------------------
(* The failure detector's thread. *)

Overdue == {d \in Device : record[d] = "stale"} \ fired

\* Mutant: every overdue device counts as reported, one of them is.
Tick_one ==
  /\ fired_now = {}
  /\ Overdue # {}
  /\ fired' = fired \cup Overdue
  /\ \E d \in Overdue : fired_now' = {d}
  /\ UNCHANGED <<gatewayVars, dispatched, serverVars, hbInFlight, record,
                 crashed, webVars>>

\* One sweep under the lock; the callbacks follow outside it, and the loop
\* sweeps again only when all of them are over.
Tick ==
  /\ fired_now = {}
  /\ Overdue # {}
  /\ fired' = fired \cup Overdue
  /\ fired_now' = Overdue
  /\ UNCHANGED <<gatewayVars, dispatched, serverVars, hbInFlight, record,
                 crashed, webVars>>

\* on_failure for one flagged device.  Without a gateway it does nothing; a
\* NoRecoveryError of mark_dead is swallowed.  The promote_backup RPC that
\* follows sets a flag of the backup worker that no code reads, so it leaves
\* this state alone.
OnFailure(d) ==
  /\ d \in fired_now
  /\ fired_now' = fired_now \ {d}
  /\ IF gatewayUp THEN mark_dead(d) ELSE UNCHANGED gatewayVars
  /\ UNCHANGED <<dispatched, serverVars, hbInFlight, record, fired, crashed,
                 webVars>>

-----------------------------------------------------------------------------
(* Web controls. *)

Inject(d) ==
  /\ "inject" \in WebOps /\ gatewayUp
  /\ mark_dead(d)
  /\ UNCHANGED <<dispatched, serverVars, detectorVars, crashed, webVars>>

Revive(d) ==
  /\ "revive" \in WebOps /\ gatewayUp
  /\ mark_alive(d)
  /\ UNCHANGED <<dispatched, serverVars, detectorVars, crashed, webVars>>

\* post_clear_all_failures lists the dead set without the lock ...
ClearAllStart ==
  /\ "clear" \in WebOps /\ gatewayUp
  /\ clearing = {} /\ dead # {}
  /\ clearing' = dead
  /\ UNCHANGED <<gatewayVars, dispatched, serverVars, detectorVars,
                 crashed, reconf, deployed, reconfigs>>

\* ... and revives one device after the other; an exception ends the loop.
ClearAllNext(d) ==
  /\ d \in clearing
  /\ mark_alive(d)
  /\ clearing' = IF d \in dead /\ Raises(dead \ {d}) THEN {} ELSE clearing \ {d}
  /\ UNCHANGED <<dispatched, serverVars, detectorVars, crashed,
                 reconf, deployed, reconfigs>>

\* The tables a solve over the survivors may come back with: R = {}, or, from the
\* placement cache, whose fingerprint does not tell the two apart, the table that
\* was solved with backups for the same set of devices.
Solved(p) ==
  {NoBackups} \cup {R \in {InitRecovery} : AutoMode /\ dead = {} /\ p = InitPlacement}

\* post_reconfigure and _profile_and_solve over the survivors, everything the
\* gateway does not hold dead.  Each of them must have a heartbeat on record and
\* answer its profiling call, or the call raises before anything is stored; the
\* solver may use any of them.
ReconfigureSolve(p) ==
  /\ "reconfigure" \in WebOps /\ gatewayUp
  /\ reconf = "idle" /\ reconfigs < MaxReconfigs
  /\ \A d \in Device \ dead : record[d] # "none" /\ d \notin crashed
  /\ p \in Placements /\ Owners(p) \subseteq Device \ dead
  /\ srvPlacement' = p
  /\ srvRecovery' \in Solved(p)
  /\ reconf' = "deploy"
  /\ deployed' = 0
  /\ reconfigs' = reconfigs + 1
  /\ UNCHANGED <<gatewayVars, dispatched, detectorVars, crashed, clearing>>

\* One worker call of deploy(): LoadStage along the placement, then SetNextHop
\* along it.  A worker that is gone makes deploy() raise, and rebind_plan is
\* never reached.
ReconfigureDeploy ==
  /\ reconf = "deploy" /\ deployed < 2 * Len(srvPlacement)
  /\ IF srvPlacement[(deployed % Len(srvPlacement)) + 1] \in crashed
     THEN reconf' = "idle" /\ UNCHANGED deployed
     ELSE deployed' = deployed + 1 /\ UNCHANGED reconf
  /\ UNCHANGED <<gatewayVars, dispatched, serverVars, detectorVars, crashed,
                 clearing, reconfigs>>

\* The LoadBackup calls, which need the backup hosts alive.
ReconfigureBackups ==
  /\ reconf = "deploy" /\ deployed = 2 * Len(srvPlacement)
  /\ reconf' = IF \E d \in Owners(srvPlacement) : srvRecovery[d] \in crashed
               THEN "idle" ELSE "rebind"
  /\ UNCHANGED <<gatewayVars, dispatched, serverVars, detectorVars, crashed,
                 clearing, deployed, reconfigs>>

ReconfigureRebind ==
  /\ reconf = "rebind"
  /\ rebind_plan(srvPlacement, srvRecovery)
  /\ reconf' = "idle"
  /\ UNCHANGED <<dispatched, serverVars, detectorVars, crashed, clearing,
                 deployed, reconfigs>>

-----------------------------------------------------------------------------
\* The placements a solve may return: one device per layer range.
ShortPlacements ==
  {p \in UNION {[1..n -> Device] : n \in 1..Cardinality(Device)} :
     \A i, j \in DOMAIN p : p[i] = p[j] => i = j}

Worker(d) ==
  \/ Crash(d)
  \/ SendHeartbeat(d)
  \/ LoseHeartbeat(d)
  \/ DeliverHeartbeat(d)
  \/ HeartbeatAges(d)

Web ==
  \/ \E d \in Device : Inject(d) \/ Revive(d) \/ ClearAllNext(d)
  \/ ClearAllStart
  \/ \E p \in ShortPlacements : ReconfigureSolve(p)
  \/ ReconfigureDeploy \/ ReconfigureBackups \/ ReconfigureRebind

Next ==
  \/ EnsureGateway
  \/ Dispatch
  \/ \E d \in Device : ChainMarkDead(d) \/ Worker(d) \/ OnFailure(d)
  \/ Tick
  \/ Web

Spec == Init /\ [][Next]_vars

(***************************************************************************)
(* The detector loops forever in its own thread, its callbacks return, and *)
(* the age of a crashed worker's last heartbeat grows.  Nobody is obliged  *)
(* to crash, to send a request or to press a button.                       *)
(***************************************************************************)
Fairness ==
  /\ WF_vars(Tick)
  /\ WF_vars(ReconfigureDeploy \/ ReconfigureBackups \/ ReconfigureRebind)
  /\ \A d \in Device :
       /\ WF_vars(OnFailure(d))
       /\ WF_vars(LoseHeartbeat(d) \/ DeliverHeartbeat(d))
       /\ WF_vars(HeartbeatAges(d) /\ d \in crashed)

FairSpec == Spec /\ Fairness
-----------------------------------------------------------------------------
(* Properties. *)

TypeOK ==
  /\ gatewayUp \in BOOLEAN
  /\ placement \in Placements /\ srvPlacement \in Placements
  /\ recovery \in RecoveryTable /\ srvRecovery \in RecoveryTable
  /\ dead \in SUBSET Device /\ crashed \in SUBSET Device
  /\ plan \in Seq(Device) /\ dispatched \in Seq(Device)
  /\ hbInFlight \in SUBSET Device
  /\ record \in [Device -> {"none", "fresh", "stale"}]
  /\ fired \in SUBSET Device /\ fired_now \in SUBSET Device
  /\ clearing \in SUBSET Device
  /\ reconf \in {"idle", "deploy", "rebind"}
  /\ deployed \in 0..(2 * Len(srvPlacement))
  /\ reconfigs \in Nat

\* The routed plan is the one the dead set calls for whenever there is one:
\* after any order of detector marks, chain marks, injected failures, revives
\* (some of which raise halfway) and re-placements, _execution_plan is never
\* left behind _dead (mark_dead, mark_alive, rebind_plan of gateway.py).
PlanFollowsDead ==
  Viable(placement, recovery, dead)
    => plan = build_execution_plan(placement, recovery, dead)

\* A NoRecoveryError leaves a whole plan behind, never a half-built one: the
\* plan in force is the plan of some dead set that had one.
PlanIsSomeViablePlan ==
  \E D \in SUBSET Device :
    /\ Viable(placement, recovery, D)
    /\ plan = build_execution_plan(placement, recovery, D)

\* "keeps the surviving stages where they were": while the placement stands
\* and failures only accumulate, a plan entry changes hands only when its own
\* original owner is among the newly dead.
FailureMovesOnlyTheFailed ==
  [][ (placement' = placement /\ recovery' = recovery /\ dead \subseteq dead')
        => \A i \in DOMAIN placement :
             plan'[i] # plan[i] => placement[i] \in dead' \ dead ]_vars

\* A device the detector has flagged, and whose callback is over, is dead for
\* the gateway: tick adds it to _fired once and will not call back again, so a
\* mark lost here would be lost for good (tick, on_failure).  Holds where the
\* gateway exists from the start and no web control takes devices out of _dead.
SuspicionReachesGateway == fired \subseteq dead \cup fired_now

\* A worker that crashed after it registered, in the pipeline or not, is
\* eventually dead for the gateway, with no request in flight (FailureDetector).
CrashIsRouted ==
  \A d \in Device : (d \in crashed /\ record[d] # "none") ~> (d \in dead)
=============================================================================
