------------------------- MODULE GatewayPlanProofs -------------------------
(***************************************************************************)
(* Proofs about GatewayPlan, for every set of devices, every placement and *)
(* recovery table, any number of crashes and reconfigurations:             *)
(*   - the type invariant;                                                 *)
(*   - the plan that is routed along never falls behind the dead set;      *)
(*   - a NoRecoveryError leaves a complete plan in force;                  *)
(*   - a failure moves the stages of the failed devices and no others;     *)
(*   - a suspicion of the detector is never lost on its way to the gateway.*)
(***************************************************************************)
EXTENDS GatewayPlan, CommonLemmas

-----------------------------------------------------------------------------
(* The type invariant. *)

LEMMA InitType == Init => TypeOK
<1> SUFFICES ASSUME Init PROVE TypeOK
  OBVIOUS
<1>1. plan \in Seq(Device)
  BY PlacementAssumption, RecoveryAssumption, NobodyDead, ViablePlanType DEF Init
<1>2. placement \in Placements /\ srvPlacement \in Placements
  BY PlacementAssumption DEF Init
<1>3. dispatched \in Seq(Device)
  BY DEF Init, NoPlan
<1>4. Len(srvPlacement) \in Nat
  BY <1>2 DEF Placements
<1>5. deployed \in 0..(2 * Len(srvPlacement))
  BY <1>4 DEF Init
<1> QED
  BY <1>1, <1>2, <1>3, <1>5, RecoveryAssumption, ModeAssumption DEF Init, TypeOK

\* The two writers of the dead set.
LEMMA RebuildType ==
  ASSUME TypeOK, NEW D \in SUBSET Device, Rebuild(D)
  PROVE  dead' \in SUBSET Device /\ plan' \in Seq(Device)
  BY ViablePlanType DEF TypeOK, Rebuild

LEMMA MarkType ==
  ASSUME TypeOK, NEW d \in Device, mark_dead(d) \/ mark_alive(d)
  PROVE  /\ dead' \in SUBSET Device /\ plan' \in Seq(Device)
         /\ UNCHANGED <<gatewayUp, placement, recovery>>
<1>1. CASE dead' = dead /\ plan' = plan /\ UNCHANGED <<gatewayUp, placement, recovery>>
  BY <1>1 DEF TypeOK
<1>2. CASE Rebuild(dead \cup {d})
  <2>1. dead \cup {d} \in SUBSET Device
    BY DEF TypeOK
  <2> QED
    BY <1>2, <2>1, RebuildType DEF mark_dead, mark_alive
<1>3. CASE Rebuild(dead \ {d})
  <2>1. dead \ {d} \in SUBSET Device
    BY DEF TypeOK
  <2> QED
    BY <1>3, <2>1, RebuildType DEF mark_dead, mark_alive
<1> QED
  BY <1>1, <1>2, <1>3 DEF mark_dead, mark_alive

LEMMA StepType == TypeOK /\ [Next]_vars => TypeOK'
<1> SUFFICES ASSUME TypeOK, [Next]_vars PROVE TypeOK'
  OBVIOUS
<1> USE DEF gatewayVars, serverVars, detectorVars, webVars
<1>1. CASE EnsureGateway \/ Dispatch \/ Tick
  BY <1>1 DEF TypeOK, EnsureGateway, Dispatch, Tick, Overdue
<1>2. ASSUME NEW d \in Device, ChainMarkDead(d) \/ Inject(d) \/ Revive(d)
      PROVE  TypeOK'
  BY <1>2, MarkType DEF TypeOK, ChainMarkDead, Inject, Revive
<1>3. ASSUME NEW d \in Device, OnFailure(d)
      PROVE  TypeOK'
  <2>1. dead' \in SUBSET Device /\ plan' \in Seq(Device)
        /\ UNCHANGED <<gatewayUp, placement, recovery>>
    BY <1>3, MarkType DEF OnFailure, TypeOK
  <2> QED
    BY <1>3, <2>1 DEF TypeOK, OnFailure
<1>4. ASSUME NEW d \in Device, Worker(d)
      PROVE  TypeOK'
  BY <1>4 DEF TypeOK, Worker, Crash, SendHeartbeat, LoseHeartbeat,
              DeliverHeartbeat, HeartbeatAges
<1>5. CASE ClearAllStart
  BY <1>5 DEF TypeOK, ClearAllStart
<1>6. ASSUME NEW d \in Device, ClearAllNext(d)
      PROVE  TypeOK'
  <2>1. clearing' \in SUBSET Device
    BY <1>6 DEF TypeOK, ClearAllNext
  <2>2. dead' \in SUBSET Device /\ plan' \in Seq(Device)
        /\ UNCHANGED <<gatewayUp, placement, recovery>>
    BY <1>6, MarkType DEF ClearAllNext
  <2> QED
    BY <1>6, <2>1, <2>2 DEF TypeOK, ClearAllNext
<1>7. ASSUME NEW p, ReconfigureSolve(p)
      PROVE  TypeOK'
  <2>1. srvPlacement' \in Placements /\ deployed' = 0 /\ reconfigs' \in Nat
    BY <1>7 DEF TypeOK, ReconfigureSolve
  <2>2. deployed' \in 0..(2 * Len(srvPlacement'))
    BY <2>1 DEF Placements
  <2>3. srvRecovery' \in RecoveryTable
    BY <1>7, NoBackupsType, RecoveryAssumption DEF ReconfigureSolve, Solved
  <2> QED
    BY <1>7, <2>1, <2>2, <2>3 DEF TypeOK, ReconfigureSolve
<1>8. CASE ReconfigureDeploy
  <2>1. deployed \in 0..(2 * Len(srvPlacement)) /\ Len(srvPlacement) \in Nat
    BY DEF TypeOK, Placements
  <2>2. CASE deployed' = deployed + 1 /\ deployed < 2 * Len(srvPlacement)
    <3>1. deployed' \in 0..(2 * Len(srvPlacement))
      BY <2>1, <2>2
    <3> QED
      BY <1>8, <3>1 DEF TypeOK, ReconfigureDeploy
  <2>3. CASE deployed' = deployed
    BY <1>8, <2>3 DEF TypeOK, ReconfigureDeploy
  <2> QED
    BY <1>8, <2>2, <2>3 DEF ReconfigureDeploy
<1>9. CASE ReconfigureRebind
  <2>1. plan' \in Seq(Device)
    BY <1>9, NobodyDead, ViablePlanType DEF TypeOK, ReconfigureRebind, rebind_plan
  <2> QED
    BY <1>9, <2>1 DEF TypeOK, ReconfigureRebind, rebind_plan
<1>10. CASE ReconfigureBackups
  BY <1>10 DEF TypeOK, ReconfigureBackups
<1>11. CASE UNCHANGED vars
  BY <1>11 DEF TypeOK, vars
<1> QED
  BY <1>1, <1>2, <1>3, <1>4, <1>5, <1>6, <1>7, <1>8, <1>9, <1>10, <1>11
     DEF Next, Web

\* Every variable keeps its type.
THEOREM TypeCorrect == Spec => []TypeOK
  BY InitType, StepType, PTL DEF Spec

-----------------------------------------------------------------------------
(* The plan and the dead set. *)

\* PlanFollowsDead is not inductive by itself: after an infeasible mark nothing
\* is known of the plan until a later step makes the dead set feasible again,
\* and that step rebuilds the plan.  PlanIsSomeViablePlan says what the plan is
\* in between.
PlanInv == TypeOK /\ PlanFollowsDead /\ PlanIsSomeViablePlan

\* Taking the plan of a viable dead set establishes both facts.
LEMMA FreshPlan ==
  ASSUME NEW D \in SUBSET Device,
         Viable(placement, recovery, D), dead = D,
         plan = build_execution_plan(placement, recovery, D)
  PROVE  PlanFollowsDead /\ PlanIsSomeViablePlan
  BY DEF PlanFollowsDead, PlanIsSomeViablePlan

LEMMA InitPlan == Init => PlanFollowsDead /\ PlanIsSomeViablePlan
<1> SUFFICES ASSUME Init PROVE PlanFollowsDead /\ PlanIsSomeViablePlan
  OBVIOUS
<1>1. {} \in SUBSET Device /\ Viable(placement, recovery, {})
  BY NobodyDead
<1>2. dead = {} /\ plan = build_execution_plan(placement, recovery, {})
  BY DEF Init
<1> QED
  BY <1>1, <1>2, FreshPlan

LEMMA RebuildPlan ==
  ASSUME PlanInv, NEW D \in SUBSET Device, Rebuild(D),
         UNCHANGED <<placement, recovery>>
  PROVE  PlanFollowsDead' /\ PlanIsSomeViablePlan'
<1>1. CASE Viable(placement, recovery, D)
  BY <1>1 DEF Rebuild, PlanFollowsDead, PlanIsSomeViablePlan
<1>2. CASE ~Viable(placement, recovery, D)
  <2>1. dead' = D /\ plan' = plan
    BY <1>2 DEF Rebuild
  <2>2. PlanFollowsDead'
    BY <1>2, <2>1 DEF PlanFollowsDead
  <2>3. PlanIsSomeViablePlan'
    BY <2>1 DEF PlanInv, PlanIsSomeViablePlan
  <2> QED
    BY <2>2, <2>3
<1> QED
  BY <1>1, <1>2

LEMMA SamePlan ==
  ASSUME PlanInv, UNCHANGED <<placement, recovery, dead, plan>>
  PROVE  PlanFollowsDead' /\ PlanIsSomeViablePlan'
  BY DEF PlanInv, PlanFollowsDead, PlanIsSomeViablePlan

\* Every change of the dead set goes through one of these three.
LEMMA DeadWriters ==
  ASSUME TypeOK, [Next]_vars
  PROVE  \/ UNCHANGED <<placement, recovery, dead, plan>>
         \/ /\ UNCHANGED <<placement, recovery>>
            /\ \E D \in SUBSET Device : Rebuild(D)
         \/ rebind_plan(srvPlacement, srvRecovery)
<1> DEFINE Same == UNCHANGED <<placement, recovery, dead, plan>>
           Rebuilds == /\ UNCHANGED <<placement, recovery>>
                       /\ \E D \in SUBSET Device : Rebuild(D)
           Rebinds == rebind_plan(srvPlacement, srvRecovery)
<1> USE DEF gatewayVars
<1>1. ASSUME NEW d \in Device, mark_dead(d) \/ mark_alive(d)
      PROVE  Same \/ Rebuilds
  <2>1. dead \cup {d} \in SUBSET Device /\ dead \ {d} \in SUBSET Device
    BY DEF TypeOK
  <2> QED
    BY <1>1, <2>1 DEF mark_dead, mark_alive
<1>2. ASSUME NEW d \in Device,
             ChainMarkDead(d) \/ Inject(d) \/ Revive(d) \/ ClearAllNext(d)
      PROVE  Same \/ Rebuilds
  BY <1>1, <1>2 DEF ChainMarkDead, Inject, Revive, ClearAllNext
<1>3. ASSUME NEW d \in Device, OnFailure(d)
      PROVE  Same \/ Rebuilds
  BY <1>1, <1>3 DEF OnFailure
<1>4. CASE \/ EnsureGateway \/ Dispatch \/ Tick \/ ClearAllStart
           \/ ReconfigureDeploy \/ ReconfigureBackups
  BY <1>4 DEF EnsureGateway, Dispatch, Tick, ClearAllStart, ReconfigureDeploy,
              ReconfigureBackups
<1>5. ASSUME NEW d \in Device, Worker(d)
      PROVE  Same
  BY <1>5 DEF Worker, Crash, SendHeartbeat, LoseHeartbeat, DeliverHeartbeat,
              HeartbeatAges
<1>6. ASSUME NEW p, ReconfigureSolve(p)
      PROVE  Same
  BY <1>6 DEF ReconfigureSolve
<1>7. CASE ReconfigureRebind
  BY <1>7 DEF ReconfigureRebind
<1>8. CASE UNCHANGED vars
  BY <1>8 DEF vars
<1>9. Same \/ Rebuilds \/ Rebinds
  BY <1>2, <1>3, <1>4, <1>5, <1>6, <1>7, <1>8 DEF Next, Web
<1> QED
  BY <1>9

LEMMA StepPlan ==
  ASSUME PlanInv, [Next]_vars
  PROVE  PlanFollowsDead' /\ PlanIsSomeViablePlan'
<1>1. CASE UNCHANGED <<placement, recovery, dead, plan>>
  BY <1>1, SamePlan
<1>2. ASSUME UNCHANGED <<placement, recovery>>,
             NEW D \in SUBSET Device, Rebuild(D)
      PROVE  PlanFollowsDead' /\ PlanIsSomeViablePlan'
  BY <1>2, RebuildPlan
<1>3. CASE rebind_plan(srvPlacement, srvRecovery)
  <2>1. Viable(placement', recovery', {})
    BY NobodyDead
  <2>2. dead' = {} /\ plan' = build_execution_plan(placement', recovery', {})
    BY <1>3 DEF rebind_plan
  <2> QED
    BY <2>1, <2>2 DEF PlanFollowsDead, PlanIsSomeViablePlan
<1> QED
  BY <1>1, <1>2, <1>3, DeadWriters DEF PlanInv

LEMMA PlanCorrect == Spec => []PlanInv
<1>1. Init => PlanInv
  BY InitType, InitPlan DEF PlanInv
<1>2. PlanInv /\ [Next]_vars => PlanInv'
  BY StepType, StepPlan DEF PlanInv
<1> QED
  BY <1>1, <1>2, PTL DEF Spec

\* The routed plan is never left behind the dead set, whatever the detector,
\* the chain, the web controls and the re-placement do to it in any order.
THEOREM PlanNeverLags == Spec => []PlanFollowsDead
  BY PlanCorrect, PTL DEF PlanInv

\* A NoRecoveryError never leaves a half-built plan in force.
THEOREM PlanIsWhole == Spec => []PlanIsSomeViablePlan
  BY PlanCorrect, PTL DEF PlanInv

-----------------------------------------------------------------------------
(* A failure moves only the stages of the failed. *)

LEMMA RebuildMovesOnlyTheFailed ==
  ASSUME PlanInv, NEW D \in SUBSET Device, Rebuild(D), dead \subseteq D,
         NEW i \in DOMAIN placement, plan'[i] # plan[i]
  PROVE  placement[i] \in D \ dead
<1>1. Viable(placement, recovery, D)
  BY DEF Rebuild
<1>2. plan' = build_execution_plan(placement, recovery, D)
  BY <1>1 DEF Rebuild
<1>3. plan = build_execution_plan(placement, recovery, dead)
  BY <1>1, ViableMonotone DEF PlanInv, PlanFollowsDead
<1> QED
  BY <1>2, <1>3, PlansDifferAtTheFailed

\* While failures only accumulate, a stage changes hands only when its original
\* owner is among the newly dead: survivors keep their stages and their KV.
THEOREM SurvivorsStay == Spec => FailureMovesOnlyTheFailed
<1> DEFINE Act == (placement' = placement /\ recovery' = recovery /\ dead \subseteq dead')
                    => \A i \in DOMAIN placement :
                         plan'[i] # plan[i] => placement[i] \in dead' \ dead
<1>1. PlanInv /\ [Next]_vars => Act
  <2> SUFFICES ASSUME PlanInv, [Next]_vars,
                      placement' = placement, recovery' = recovery,
                      dead \subseteq dead',
                      NEW i \in DOMAIN placement, plan'[i] # plan[i]
               PROVE  placement[i] \in dead' \ dead
    OBVIOUS
  <2>1. CASE UNCHANGED <<placement, recovery, dead, plan>>
    BY <2>1
  <2>2. ASSUME NEW D \in SUBSET Device, Rebuild(D)
        PROVE  placement[i] \in dead' \ dead
    BY <2>2, RebuildMovesOnlyTheFailed DEF Rebuild
  <2>3. CASE rebind_plan(srvPlacement, srvRecovery)
    <3>1. dead = {} /\ plan' = build_execution_plan(placement, recovery, {})
      BY <2>3 DEF rebind_plan
    <3>2. plan = build_execution_plan(placement, recovery, {})
      BY <3>1, NobodyDead DEF PlanInv, PlanFollowsDead
    <3> QED
      BY <3>1, <3>2
  <2> QED
    BY <2>1, <2>2, <2>3, DeadWriters DEF PlanInv
<1> QED
  BY <1>1, PlanCorrect, PTL DEF Spec, FailureMovesOnlyTheFailed

-----------------------------------------------------------------------------
(* The detector fires once per silence, so its report must not be lost. *)

\* Nothing takes a device out of the dead set: the gateway was there from the
\* start, no clear-all loop and no re-placement is under way.
NothingRevives ==
  /\ gatewayUp
  /\ clearing = {}
  /\ reconf = "idle"

\* A device the detector has flagged, and whose callback is over, is dead for
\* the gateway, in a deployment whose gateway is built at start and in which no
\* web control takes devices out of the dead set.
THEOREM SuspicionIsNotLost ==
  ASSUME ~AutoMode, WebOps \subseteq {"inject"}
  PROVE  Spec => []SuspicionReachesGateway
<1> DEFINE Inv == NothingRevives /\ SuspicionReachesGateway
<1> USE DEF gatewayVars, serverVars, detectorVars, webVars, NothingRevives,
            SuspicionReachesGateway
<1>1. Init => Inv
  BY DEF Init
<1>2. Inv /\ [Next]_vars => Inv'
  <2> SUFFICES ASSUME Inv, [Next]_vars PROVE Inv'
    OBVIOUS
  <2>1. CASE EnsureGateway \/ Dispatch \/ Tick
    BY <2>1 DEF EnsureGateway, Dispatch, Tick
  <2>2. ASSUME NEW d \in Device, mark_dead(d)
        PROVE  gatewayUp' = gatewayUp /\ dead' = dead \cup {d}
    BY <2>2 DEF mark_dead, Rebuild
  <2>3. ASSUME NEW d \in Device, ChainMarkDead(d) \/ Inject(d)
        PROVE  Inv'
    BY <2>2, <2>3 DEF ChainMarkDead, Inject
  <2>4. ASSUME NEW d \in Device, OnFailure(d)
        PROVE  Inv'
    BY <2>2, <2>4 DEF OnFailure
  <2>5. ASSUME NEW d \in Device, Worker(d)
        PROVE  Inv'
    BY <2>5 DEF Worker, Crash, SendHeartbeat, LoseHeartbeat, DeliverHeartbeat,
                HeartbeatAges
  <2>6. ASSUME NEW d \in Device, Revive(d) \/ ClearAllNext(d)
        PROVE  FALSE
    BY <2>6 DEF Revive, ClearAllNext
  <2>7. CASE \/ ClearAllStart
             \/ ReconfigureDeploy \/ ReconfigureBackups \/ ReconfigureRebind
             \/ \E p \in ShortPlacements : ReconfigureSolve(p)
    BY <2>7 DEF ClearAllStart, ReconfigureDeploy, ReconfigureBackups,
                ReconfigureRebind, ReconfigureSolve
  <2>8. CASE UNCHANGED vars
    BY <2>8 DEF vars
  <2> QED
    BY <2>1, <2>3, <2>4, <2>5, <2>6, <2>7, <2>8 DEF Next, Web
<1> QED
  BY <1>1, <1>2, PTL DEF Spec
=============================================================================
