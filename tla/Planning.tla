------------------------------ MODULE Planning ------------------------------
(***************************************************************************)
(* How the coordinator comes to a placement: wait for the workers, profile *)
(* them and their links, look the fleet up in the placement cache and      *)
(* otherwise search every subset and order of the devices with the         *)
(* alternating DP (CoordinatorServer._profile_and_solve in server.py, with *)
(* profile_orchestrator.py, scheduler.py and placement_cache.py).          *)
(*                                                                         *)
(* auto_schedule plans the full fleet when the coordinator starts;         *)
(* reconfigure_over_survivors plans what is left of it, without backups.   *)
(* The cache file outlives the coordinator.                                *)
(***************************************************************************)
EXTENDS Baselines

CONSTANTS Fleets,     \* fleets with what their workers measure (see Profiling)
          Drifted(_), \* what a later profiling of the same fleet may measure
          Flaky,      \* workers that may be restarted under profiling load
          Shaky,      \* pairs of devices whose measurement may fail
          MaxSolves,  \* bound: plans that are started
          MaxCrashes  \* bound: crashes of the coordinator

\* A fleet that can be planned for: some devices, each of them once; a host for
\* backups is always one of them (nothing in the coordinator sets backup_hosts);
\* and every device, layer and pair with at least one sample.
Fleet(f) ==
  LET D == ToSet(f.devices)
      Pairs == {pair \in D \X D : pair[1] # pair[2]}
      Samples == Seq(Nat) \ {<< >>}
  IN /\ f \in [devices : {f.devices}, hosts : {<< >>}, mem : Seq(Nat), time : {f.time},
                total : {f.total}, free : {f.free}, rate : {f.rate}, lat : {f.lat},
                activation : Nat, hop : Nat, slo : Nat, penalty : Nat, concurrency : Nat,
                pool : Nat, mode : {"throughput", "latency", "blended"}, alpha : Nat,
                eager : BOOLEAN, backups : BOOLEAN, subsets : BOOLEAN, search : Nat]
     /\ f.devices \in Seq(D) /\ f.devices # << >> /\ IsInjective(f.devices)
     /\ \A d \in D : f.total[d] \in Nat /\ f.free[d] \in Nat
     /\ \A d \in D : \A i \in DOMAIN f.mem : f.time[d][i] \in Samples
     /\ \A pair \in Pairs : f.lat[pair] \in Samples /\ f.rate[pair] \in Samples

\* POST /api/reconfigure: the survivors in the order of the fleet, and R = {}.  That
\* is the whole fleet when nobody is marked dead; with nobody left it raises.
Survivors(f) ==
  LET place(d) == CHOOSE i \in DOMAIN f.devices : f.devices[i] = d
      sequences == UNION {[1..k -> ToSet(f.devices)] : k \in DOMAIN f.devices}
      kept == {s \in sequences : \A i, j \in DOMAIN s : i < j => place(s[i]) < place(s[j])}
  IN {[f EXCEPT !.devices = s, !.backups = FALSE] : s \in kept}

\* What the coordinator may plan for: the fleet, or what is left of it.
Plannable(f) == {f} \cup Survivors(f)

ASSUME PlanningAssumption ==
  /\ MaxSolves \in Nat \ {0} /\ MaxCrashes \in Nat
  /\ \A f \in Fleets : Fleet(f)
  /\ \A f \in Fleets : \A g \in Plannable(f) :
       /\ Drifted(g) # {}
       /\ \A c \in Drifted(g) : Fleet(c) /\ c.devices = g.devices

VARIABLES
  pc,        \* where the planning thread is
  fleet,     \* the full fleet of the configuration
  solves,    \* plans started, over all runs of the coordinator
  crashes,
  heard,     \* workers that have heartbeated
  attempt,   \* ProfileLayers calls made to each worker
  profiled,  \* workers whose layer profile has arrived
  spec,      \* the fleet that is profiled, then the ClusterSpec built from it
  orders,    \* candidates of the search that are left
  alt,       \* the alternation over the current candidate
  best,      \* the best candidate so far
  answer,    \* what was stored on the server: a result, and where it came from
  cache,     \* the cache file
  tmp        \* its temporary file

vars == <<pc, fleet, solves, crashes, heard, attempt, profiled, spec, orders,
          alt, best, answer, cache, tmp>>

searchVars == <<orders, alt, best>>
profileVars == <<heard, attempt, profiled>>
fileVars == <<cache, tmp>>

NoFile == [fp |-> << >>, result |-> NotFound]
NoAnswer == [from |-> "none", result |-> NotFound]
NoSearch == [psi |-> << >>, r |-> NoTable, best |-> NotFound, iter |-> 0,
             ref |-> << >>, cell |-> Empty, over |-> FALSE, answer |-> NotFound]

Planned == ToSet(spec.devices)

Init ==
  /\ pc = "waiting"
  /\ fleet \in Fleets
  /\ spec = fleet
  /\ solves = 1 /\ crashes = 0
  /\ heard = {} /\ profiled = {}
  /\ attempt = [d \in ToSet(fleet.devices) |-> 0]
  /\ orders = << >> /\ alt = NoSearch /\ best = NotFound
  /\ answer = NoAnswer
  /\ cache = NoFile /\ tmp = NoFile

-----------------------------------------------------------------------------
(* Profiling. *)

_PROFILE_RPC_ATTEMPTS == 4

Heartbeat(d) ==
  /\ pc = "waiting"
  /\ heard' = heard \cup {d}
  /\ UNCHANGED <<pc, fleet, solves, crashes, attempt, profiled, spec,
                 searchVars, answer, fileVars>>

\* wait_for_workers returns when every worker has been heard of.
AllHeard ==
  /\ pc = "waiting"
  /\ Planned \subseteq heard
  /\ pc' = "layers"
  /\ UNCHANGED <<fleet, solves, crashes, profileVars, spec, searchVars, answer, fileVars>>

\* The deadline, and every other exception, ends the plan; what the server
\* stored before stays.
Abort ==
  /\ pc' = "failed"
  /\ UNCHANGED <<fleet, solves, crashes, profileVars, spec, searchVars, answer, fileVars>>

WaitTimesOut ==
  /\ pc = "waiting"
  /\ ~(Planned \subseteq heard)
  /\ Abort

\* Variant: the number of attempts is not limited.
ProfileLayers_unlimited(d) ==
  /\ pc = "layers"
  /\ d \notin profiled
  /\ attempt' = [attempt EXCEPT ![d] = @ + 1]
  /\ \/ profiled' = profiled \cup {d}
     \/ d \in Flaky /\ UNCHANGED profiled
  /\ UNCHANGED <<pc, fleet, solves, crashes, heard, spec, searchVars, answer, fileVars>>

\* One ProfileLayers call; a worker that is restarted under it is called again.
ProfileLayers(d) ==
  /\ pc = "layers"
  /\ d \notin profiled
  /\ attempt[d] < _PROFILE_RPC_ATTEMPTS
  /\ attempt' = [attempt EXCEPT ![d] = @ + 1]
  /\ \/ profiled' = profiled \cup {d}
     \/ d \in Flaky /\ UNCHANGED profiled
  /\ UNCHANGED <<pc, fleet, solves, crashes, heard, spec, searchVars, answer, fileVars>>

\* Its last call has failed, or it answers that profiling raised.
ProfileFails(d) ==
  /\ pc = "layers"
  /\ d \notin profiled
  /\ attempt[d] = _PROFILE_RPC_ATTEMPTS \/ d \in Flaky
  /\ Abort

\* Variant: the model and the knobs without the devices.
compute_fingerprint_knobs(c) ==
  [layers |-> Layers(c), mode |-> c.mode, alpha |-> c.alpha, slo |-> c.slo]

\* The fingerprint: the devices in sorted order (their classes never change
\* here), the layers and the knobs, none of the measurements.  A
\* re-placement switches backups off in the specification, not in the knobs.
compute_fingerprint(c) ==
  [devices |-> ToSet(c.devices), layers |-> Layers(c), mode |-> c.mode,
   alpha |-> c.alpha, eager |-> c.eager, slo |-> c.slo, hop |-> c.hop,
   activation |-> c.activation, concurrency |-> c.concurrency, pool |-> c.pool,
   backups |-> fleet.backups, subsets |-> c.subsets, search |-> c.search]

\* The full mesh is measured and the specification built; the cache is read.
CollectNetwork ==
  /\ pc = "layers"
  /\ profiled = Planned
  /\ \E failed \in SUBSET (Shaky \cap (Planned \X Planned)) :
       LET c == ClusterSpec(spec, failed)
           hit == cache.result.ok /\ cache.fp = compute_fingerprint(c)
       IN /\ spec' = c
          /\ IF hit
             THEN /\ answer' = [from |-> "cache", result |-> cache.result]
                  /\ pc' = "done"
                  /\ UNCHANGED searchVars
             ELSE /\ orders' = Orders(c)
                  /\ alt' = NoSearch /\ best' = NotFound
                  /\ pc' = "next"
                  /\ UNCHANGED answer
  /\ UNCHANGED <<fleet, solves, crashes, profileVars, fileVars>>

-----------------------------------------------------------------------------
(* solve_alternating_best_order *)

Candidate == with_devices(spec, orders[1])

\* A candidate with fewer layers than devices is infeasible at once.
NextCandidate ==
  /\ pc = "next"
  /\ orders # << >>
  /\ IF Layers(spec) < Len(orders[1])
     THEN orders' = Tail(orders) /\ UNCHANGED <<pc, alt>>
     ELSE alt' = Start(Candidate) /\ pc' = "alternate" /\ UNCHANGED orders
  /\ UNCHANGED <<fleet, solves, crashes, profileVars, spec, best, answer, fileVars>>

Alternate ==
  /\ pc = "alternate"
  /\ ~alt.over
  /\ alt' = Iterate(Candidate, alt)
  /\ UNCHANGED <<pc, fleet, solves, crashes, profileVars, spec, orders, best,
                 answer, fileVars>>

Compare ==
  /\ pc = "alternate"
  /\ alt.over
  /\ best' = IF alt.answer.ok /\ Better(spec, alt.answer, best)
             THEN alt.answer ELSE best
  /\ orders' = Tail(orders)
  /\ alt' = NoSearch
  /\ pc' = "next"
  /\ UNCHANGED <<fleet, solves, crashes, profileVars, spec, answer, fileVars>>

SearchFails ==
  /\ pc = "next"
  /\ orders = << >>
  /\ ~best.ok
  /\ Abort

\* placement_cache.save: the temporary file is written, then renamed.
WriteTmp ==
  /\ pc = "next"
  /\ orders = << >>
  /\ best.ok
  /\ tmp' = [fp |-> compute_fingerprint(spec), result |-> best]
  /\ pc' = "rename"
  /\ UNCHANGED <<fleet, solves, crashes, profileVars, spec, searchVars, answer, cache>>

Rename ==
  /\ pc = "rename"
  /\ cache' = tmp
  /\ tmp' = NoFile
  /\ answer' = [from |-> "search", result |-> best]
  /\ pc' = "done"
  /\ UNCHANGED <<fleet, solves, crashes, profileVars, spec, searchVars>>

-----------------------------------------------------------------------------
(* What starts a plan, and what ends one. *)

Fresh(c) ==
  /\ solves < MaxSolves
  /\ solves' = solves + 1
  /\ pc' = "waiting"
  /\ spec' = c
  /\ profiled' = {} /\ attempt' = [d \in ToSet(c.devices) |-> 0]
  /\ orders' = << >> /\ alt' = NoSearch /\ best' = NotFound
  /\ UNCHANGED fleet

\* The coordinator process dies; systemd starts it again with an empty memory.
Crash ==
  /\ crashes < MaxCrashes
  /\ crashes' = crashes + 1
  /\ \E c \in Drifted(fleet) : Fresh(c)
  /\ heard' = {}
  /\ answer' = NoAnswer
  /\ UNCHANGED fileVars

Reconfigure ==
  /\ pc \in {"done", "failed"}
  /\ \E f \in Survivors(fleet) : \E c \in Drifted(f) : Fresh(c)
  /\ UNCHANGED <<crashes, heard, answer, fileVars>>

\* Nothing more is asked of the coordinator.
Idle ==
  /\ pc \in {"done", "failed"}
  /\ UNCHANGED vars

Next ==
  \/ \E d \in Planned : Heartbeat(d) \/ ProfileLayers(d) \/ ProfileFails(d)
  \/ AllHeard \/ WaitTimesOut \/ CollectNetwork
  \/ NextCandidate \/ Alternate \/ Compare \/ SearchFails \/ WriteTmp \/ Rename
  \/ Crash \/ Reconfigure \/ Idle

Spec == Init /\ [][Next]_vars

-----------------------------------------------------------------------------
(* Properties. *)

\* The variables have their types, and the plan's own phases leave the rest of
\* the search empty.
TypeOK ==
  /\ pc \in {"waiting", "layers", "next", "alternate", "rename", "done", "failed"}
  /\ fleet \in Fleets
  /\ solves \in 1..MaxSolves /\ crashes \in 0..MaxCrashes
  /\ profiled \subseteq Planned /\ heard \subseteq ToSet(fleet.devices)
  /\ attempt \in [Planned -> 0.._PROFILE_RPC_ATTEMPTS]
  /\ pc = "alternate" => orders # << >> /\ alt.iter \in 1..(max_iterations + 1)
  /\ answer.from \in {"none", "cache", "search"}
  /\ cache.result.ok \in BOOLEAN /\ tmp.result.ok \in BOOLEAN

\* Every way to cut the layers into one range for each device of the order.
Cuts(c) ==
  {e \in [1..M(c) -> 1..Layers(c)] :
     e[M(c)] = Layers(c) /\ \A n \in 2..M(c) : e[n - 1] < e[n]}

CutCost(c, p, n) ==
  StageTime(c, p[n].device, p[n].start, p[n].end)
    + IF n = 1 THEN 0 ELSE CommTime(c, p[n - 1].device, p[n].device)

Allowed(c, R, ref, p) ==
  \A n \in DOMAIN p :
    /\ memory_check(c, p[n].device, p[n].start, p[n].end, R, ref)
    /\ n > 1 => Measured(c, p[n - 1].device, p[n].device)
    /\ WithinCap(c, CutCost(c, p, n))

CutRank(c, p) ==
  IF c.mode = "throughput" THEN Max({CutCost(c, p, n) : n \in DOMAIN p})
  ELSE SumFunction([n \in DOMAIN p |-> CutCost(c, p, n)])

\* solve: "Returns the optimal placement".  In the throughput and the latency
\* mode the DP finds a placement whenever one fits, and no other cut of the
\* layers over the same order, table and reference placement is cheaper.
DPIsOptimal ==
  pc = "alternate" /\ alt.ref # << >> /\ spec.mode # "blended" =>
    LET c == Candidate
        allowed == {e \in Cuts(c) : Allowed(c, alt.r.R, alt.ref, Placed(c.devices, e))}
    IN IF alt.cell = Empty THEN allowed = {}
       ELSE /\ alt.cell.ends \in allowed
            /\ _rank(c, alt.cell) = CutRank(c, Placed(c.devices, alt.cell.ends))
            /\ \A e \in allowed : _rank(c, alt.cell) <= CutRank(c, Placed(c.devices, e))

\* determine_recovery_table gives every stage a backup on another device, and
\* the backups that several devices have on one host fit it together, next to
\* its own stage.
BackupsFitTogether ==
  pc = "alternate" /\ alt.r.ok /\ spec.backups =>
    LET c == Candidate
        R == alt.r.R
    IN /\ DOMAIN R = {alt.ref[i].device : i \in DOMAIN alt.ref}
       /\ \A d \in DOMAIN R : R[d] # d
       /\ c.eager => \A k \in Range(R) :
            UsedBy(c, alt.ref, k) + backup_memory_for(c, k, R, alt.ref) <= Budget(c, k)

Searched == pc = "done" /\ answer.from = "search"

\* What a search answers fits: no device is given more than its budget, its own
\* stage and every backup it must keep loaded together; and it neither forwards
\* nor fetches a backup over a pair whose measurement has failed
\* (collect_network_profile leaves it out).
AnswerFits ==
  Searched =>
    LET p == answer.result.placement
        R == answer.result.recovery
        fit == _feasibility(spec, p, R, [d \in Planned |-> Budget(spec, d)])
    IN /\ fit.primary_ok
       /\ spec.eager => fit.with_backup_ok
       /\ \A n \in 2..Len(p) : Measured(spec, p[n - 1].device, p[n].device)
       /\ \A d \in DOMAIN R : Measured(spec, R[d], d)

\* solve_alternating: a converged answer is a fixed point, its table is the one
\* its own placement asks for.
ConvergedIsItsOwnTable ==
  Searched /\ answer.result.converged =>
    LET p == answer.result.placement
        c == with_devices(spec, [n \in DOMAIN p |-> p[n].device])
    IN answer.result.recovery = TableFor(c, p).R

\* What a placement costs by the objective, with the penalty on its stages.
Price(c, p) ==
  CutRank([c EXCEPT !.devices = [n \in DOMAIN p |-> p[n].device]], p)
    + c.penalty * c.pool * Len(p)

\* The search misses no order and no subset: what it answers costs no less than
\* the best placement without backups, and without backups it is the best.  It is
\* ranked by what it costs, unless it is an alternation's fallback in latency
\* mode: that one has lost its sum (_replace_history) and is ranked by
\* its number of stages alone, whatever it costs.
BestPipeline ==
  Searched /\ spec.mode # "blended" =>
    LET price == Price(spec, answer.result.placement)
        least == cost_only_rank(spec)
    IN /\ price >= least
       /\ ~spec.backups => price = least
       /\ \/ SearchRank(spec, answer.result) = price
          \/ spec.mode = "latency" /\ spec.backups /\ ~answer.result.converged

\* The comparison of the experiments (a3_baselines.py): where both price a
\* placement alike, none of the baselines of the same fleet that fits, crosses
\* measured links only and keeps to the SLO is faster than the search.
BaselinesAreNotFaster ==
  /\ Searched /\ ~spec.backups /\ spec.mode = "throughput"
  /\ spec = [cluster_spec_from_sidecar(_write_scheduler_stats_sidecar(spec), spec)
               EXCEPT !.backups = FALSE]
  => \A p \in compute_all_baselines(spec) :
       LET bottleneck == max_stage_time(spec, p)
       IN /\ \A n \in 2..Len(p) : Measured(spec, p[n - 1].device, p[n].device)
          /\ _feasibility(spec, p, << >>, [d \in Planned |-> Budget(spec, d)]).primary_ok
          /\ bottleneck <= spec.slo
          => answer.result.max <= bottleneck * spec.pool

\* The verdict of d29_coupling_threshold.py that is "unexpected": the joint search
\* fails although the two-step procedure, with or without a margin, works.
JointLosesNothing ==
  pc = "next" /\ orders = << >> /\ ~best.ok /\ spec.backups /\ spec.subsets /\ M(spec) <= spec.search =>
    /\ ~decoupled(spec).ok
    /\ ~decoupled_margin(spec, 1, 4).ok
    /\ ~decoupled_margin(spec, 1, 2).ok

\* Whatever a plan ends with, searched or out of the cache, places every layer
\* once and in order, on devices of the fleet that was planned for, and backs up
\* all of its stages or none.  A search backs them up as it was asked to; the cache
\* may answer with the plan of a solve that was asked otherwise (the fingerprint
\* does not know of the override of a re-placement).
AnswerIsWhole ==
  pc = "done" =>
    LET p == answer.result.placement
        R == answer.result.recovery
    IN /\ p[1].start = 1 /\ p[Len(p)].end = Layers(spec)
       /\ \A n \in DOMAIN p : p[n].start <= p[n].end
       /\ \A n \in 2..Len(p) : p[n].start = p[n - 1].end + 1
       /\ \A m, n \in DOMAIN p : m # n => p[m].device # p[n].device
       /\ {p[n].device : n \in DOMAIN p} \cup Range(R) \subseteq Planned
       /\ DOMAIN R \in {{}, {p[n].device : n \in DOMAIN p}}
       /\ answer.from = "search" => (DOMAIN R # {} <=> spec.backups)
=============================================================================
