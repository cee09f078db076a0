# TLA+ models of RADP

RADP generates text with one language model spread over several workers. A
coordinator holds the *placement* (which worker runs which layer range) and the
*recovery table* R (which worker stands in for which); the workers form a chain
of nested RPCs. When a worker dies the coordinator substitutes its backup,
re-wires the chain and rebuilds the KV caches, and the client is meant not to
notice. These modules model that machinery, from the search for a placement to
the recovery of a request: TLC checks it on small instances, and TLAPS proves
parts of it for every instance.

All source paths are relative to the repository root.

## Running

    tlc -workers 2 -config GatewayPlan_control.cfg MCGatewayPlan.tla
    tlc -workers 2 -config ChainRecovery_single.cfg MCChainRecovery.tla
    tlc -workers 2 -config AsyncChain_timeout.cfg MCAsyncChain.tla
    tlc -workers 2 -config KVRecovery_parity.cfg MCKVRecovery.tla
    tlc -workers 2 -config Redeploy_survivors.cfg MCRedeploy.tla
    tlc -workers 2 -config Planning_search.cfg MCPlanning.tla
    tlc -workers 2 -config ActivationCache_budget.cfg MCActivationCache.tla
    tlapm CommonLemmas.tla
    tlapm GatewayPlanProofs.tla
    tlapm RedeployProofs.tla
    tlapm ActivationCacheProofs.tla
    tlapm AsyncChainProofs.tla
    tlapm ChainRecoveryProofs.tla
    tlapm PlanningProofs.tla
    tlapm KVRecoveryProofs.tla

Every run is listed in `PROJECT.json` with its properties. The cfg of a run is
named after it; the part before the underscore names the module. Every run ends
within five minutes with two workers.

## The system

| Component | State it keeps | Operations | Hard behaviour |
|---|---|---|---|
| Execution plan (`recovery_plan.py`) | none | `build_execution_plan`, `inverse_recovery` | infeasible dead sets |
| RequestGateway, plan (`gateway.py`) | `placement`, `recovery`, `_dead`, `_execution_plan` under `_plan_lock` | `mark_dead`, `mark_alive`, `rebind_plan`, `current_plan` | four kinds of thread write the dead set; a rebuild that raises halfway |
| FailureDetector (`failure_detector.py`) | `_records`, `_fired` under a lock | `record`, `tick`, callbacks outside the lock | check-then-act, one report per silence |
| CoordinatorServer (`server.py`) | `placement`, `recovery`, `gateway` | `serve`, `deploy`, `on_failure`, `reconfigure_over_survivors` | the gateway appears late; a re-placement races failures |
| Web controls (`web_api.py`) | none | inject, revive, clear-all, reconfigure | threads of their own, no lock over a loop |
| RequestGateway, generation (`gateway.py`) | per-request position and tokens | `generate`, `generate_streaming`, `_run_pipeline`, `_attribute_chain_failure`, `_rewire_chain`, `_recover_*`, `_evict_*` | recovery of a half-executed step; several requests at once |
| Worker servicer (`worker/server.py`) | `_next_hops`, `_req_locks` | `RunStage`, `SetNextHop`, `PromoteBackup`, `EvictRequest`, `FetchKV`, `LoadKV` | handlers outlive their callers; a re-wiring under a running call |
| StageRunner (`worker/stage_runner.py`) | `_stages`, `_kv_cache`, `_backup_for`, `_promoted` | load, run, evict, export and install KV | a redeploy unloads what a request still uses |
| ActivationCache (`activation_cache.py`) | inputs per request, stage, position; bytes used | `put`, `append`, `get_history`, `evict_request` | out-of-order arrival, eviction of a live request |
| Parity and replica caches, GF(256) | KV columns folded per position | `xor_in`, `store`, reconstruction | completeness, duplicates, two losses |
| Async chain (`gateway.py`, `worker/server.py`) | pending futures, per-request locks | `ResultReady`, fire-and-forget forwards | stale answers, timeouts |
| Scheduler, recovery table (`scheduler.py`, `recovery_table.py`, `memory_check.py`) | none | DP over devices and cuts, backup choice, alternation, subset search | optimality under a recovery table that depends on the answer |
| Profiling, placement cache (`profile_orchestrator.py`, `placement_cache.py`) | a file | profile calls and their retries, load and save | stale cache, crash while saving, unmeasured pairs |
| Baselines and fault campaigns (`experiments/`) | none | the placements and procedures the system is compared with, the double-parity trial | whether the comparison means what it says |

They interact like this. A client's request runs in a thread of its own: each
step copies the plan, calls the worker of its first stage, and the workers
forward along *their* next-hop tables, which only `deploy()` and
`_rewire_chain` write. A failed call carries a trailer naming the stage that
failed; the request's thread turns it into a dead device, marks it, promotes
the backup, re-wires and replays. Independently, heartbeats feed the detector,
whose thread marks devices dead and re-wires nothing; and the web threads edit
the dead set or replace the placement.

What makes each component right:

- plan: it is the plan of the dead set whenever there is one; it moves only the
  stages of the failed devices; it never names a missing backup;
- detector: every crash of a registered worker reaches the gateway; no report is
  lost; a report is about a device that is silent when it is reported;
- generation: no wrong token, no token twice, a single failure is always
  survived, the blame falls on the crashed worker, every request ends, and
  nothing of it stays on the workers;
- KV recovery: what is loaded into a backup is what the dead worker held, every
  column is folded into the parity once, and an incomplete parity is never used;
- deploy: a worker holds one plan at a time; after a deploy each worker is ready
  for its part; no call ends in the middle of the model as if it were complete;
- planning: the search is optimal where it says so, its answer fits the memory
  of the fleet with the backups, and a cached answer is one for this fleet.

## Modules

| Module | Models | Corresponds to |
|---|---|---|
| `RecoveryPlan` | placements, recovery tables, `build_execution_plan`, the condition of `NoRecoveryError` | `recovery_plan.py` |
| `GatewayPlan` | the dead set, the plan, the detector, the web controls, re-placement | `gateway.py:217-284`, `failure_detector.py`, `heartbeat_sender.py`, `server.py:393-780`, `web_api.py:217-306` |
| `GatewayPlanProofs` | the proofs about it | |
| `Generation` | the abstract generator: tokens in order, restarts, giving up | what `generate` promises |
| `ChainRecovery` | the chain, attribution, re-wiring, both recoveries, eviction, orphaned handlers | `gateway.py:401-944, 1642-1898`, `worker/server.py:345-386, 429-688` |
| `ChainRecoveryProofs` | the proofs about it: types, blame, one crash; then routes, tokens, the refinement | |
| `ActivationCache` | the replay histories under a byte budget, with the threads and pushes that drive them | `activation_cache.py`, `gateway.py:289-309, 522-554, 892-944, 1642-1668` |
| `ActivationCacheProofs` | the proofs about it | |
| `AsyncChain` | the asynchronous chain: future, timeout, locks, forwarding pools, recovery | `gateway.py`, `worker/server.py` |
| `AsyncChainProofs` | the proofs about it: types and locks; then tokens | |
| `GF256` | the field of the double parity | `gf256.py` |
| `KVCaches` | the parity and the replica cache | `parity_cache.py`, `replica_cache.py` |
| `KVRecovery` | the pushes of KV columns and the three recoveries over the caches | `gateway.py:945-1640`, `worker/server.py`, `stage_runner.py` |
| `KVRecoveryProofs` | the proofs about it | |
| `Redeploy` | deploys call by call, loading and unloading, wiring, restarts, a request that recovers meanwhile | `server.py`, `stage_runner.py`, `worker/server.py`, `gateway.py` |
| `RedeployProofs` | the proofs about it | |
| `Scheduler` | memory check, recovery table, DP, alternation, subset search, as operators | `memory_check.py`, `recovery_table.py`, `scheduler.py` |
| `Profiling` | what a profile makes of its timed runs and round trips | `layer_profiler.py`, `peer_measurer.py`, `profile_orchestrator.py` |
| `Baselines` | baseline placements, the decoupled procedure, the statistics file they are computed from | `experiments/`, `server.py` |
| `Planning` | profile, look up, search, save, with crashes of the coordinator | `server.py`, `profile_orchestrator.py`, `scheduler.py`, `placement_cache.py` |
| `PlanningProofs` | the proofs about `Planning` and the operators of `Scheduler` it searches with | |
| `CommonLemmas` | what the library has no theorem for: sums over sets, ranks, least and greatest elements, induction as a fact about sets, a sequence without one of its elements; and the lemmas about plans | |
| `MCGatewayPlan`, `MCChainRecovery`, `MCActivationCache`, `MCAsyncChain`, `MCKVRecovery`, `MCRedeploy`, `MCPlanning` | placements, tables, fleets and sizes for TLC | |

`RecoveryPlan` is under all modules with a chain; `KVRecovery` uses `KVCaches`,
which uses `GF256`; `Planning` extends `Baselines`, which extends `Profiling`
and `Scheduler`. `PROJECT.json` has the lines of every definition.

### GatewayPlan

`dead` and `plan` are `_dead` and `_execution_plan`; `mark_dead`, `mark_alive`
and `rebind_plan` are one step each because the code holds `_plan_lock`
throughout. An exception is a step that leaves the plan alone, which is what
`mark_dead` does: it adds the device *before* the rebuild raises. `dispatched`
is the copy of the plan that a step went out with.

The age of a heartbeat is abstracted to none, fresh or stale. A delivered
heartbeat may be stale at once, because the time stamp is the worker's. `Tick`
is the sweep under the lock; each callback is a step of its own (`OnFailure`),
and the next sweep waits for all of them. `ChainMarkDead` stands for the blame
of any failed call, whatever made it fail. A re-placement is a solve, then one
step for each worker call of `deploy()`, then the rebind; a call to a crashed
worker ends it. The solve may return any placement over the survivors, with
`R = {}`, or the cached table of an earlier solve over the same devices.

### ChainRecovery

A call in progress is a stack of frames, one handler each. `RunStage` runs the
layers, `Forward` calls the next hop *read on entry*, `Return` unwinds the whole
stack, `CallFails` unwinds it with the trailer's blame. What is computed is
abstracted to whether it is what an undisturbed run would have computed: an
activation is good or not, and a KV cache is the number of positions it holds in
order, or `Bad`. A stage that runs position p over a cache that does not hold
exactly p positions goes wrong, silently, as attention does.

When a call fails below a handler that is still running, that handler becomes an
*orphan*: it may still run, mirror, forward. gRPC is modelled from how the code
relies on it: a call to a dead process fails; `close()` on a channel fails the
calls on it, and later calls on it raise; a handler whose caller is gone and
that has not started may be dropped, and is dropped at the latest when the
request is evicted on its worker.

A request's thread is `job[r]`, with a program counter: step, wait, promote,
rewire, evict, replay, rebuild, done, failed. `Rewire` and `Evict` are one
worker call each, so that other threads come in between. `NoRecoveryError` and
a missing table entry end the request; an `RpcError` re-prefills in `generate`
(at most once per stage) and ends `generate_streaming`. `MarkedFromOutside` is
the heartbeat path and the dashboard's injection: it marks and re-wires nothing.

`GeneratesLikeReference` maps the chain to `Generation` (`emitted` is the number
of right tokens, and no number at all once one was wrong).

### ActivationCache

`slots` and `by_request` are the contents and the order of the `OrderedDict`,
`bytes_used` its counter; each operation is one step, as its lock makes it. What
is stored is abstracted to the attempt of `_generate_inner` that computed it,
because a request that is prefilled again may sample other tokens. The request
threads put the head's inputs in order, read histories when they recover, evict
when they start over or end; pushes of the other stages arrive in any order, are
lost, are repeated by a replay, and may arrive when their request has ended.

`ChainRecovery` has a cache of its own without a budget: there the question is
what a recovery does with a history, here what the history can be.

### AsyncChain

In the asynchronous mode `RunStage` answers before it forwards, so a step is
under way in up to four places: a handler, a forwarding pool, a `ResultReady`
call, the pending future. `handlers`, `forwards` and `results` are sets, because
nothing orders them. Calls are numbered (`call`), and a message keeps the number
of the call it belongs to, which the code does not: the future of the gateway is
matched by request and position only, as in `ResultReady`, and the numbers are
there for the model to tell a stale step from the current one.

`lock` is the lock a worker finds for the request and `Held` says whether a
handler has it: `EvictRequest` takes the entry away, so that the next handler
makes a new lock while an old handler may still hold the previous one. That
handler is left with a cache object nobody else finds (`attached`).

`TimeOut` fires when nothing of the step is left, or, at most `MaxHasty` times,
while the step is still under way (the timeout is a number of seconds and knows
nothing of the workers). The thread then blames the head, because there is no
trailer, and recovers by full replay. The request is streaming: it has no second
attempt.

### KVRecovery, KVCaches, GF256

Columns are real bytes, one per layer, so that folding, reconstruction and the
solution of the two equations of the double parity are computed, not assumed;
stages have different widths, so that a blob grows. A stage's coefficient is the
power of the generator its rank gives.

Each worker has one single-threaded push executor (`pushes`); a push may be late
or fail. A second request pushes columns of its own, which makes the byte budget
evict. A recovery is one step per slot read: the gate walks the slots, then the
rebuild reads them again, and evictions and pushes come in between. The attempt
is over when a recovery defers to `_recover_surgical` (which is in
`ChainRecovery`) or raises.

`pick_two_interior_victims` and `run_raid6_trial` are the fault campaign of the
experiments, the only driver of the double parity: it marks two workers dead by
hand before the request, while the chain still runs on both.

### Redeploy

`deploy` is the thread in `deploy()`, with one step for each call to a worker:
load the primaries (which drop what a worker had) and the head, wire the hops,
load the backups. A call to a crashed worker ends the deploy where it is. Deploys come
from the start of the coordinator, from a restart of it and from
`reconfigure_over_survivors`, whose solution is any over the survivors. A worker
that restarts holds nothing. `req` is a request thread: it walks the chain hop by
hop, and when a call fails it marks, promotes and re-wires along the plan it had
copied (`rplan`), which may be of an earlier deploy (`of`, `epoch`).

`lost` and `raced` are history: which workers have crashed since the last deploy
began, and whether a recovery has wired another plan over that of the deploy.

### Planning, Scheduler, Profiling, Baselines

`Scheduler` has the pure part as operators on a record that is the
`ClusterSpec`: costs of a stage, the rows of the DP (`FirstRow`, `NextRow`) and
the turns of the recovery table with their reservations (`Assign`) as functions
of the device they have come to, and the alternation between the two. Times are naturals, multiplied by the pool size so that the saturation
multiplier needs no fractions; `inf` is absent rather than a number. `Planning`
drives these operators as the coordinator does: wait for the workers, call each
of them (`_PROFILE_RPC_ATTEMPTS` times at most), measure the links, look the
fleet up, otherwise step the alternation over every subset and order, write the
temporary file, rename it. The coordinator may crash at any of these points and
starts again with the files it left. What a worker measures is a sequence of samples;
`Profiling` takes their median, by rank, and the mean of the round trips.

`PlanningAssumption` says what a fleet is (`Fleet`): at least one device, each of
them once, with at least one sample of every layer and link, and no `backup_hosts`
besides them, which nothing in the coordinator sets. A re-placement plans, without
backups, for the devices of the fleet that are not marked dead, in their order
(`Survivors`): all of them when none is marked, and never none, which raises.

An alternation that does not converge falls back on its best placement so far.
`_replace_history` copies that one for the log, field by field, and
`sum_stage_time` is not among the fields: the copy has the default 0.0. `FallBack`
does the same, and `SearchRank` ranks the copy by it, as the code does.

`Baselines` has the placements the experiments compare the scheduler with and
the decoupled procedure (place first, back up afterwards, with or without a
memory margin), which read a statistics file next to the cache.

## Properties and runs

Runs that pass:

| Run | Shows | Instance |
|---|---|---|
| `GatewayPlan_control` | `PlanFollowsDead`, `PlanIsSomeViablePlan`, `FailureMovesOnlyTheFailed`, `TypeOK` under every order of chain marks, detector marks, injections, revives, clear-all loops and a re-placement with its deploy | two workers that back each other up, so that their failures are infeasible together only; the gateway appears late; one crash, one re-placement |
| `GatewayPlan_detector` | `SuspicionReachesGateway`, `CrashIsRouted` | backups d1→d2→d3, the two workers of the pipeline watched; both may crash, false suspicions and late heartbeats |
| `ChainRecovery_single` | `SingleFaultSurvived`, `OnlyCrashedAreDead`, `ChainFollowsPlan`, `EndedRequestsHoldNoKV`, `RequestsEnd`, `TypeOK` | 4 stages (the shortest chain in which a trailer is relayed), ring of backups, any one crash, the head's included, 3 tokens, streaming |
| `ChainRecovery_refines` | `GeneratesLikeReference` | 4 stages, two crashes behind the head, reported by the chain or by heartbeats, re-prefills |
| `ChainRecovery_surgical` | `NoWrongToken` | 3 stages, surgical mode, the tail crashes, heartbeats, failures injected behind the head, late and lost mirrors |
| `ChainRecovery_twoend` | `RequestsEnd` | 2 stages, two requests, any one crash |
| `ActivationCache_budget` | `AccountsForItsBytes`, `ReplaysTheWholeAttempt`, `LastUsedGoesLast`, `TypeOK` | 2 requests, one of which is prefilled again once; 2 stages, 2 positions; a prompt is 2 bytes long, a token 1, the budget 5, so that one request alone (6) exceeds it |
| `AsyncChain_timeout` | `OneWriterPerCache`, `NoWrongToken`, `RequestEnds`, `TypeOK` | 3 stages, 3 tokens, one crash behind the head, one lost result, one timeout that fires too early |
| `KVRecovery_parity` | `FoldedOnce`, `LoadsWhatWasLost`, `NoWrongToken`, `TypeOK` | 4 stages of 1, 1, 2 and 1 layers, 3 tokens; single parity and replicas with one failure, double parity with two, also from the state of the campaign; a lost push, a push of another request, a budget of 6 bytes |
| `Redeploy_survivors` | `OnePlanAtATime`, `DeployedIsReady`, `NoSilentTruncation`, `TypeOK` | 3 workers in a ring of backups, two solutions over the survivors, one of which reuses a range of the first; two crashes with restarts, two deploys |
| `Planning_search` | `DPIsOptimal`, `BackupsFitTogether`, `AnswerFits`, `ConvergedIsItsOwnTable`, `BestPipeline`, `BaselinesAreNotFaster`, `JointLosesNothing`, `AnswerIsWhole`, `TypeOK` | 3 devices, 5 layers, one larger; 9 settings of the knobs times 4 memories from ample to scarce, and one fleet with hardly any room; one unstable worker, one link that may fail, two plans, one coordinator crash |

One run finds a disagreement of the code with what a document says of it:

| Run | What happens |
|---|---|
| `ChainRecovery_headfirst` | the heartbeat replaces the head before the chain is re-wired: a wrong token |

### Where the code differs from its comments

These are part of the models and bound what the passing runs may say. They have
no run of their own.

Plan and detector:
- a crash flagged during a re-placement is forgotten by the rebind and never
  reported again, although the comment of `rebind_plan` says the detector
  re-adds it; the next request finds it (`Rebind`, `Tick`);
- the detector reports a device whose heartbeat arrives between the sweep and the
  callback (`Tick`, `OnFailure`);
- after an infeasible injection the next step goes along the old plan, to the dead
  device, where the docstring announces a `NoRecoveryError` (`Inject`,
  `Dispatch`); clear-all ends halfway when two failures are infeasible together,
  because the first revival raises (`ClearAllNext`);
- an injected failure behind the head changes the plan only, so that the chain
  keeps running on the device, where the docstring announces the backup
  (`MarkedFromOutside`).

Synchronous chain:
- surgical recovery of a worker in the middle that had already forwarded makes
  its successor run the position twice: a wrong token. `surgical` crashes the
  tail only;
- a second request that steps while one request re-wires front to back can end
  at the unwired backup: a wrong token; and `SetNextHop` closes the channel the
  second request forwards on, whereupon a healthy worker is marked dead. The
  runs with one request say nothing about these, `twoend` claims only that both
  requests end;
- `refines` keeps the head alive because of `headfirst` (`single` has the head's
  crash, reported by the chain). `HeadStays` is the same condition in the
  proofs: heartbeats are off, or the head does not crash.

Asynchronous chain:
- a timeout has no trailer, so the head is blamed and marked dead although it is
  healthy; the comment at `gateway.py:1739-1747` expects an already dead worker
  to be found. The request still ends with the right tokens;
- a timeout that fires while its step is under way can give a wrong token, which
  is why `NoWrongToken` speaks of runs without one;
- the comment at `worker/server.py:455-457` says the per-request lock serialises
  the calls of a request that overlap on a worker. One timeout that fires too
  early is enough to undo it: the recovery's `EvictRequest` drops the lock under
  a handler that waits for it or runs, and the replay makes a new one, so two
  handlers write one KV cache. `OneWriterPerCache` says that this is the only
  way: there was such a timeout, and one of the two holds a lock that is no
  longer the worker's;
- a timeout during the replay escapes `generate` (`Answered`, `TimeOut`).

KV recovery:
- a tail that crashes after its push was delivered has handed its position on;
  the slot count of the survivors says it had not, and the token is wrong
  although the docstring at `gateway.py:1130-1136` promises a safe fallback
  (`late`; `NoWrongToken` excludes it, `LoadsWhatWasLost` does not);
- with five stages and double parity, two victims may have a survivor between
  them and another behind them (stages 2 and 4 of 5, stage 4 dies in the call and
  stage 2 is dead too when `_recover_parity_double` asks). The survivor between
  them has run the failed position; the slot counts of the survivors then differ
  by one, which the code accepts, and it enters the chain at the first victim, so
  that the survivor runs the position a second time over a cache that holds it: a
  wrong token, where the docstring of `_recover_parity` says "never emits a wrong token"
  (`gateway.py:1110`). With four stages it cannot happen: there is no survivor
  behind, and the gate finds the parity incomplete. `KVRecovery_parity` has four,
  so `NoWrongToken` and `FoldedOnce` say nothing of longer chains; with `Placement` of five stages
  and `Crashable` the second and the fourth TLC finds the behaviour, 62 states
  long;
- a slot evicted between gate and rebuild raises a `RuntimeError` that leaves
  `generate`;
- pushes that arrive after the request has ended create entries anew, which stay
  until the budget evicts them.

Redeploy:
- a worker restarts empty; if a deploy loads it and fails before it wires it, it
  answers like a tail: `NoSilentTruncation` says nothing while a deploy is under
  way or has failed halfway;
- a recovery that re-wires along a plan copied before the deploy overwrites the
  hops of the new plan (`raced`);
- a heartbeat that fails the head puts its backup at the front of the plan and
  wires nothing. If an earlier deploy had the backup serve the same layers, its
  hop is still the one of that deploy, and a call it answers may end early:
  `NoSilentTruncation` speaks of calls that start at the head that was wired;
- a step that walks the old plan during a deploy finds its stage dropped, and the
  healthy worker is blamed.

Planning:
- the fallback of an alternation has lost its sum (`_replace_history`,
  `scheduler.py:667-682`, with the default of `types.py:144`), and
  `solve_alternating_best_order` ranks it like any other candidate. In latency
  mode its rank is the penalty on its stages alone: whatever it costs, it beats
  every candidate that has converged and has no fewer stages, and with
  no penalty every one that has converged. In blended mode what is left is
  `blend_alpha` times the maximum. `BestPipeline`, which leaves the blended mode out, says that this
  is the only answer that is ranked by anything but its cost. `Planning_search` reaches it: three
  devices in latency mode, with backups, where the answer is a placement over all
  three with the sum 0;
- the fingerprint of the cache has the configured `backup_placement`, not the
  override of a re-placement (`server.py:694`). A re-placement over the whole
  fleet asks for `R = {}` and may read a plan with backups, and a start may read
  one without: `AnswerIsWhole` says that only answers from the cache are other
  than what was asked for, and that they back up all of their stages or none;
- with `blend_alpha = 0` the blended mode multiplies zero by infinity and finds
  nothing, where `types.py:207` says it "collapses to latency"; the blended mode
  is not optimal though the docstring of `solve` says so (`DPIsOptimal` and
  `BestPipeline` leave it out);
- `free_memory_bytes` 0 means the total (`Budget`); a fleet of one device has no
  candidates in the subset search;
- the experiments' `max_stage_time` takes an unmeasured bandwidth for infinite,
  so `BaselinesAreNotFaster` compares where every hop was measured.

## Bounds

`MaxCrashes` (two is what R cannot promise any more), `MaxReconfigs`,
`MaxDeploys`, `MaxSolves` (two: one plan and one that follows another),
`MaxTokens` (three positions: one before, at and after the failed one),
`MaxLost`, `MaxHasty`, and in `KVRecovery` the troubles of each mode: one failure
for a mode made for one, two for the double parity, and a lost push or a push of
another request beside it, none of them after a worker has died that had handed
its position on, and nothing after the first wrong token; `MaxBehind` is how many executors may have pushes to
send while the chain goes on. Nothing else is cut off; histories, orphans,
messages and mirrors are bounded by these.

The instances are as small as their cases allow: four stages, because a trailer
is relayed only there and because two interior victims need a head and a tail
around them; three workers for a redeploy, so that two survive; three devices
and five layers for the search, so that subsets, orders and cuts all differ and
one backup host can be chosen twice.

## Fairness

`GatewayPlan`: the detector's thread loops, its callbacks return, an RPC in
flight is delivered or lost, the last heartbeat of a crashed worker grows old,
and a re-placement under way goes on. Crashes, requests and buttons are never
obliged to happen. `ChainRecovery`: a gateway thread and the handlers of its
current call go on when they can; every call in it ends, with an answer or an
error. That leaves out the worker that hangs, for which the code has a deadline
on forwards only. `AsyncChain`: weak fairness of the gateway thread, whose wait
has a timeout, and of the workers' handlers and pools as a whole; crashes,
heartbeats and losses are never obliged to happen. The other modules have safety
properties only.

## Proofs

`GatewayPlanProofs` proves, from the assumptions `GatewayPlan` states about its
constants and nothing else:

- `TypeCorrect`: `Spec => []TypeOK`. The point is `plan \in Seq(Device)`: a plan
  never contains a missing backup. It rests on `ViablePlanType`.
- `PlanNeverLags`, `PlanIsWhole`: `PlanFollowsDead` and `PlanIsSomeViablePlan`.
  The inductive invariant `PlanInv` is their conjunction with `TypeOK`.
  `PlanFollowsDead` says nothing while the dead set is infeasible, so
  `PlanIsSomeViablePlan` says what the plan is meanwhile. The step case rests on
  `DeadWriters`: of all the actions, only rebuilds and rebinds write the dead
  set or the plan.
- `SurvivorsStay`: the action property `FailureMovesOnlyTheFailed`, from
  `PlanInv`, `ViableMonotone` (a smaller dead set is at least as viable) and
  `PlansDifferAtTheFailed`.
- `SuspicionIsNotLost`: `SuspicionReachesGateway`, under the assumption that the
  gateway is there from the start and that no control in use revives or
  re-places.

`RedeployProofs` proves, from `RedeployAssumption`, for every fleet, set of
solutions and number of deploys, crashes and restarts. (The assumption has a
backup differ from the device it covers, which is how `recovery_table.py` chooses
it.)

- `OnePlan`: `OnePlanAtATime`. The inductive invariant `IInv` adds `DeployType`
  (the deploy thread's place in its list of calls) and `LoadedSoFar`: which
  workers the running deploy has loaded already, and that those hold its ranges
  only. It is what makes the order of the calls matter: all primaries, each of
  which drops what was there, come before the first backup.
- `ReadyWhenDeployed`: `DeployedIsReady`. `ReadyInv` follows the deploy stage by
  stage (`Underway`: the primaries up to the current one, then the hops, then the
  backups) and has the types of workers, gateway and request it needs to know
  that a recovery that comes in between writes nothing but the hops of a plan it
  names in `raced`, and promotes without unloading.
- `TypesHold`: `TypeOK`, which with these two needs the types of the marks only.
- `NoCallIsCutShort`: the action property `NoSilentTruncation`. `ChainInv` has,
  for every stage of the bound plan, the *set* of devices a call may reach there:
  the owner, and whatever a recovery has wired in its place. Each device of the
  set that holds the range leads into the set of the next stage, and the call is
  in the set of its own, so that only the last stage can answer. A set is needed
  because an owner that has come back and the backup that a recovery has wired in
  its place may both be called.

`ActivationCacheProofs` proves, for every budget, number of requests, stages,
positions and attempts:

- `FullReplayIsWhole`: `ReplaysTheWholeAttempt`. By itself it is not inductive;
  `HeadInv` adds `HeadHistory`, that the held inputs of the head are of the
  running attempt and that with every input all that were put after it are held,
  which the eviction of whole requests and the order of the puts maintain
  (`HistoryGrows`, `HistoryKept`). That a history starts at position 0 then makes
  it whole (`WholeHistory`).
- `BytesAreAccountedFor` and `OldestGoFirst`: `AccountsForItsBytes` and the action
  property `LastUsedGoesLast`. The count is a sum over the contents, a fold; that
  the fold exists and that a put changes it by one term is proved with a least
  subset that would be a counterexample, since no induction theorem can be
  applied to an operator. The loop that evicts pops the least number of
  requests that makes the rest fit, in the order of use.
- `CacheTypes`: `TypeOK`.

`CommonLemmas` has what `build_execution_plan` gives: its length, that it is
a plan of devices without the dead when `Viable`, and that two plans differ at
owners only that are dead for one and not for the other.

`ChainRecoveryProofs` proves, from `ChainAssumption`:

- `TypesHold`: `TypeOK`, for any number of requests, crashes and marks and both
  modes. The type of a handler that will forward says that it has a next hop;
  `ChainInv` needs that a call in progress is a stack whose stages count up
  (`StackFits`) and where each thread may be with which fields (`JobFits`).
- `TheBlamedHaveCrashed`: `OnlyCrashedAreDead`, for one request at a time and no
  injected failures, and any number of crashes. `BlameInv`: every device in a
  hop, a plan or a frame is the owner of its stage or serves for an owner that is
  dead already (`Serves`), so the owner a trailer names has crashed, now or
  before. With two requests it is false (see above), and TLC finds it so.
- `OneCrashIsSurvived`, `WiringFollowsThePlan`: `SingleFaultSurvived`, and
  `ChainFollowsPlan` without heartbeats, under `OneFault`: one request, at most
  one crash, nobody injects, and R covers every device. `FaultInv`: a recovery runs
  only when the dead are the crashed; its plan has nobody crashed in it, so its
  own calls cannot fail; up to the stage it has come to, the workers are wired
  along the plan.

It goes on, under `OneFault` and `HeadStays`:

- `NothingIsLeftBehind`: `EndedRequestsHoldNoKV`. `RouteInv`: a chain is wired
  along one route, the placement before the recovery and the plan after it, and
  no call leaves it; a handler the crash has orphaned is on a crashed worker, or
  where the old chain still leads (`OrphanFits`), or has no caller, so that the
  eviction finds it.
- `RecoveredTokensAreRight`: `NoWrongToken`, with full replay, and in surgical mode
  when nobody but the tail may crash (`OnlyTailCrashes`: in the middle it is false,
  see above). `TokenInv` has the length of each KV cache along the route: the
  position that is fed, and one more for the stages the call has been through.
  `SurgeryInv` is what a surgical recovery rests on: the failing handler is the
  innermost, so that no handler is orphaned and all stages before it hold the
  failed position, and the mirrors, in whatever order and however late they
  arrive, put right inputs into the history and nothing else; a history that
  `HistoryLen` says reaches beyond the failed position has all of them
  (`HistoryReaches`), and one that does not is left to a full replay.
- `RecoveryGeneratesLikeReference`: `GeneratesLikeReference`, the refinement of
  `Generation`, under the same assumptions and from the same invariants: the
  answer of a step is the next token, an end is an end, and everything a recovery
  does is a stutter.

`AsyncChainProofs` proves `TypesHold`, `TypeOK`, and `CacheWritersAreApart`,
`OneWriterPerCache`, from the constants' assumptions alone. `LockExcludes`: of the
handlers that hold one lock of one worker, one runs. `Solo`: as long as no timeout
was hasty there is one handler, forward, result or answer of the step, or none.

It goes on to `NoTokenIsWrong`, `NoWrongToken`, where the head of the placement
does not crash: if it did, a heartbeat could put its backup at the front between
two tokens, and the next step would go to a chain that nobody has wired or
replayed. A route is followed as in `ChainRecoveryProofs`, but it is some sequence
of devices (`Along`), because the plan may move under a step.

`PlanningProofs` proves, from `PlanningAssumption` only, for every fleet, number of
devices and layers, setting of the knobs, drift of the measurements, and number of
plans and crashes:

- `SearchFindsTheBest`: `BestPipeline`. In the modes that are a sum or a maximum of
  what the stages cost, what a search answers costs no less than the best of all
  cuts over all the orders it may try, and without backups it is that one. It was
  ranked by what it costs, unless it is the fallback of an alternation with backups
  in latency mode (see above). That the exception needs backups is the point of
  `Settled`: without them the DP does not depend on the placement it is given
  (`ForwardAlone`), so the second iteration finds what the first has found and no
  alternation falls back.
- `DPIsAlwaysOptimal`: `DPIsOptimal`, for the candidate being tried.
- `BackupsAlwaysFitTogether`, `ConvergedIsAFixedPoint`: `BackupsFitTogether` (the
  stages and all the backups of a table fit where they are put, together) and
  `ConvergedIsItsOwnTable` (an answer that says it has converged has the table of
  its own placement).
- `AnswerAlwaysFits`, `AnswerIsAlwaysWhole`: `AnswerFits` and `AnswerIsWhole`, the
  latter for answers from the cache too, whoever wrote it; that a search backs up
  what it was asked to back up is `Backs`.
- `TypeCorrect`: `TypeOK`.

They all follow from one invariant, `IInv` (`PlanInvariant`), which TLC checked on
`Planning_search` before it was proved. It is needed because the search keeps its
best candidate and nothing of the others: `Found` says of the best what it is (an
allowed cut of some order that fits with its backups, with its true maximum, and
with its true sum unless it is a fallback, `Summed`), and
`CoversAllBut` that it is no worse than any order that is not among those still
to be tried. `Alternating` says the same of the state of `solve_alternating`
between two iterations: the table is that of the placement it is compared with,
and the cell the DP's for that table. `FileIsWhole` says of the cache file and
the temporary file that a result fits the fingerprint it is stored under, which
is what makes an answer whole that an earlier run of the coordinator has saved.

What the invariant rests on are lemmas about the operators of `Scheduler`:

- `ForwardIsBest`: `_forward` returns an allowed cut of the least cost, and `Empty`
  only when there is none. Row by row: the best cut of the first i layers over
  the first n devices, less its last stage, may be exchanged for the best of its
  row (`CostsGrow`, `BestCellIsBest`, `RowsAreBest`).
- `TableIsFit`: what `determine_recovery_table` returns has a backup for every
  stage, on another device, and the reservations are the sums of what they keep
  (`BackupAdded`), so that the backups of a host fit together.
- `OrdersAreOrders`: the list of candidates has every order of every subset and
  nothing else. The permutations are enumerated by rank, and that each has one is
  a count.
- `ExactCovers`, `BetterCovers`: a comparison keeps what `CoversAllBut` says.

The DP and the table are recursive functions of a natural number. TLAPS knows
nothing of such a function until it is proved to exist (`RowsExist`,
`TurnsExist`), and no induction theorem of the library can be applied, so both
are proved with the least number for which they would fail. `CommonLemmas` has this
argument once, for sets and for numbers, and with it that the sum of a set is
there and changes by one term with one element, that a set of naturals has its
elements by rank, and that the minimum and the maximum of a finite set are in
it. `ActivationCacheProofs` and `KVRecoveryProofs` rest on it as well.

`KVRecoveryProofs` (about 20 minutes of tlapm) proves, from `KVAssumption`, in all
three modes and whatever fails:

- `BytesAreCounted`: `BytesCounted`, the part of `FoldedOnce` about bytes. The
  invariant is `CacheFits`: what a cache counts is the sum over requests and slots
  of what they hold, a parity blob is as wide as its widest contributor, and every
  request that holds anything is in the order of use, once. A push changes the sum
  by one term (`RecordedIsCounted`), an eviction takes out a prefix of the order
  with its terms (`EvictionFits`). `Shapes` says what the workers, the chain and
  the recovery keep meanwhile, which is what makes every column that is pushed as
  wide as its stage.

It goes on under `OneFault`: single parity or replicas, and at most one failure. For
every placement, recovery table, byte budget, number of requests and tokens, for
columns that are pushed late, out of order or never, and for the columns of other
requests that make the budget evict at any moment:

- `OneFaultTypeOK`: `TypeOK`.
- `OneFaultFoldedOnce`: `FoldedOnce`, with the contents: a blob is the sum of the
  columns of its contributors, each of them once, through the re-runs of a
  position and the evictions between two pushes (unless `late`, where it claims the
  bytes only).
- `OneFaultLoadsWhatWasLost`, `OneFaultNoWrongToken`: what a recovery loads is what
  the lost worker held, and no recovery gives a wrong token, with the exception
  of `late` (see above) in the second.

`IInv` adds, to the two above, `Marks` (who has failed, who is known to have, and the
plan that follows), `Sorts` (what there is to push, and who still pushes),
`Outer` (the tokens so far and the phase of the request), `Contents` (each item of
a cache against the columns that have arrived) and, until the request has ended,
`Phases`: for every place the call and the recovery may be in, how many slots each
stage holds. The gate reads the slots of the parity one by one, and the rebuild
reads them again; what makes it sound is that a contributor is never taken out of a
blob but with the whole request, so that a slot which is complete in the rebuild is
the column, whatever has come in between. Once a worker has died after it had
handed its position on (`late`), what is loaded is still right, and nothing is
claimed about the tokens.

### What is only model-checked

- Of `ChainRecovery`: the tokens when failures are injected, those after a second
  crash with re-prefills, `EndedRequestsHoldNoKV` when a heartbeat replaces the
  head.
- Of `KVRecovery`: what the blobs and the recovered caches contain with double
  parity, or with more than one failure. `NoWrongToken` and the part of
  `FoldedOnce` about contents are false of longer chains with double parity (see
  above).
- `BaselinesAreNotFaster`: what a baseline is rests on more than the code states. With
  fewer layers than devices the greedy split has empty stages, and its shares divide
  by a total throughput that may be 0.
- `JointLosesNothing`: for which fleets placing and backing up together loses
  nothing against the decoupled procedure is a statement about the instance.
- Liveness (`CrashIsRouted`, `RequestsEnd`, `RequestEnds`): reasoning about
  fairness is out of the prover's reach.

## Not modelled

- Hung workers and the deadline of a forward (`worker/server.py:618`): every call
  of the synchronous chain ends, with an answer or an error.
- Two `POST /api/reconfigure` at a time, and the KV caches that `load_primary`
  clears under requests in flight across a redeploy: `Redeploy` has the ranges
  and hops such a request walks over, not its tokens.
- A recovery after a rebind in the parity modes: a re-placement has an empty R,
  so no recovery follows that would read the stale coefficients.
- Sampling, tensors, weight files and model architectures: floating-point
  arithmetic; a token is right or wrong here. (`sampling.py` drops the token that
  crosses `top_p`, where its docstring keeps the smallest set that reaches it.)
- The time profiling takes, clocks, thermal state; `network_profiler.py`, the
  local variant, which planning does not use.
- The command line, the remote runs, reports, plots, Ansible roles and the paper:
  they start the program, time it from outside and describe it.
- `FailureDetector.mark_failed`, `ActivationCache.append`,
  `_replay_stage_history` and `RequestGateway.prefill`, which have no caller in
  `radp/`.

## Plan

What is left, in this order:

1. Proofs: two crashes in `ChainRecovery`, where a recovery ends in
   `NoRecoveryError` or wires a chain with the second victim in it.
2. `ChainTimeout`: hung workers, the deadline of a forward, who is blamed.
3. Two reconfigurations at a time in `Redeploy`.
4. `KVRecovery` with five stages, and what `_recover_parity_double` would have to
   check there.
