---------------------------- MODULE ChainRecovery ----------------------------
(***************************************************************************)
(* Generation over the synchronous worker chain, and its repair when a     *)
(* worker dies: RequestGateway's step, failure attribution, chain rewiring *)
(* and the full-replay and surgical recoveries (gateway.py), against the   *)
(* workers' RunStage handlers, next-hop tables and per-request KV caches   *)
(* (worker/server.py, worker/stage_runner.py).                             *)
(*                                                                         *)
(* A step is a nested RPC.  The gateway calls the head of the plan; each   *)
(* worker runs its layers, calls its next hop and waits; the tail's answer *)
(* comes back through all of them.  call[r].frames is that stack.  What is *)
(* computed is abstracted to whether it is the value an undisturbed run    *)
(* would have produced: an activation is good or not, and a KV cache is    *)
(* the number of positions it holds in order, or Bad.                      *)
(***************************************************************************)
EXTENDS RecoveryPlan, FiniteSets, FiniteSetsExt, SequencesExt

CONSTANTS Request,     \* generation requests, one gateway thread each
          Placement,   \* the deployed and wired placement
          Recovery,    \* its recovery table, every backup loaded
          Mode,        \* recovery_mode: "full_replay" or "surgical"
          Retry,       \* generate() re-prefills, generate_streaming() does not
          MaxTokens,   \* max_tokens of every request
          Heartbeats,  \* does the failure detector report crashes
          Markable,    \* live devices that may be marked dead all the same
          Crashable,   \* devices that may crash
          MaxCrashes   \* bound: how many of them do

ASSUME ChainAssumption ==
  /\ Placement \in Placements
  /\ Recovery \in RecoveryTable
  /\ Mode \in {"full_replay", "surgical"}
  /\ Retry \in BOOLEAN /\ Heartbeats \in BOOLEAN
  /\ MaxTokens \in Nat \ {0} /\ MaxCrashes \in Nat
  /\ Markable \subseteq Device /\ Crashable \subseteq Device

N == Len(Placement)
Stage == 1..N
Position == 0..(MaxTokens - 1)
Bad == MaxTokens + 1   \* a KV cache that is not a prefix of the right one

VARIABLES
  crashed,    \* workers whose process is gone
  dead,       \* gateway._dead
  plan,       \* gateway._execution_plan
  next_hop,   \* servicer._next_hops: next_hop[d][s] serves stage s+1
  kv,         \* runner._kv_cache: kv[r][d][s]
  cache,      \* gateway.cache: the mirrored input of (r, stage, position)
  mirrors,    \* MirrorActivation pushes on their way to the gateway
  call,       \* the gateway thread's RPC and the handlers nested in it
  orphans,    \* handlers that run on although their caller is gone
  job         \* the gateway thread of each request

vars == <<crashed, dead, plan, next_hop, kv, cache, mirrors, call, orphans, job>>

workerVars  == <<next_hop, kv, mirrors, orphans>>
gatewayVars == <<dead, plan, cache>>

Frame(d, s) == [dev |-> d, stage |-> s, st |-> "arriving",
                hop |-> NoDevice, open |-> TRUE]

NoCall == [st |-> "idle", live |-> TRUE, at |-> 0, good |-> TRUE,
           frames |-> << >>, head |-> NoDevice, blame |-> 0, plan |-> << >>]

NoKV == [d \in Device |-> [s \in Stage |-> 0]]
NoHistory == [s \in Stage |-> [p \in Position |-> "none"]]

Init ==
  /\ crashed = {}
  /\ dead = {}
  /\ plan = build_execution_plan(Placement, Recovery, {})
  /\ next_hop = [d \in Device |-> [s \in Stage |->
                   IF s < N /\ Placement[s] = d THEN Placement[s + 1] ELSE NoDevice]]
  /\ kv = [r \in Request |-> NoKV]
  /\ cache = [r \in Request |-> NoHistory]
  /\ mirrors = {}
  /\ call = [r \in Request |-> NoCall]
  /\ orphans = {}
  /\ job = [r \in Request |->
              [pc |-> "step", pos |-> 0, out |-> 0, wrong |-> FALSE,
               attempts |-> 0, stage |-> 1, dev |-> NoDevice, rplan |-> << >>,
               k |-> 0, todo |-> {}, then |-> "step"]]

-----------------------------------------------------------------------------
(* A RunStage handler on a worker. *)

\* StageRunner.run: a prefill starts a new cache; any other position is right
\* only when the cache holds exactly the positions before it.
Advance(len, p, good) ==
  CASE ~good             -> Bad
    [] good /\ p = 0     -> 1
    [] good /\ p # 0     -> IF len = p THEN p + 1 ELSE Bad

\* The local part of RunStage: mirror the input (only the surgical recovery
\* reads mirrors, so they are left out elsewhere), then run the layers.
RunLocal(r, d, s, p, live, good) ==
  /\ kv' = [kv EXCEPT ![r][d][s] = Advance(@, p, good)]
  /\ mirrors' = IF s > 1 /\ live /\ Mode = "surgical"
                THEN mirrors \cup {[req |-> r, stage |-> s, at |-> p, good |-> good]}
                ELSE mirrors

\* The next hop is read on entry, before the layers run.
HopOf(d, s, live) == IF live THEN next_hop[d][s] ELSE NoDevice

Running(r) == call[r].st = "running"
Top(r) == Len(call[r].frames)

RunStage(r) ==
  LET c == call[r]
      f == Last(c.frames)
      hop == HopOf(f.dev, f.stage, c.live)
  IN /\ Running(r)
     /\ f.st = "arriving" /\ f.dev \notin crashed
     /\ RunLocal(r, f.dev, f.stage, c.at, c.live, c.good)
     /\ call' = [call EXCEPT
          ![r].good = Advance(kv[r][f.dev][f.stage], c.at, c.good) # Bad,
          ![r].frames[Top(r)].hop = hop,
          ![r].frames[Top(r)].st = IF hop = NoDevice THEN "done" ELSE "ran"]
     /\ UNCHANGED <<crashed, gatewayVars, next_hop, orphans, job>>

\* The handler calls its next hop and blocks.
Forward(r) ==
  LET c == call[r]
      f == Last(c.frames)
  IN /\ Running(r)
     /\ f.st = "ran" /\ f.open /\ f.dev \notin crashed
     /\ call' = [call EXCEPT
          ![r].frames = Append([@ EXCEPT ![Top(r)].st = "waiting"],
                               Frame(f.hop, f.stage + 1))]
     /\ UNCHANGED <<crashed, gatewayVars, workerVars, job>>

\* Handlers that can no longer answer: the process is gone, or SetNextHop has
\* closed the channel they forward (or are about to forward) on.
Broken(r) ==
  {i \in DOMAIN call[r].frames :
     LET f == call[r].frames[i]
     IN f.dev \in crashed \/ (~f.open /\ f.st \in {"ran", "waiting"})}

\* The tail answered and every caller relays it.
Return(r) ==
  /\ Running(r)
  /\ Last(call[r].frames).st = "done"
  /\ Broken(r) = {}
  /\ call' = [call EXCEPT ![r].st = "ok",
                          ![r].good = @ /\ Last(call[r].frames).stage = N,
                          ![r].frames = << >>]
  /\ UNCHANGED <<crashed, gatewayVars, workerVars, job>>

\* What is left running below a broken handler: only its innermost call.
Remainder(r, i) ==
  LET f == Last(call[r].frames)
  IN IF Top(r) > i /\ f.dev \notin crashed /\ f.st \in {"arriving", "ran"}
     THEN {[req |-> r, at |-> call[r].at, good |-> call[r].good, frame |-> f,
            from |-> IF Top(r) = i + 1 THEN NoDevice
                     ELSE call[r].frames[Top(r) - 1].dev]}
     ELSE {}

\* Mutant: every hop overwrites the trailer with its own next hop.
CallFails_overwrite(r) ==
  LET i == Min(Broken(r))
  IN /\ Running(r)
     /\ Broken(r) # {}
     /\ call' = [call EXCEPT
          ![r].st = "error",
          ![r].blame = IF i = 1 THEN 0 ELSE call[r].frames[2].stage,
          ![r].frames = << >>]
     /\ orphans' = orphans \cup Remainder(r, i)
     /\ UNCHANGED <<crashed, gatewayVars, next_hop, kv, mirrors, job>>

\* _dispatch_run_stage: the caller of the failed handler stamps that handler's
\* stage on its trailer and every worker above relays the trailer.  A handler
\* whose channel was closed while it waited sees its next hop fail; one that
\* had not called yet raises, and is itself the failed one.  The gateway's own
\* callee has nobody to stamp a trailer for it (blame = 0).
CallFails(r) ==
  LET i == Min(Broken(r))
      f == call[r].frames[i]
      failed == IF f.dev \notin crashed /\ f.st = "waiting" THEN i + 1 ELSE i
  IN /\ Running(r)
     /\ Broken(r) # {}
     /\ call' = [call EXCEPT
          ![r].st = "error",
          ![r].blame = IF failed = 1 THEN 0 ELSE call[r].frames[failed].stage,
          ![r].frames = << >>]
     /\ orphans' = orphans \cup Remainder(r, i)
     /\ UNCHANGED <<crashed, gatewayVars, next_hop, kv, mirrors, job>>

-----------------------------------------------------------------------------
(* Orphaned handlers: they still run, mirror and forward. *)

Detached(o) == o.from = NoDevice \/ o.from \in crashed

OrphanRuns(o) ==
  LET f == o.frame
      hop == HopOf(f.dev, f.stage, TRUE)
  IN /\ f.st = "arriving" /\ f.dev \notin crashed
     /\ RunLocal(o.req, f.dev, f.stage, o.at, TRUE, o.good)
     /\ orphans' = (orphans \ {o}) \cup
          (IF hop = NoDevice THEN {}
           ELSE {[o EXCEPT
                   !.good = Advance(kv[o.req][f.dev][f.stage], o.at, o.good) # Bad,
                   !.frame.hop = hop, !.frame.st = "ran"]})
     /\ UNCHANGED <<crashed, gatewayVars, next_hop, call, job>>

OrphanForwards(o) ==
  LET f == o.frame
  IN /\ f.st = "ran" /\ f.dev \notin crashed
     /\ orphans' = (orphans \ {o}) \cup
          (IF f.open
           THEN {[o EXCEPT !.frame = Frame(f.hop, f.stage + 1), !.from = f.dev]}
           ELSE {})
     /\ UNCHANGED <<crashed, gatewayVars, next_hop, kv, mirrors, call, job>>

\* A request whose caller is gone is cancelled before it starts, or its worker
\* crashes.
OrphanVanishes(o) ==
  /\ o.frame.dev \in crashed \/ (o.frame.st = "arriving" /\ Detached(o))
  /\ orphans' = orphans \ {o}
  /\ UNCHANGED <<crashed, gatewayVars, next_hop, kv, mirrors, call, job>>

\* record_mirror: ActivationCache.put keeps the first input of a position.
DeliverMirror(m) ==
  /\ mirrors' = mirrors \ {m}
  /\ cache' = [cache EXCEPT ![m.req][m.stage][m.at] =
                 IF @ # "none" THEN @ ELSE IF m.good THEN "good" ELSE "bad"]
  /\ UNCHANGED <<crashed, dead, plan, next_hop, kv, call, orphans, job>>

-----------------------------------------------------------------------------
(* Failures, and the threads that report them. *)

Crash(d) ==
  /\ d \in Crashable \ crashed
  /\ Cardinality(crashed) < MaxCrashes
  /\ crashed' = crashed \cup {d}
  /\ UNCHANGED <<gatewayVars, workerVars, call, job>>

\* mark_dead adds the device and then rebuilds the plan, or raises.
MarkDead(d) ==
  /\ dead' = dead \cup {d}
  /\ plan' = IF Viable(Placement, Recovery, dead')
             THEN build_execution_plan(Placement, Recovery, dead') ELSE plan

\* on_failure, /api/inject_failure: mark the device, leave the chain as it is.
MarkedFromOutside(d) ==
  /\ (Heartbeats /\ d \in crashed) \/ d \in Markable
  /\ d \notin dead
  /\ MarkDead(d)
  /\ UNCHANGED <<crashed, cache, workerVars, call, job>>

-----------------------------------------------------------------------------
(* The gateway thread of a request. *)

Invoke(r, d, s, p, live, good) ==
  call' = [call EXCEPT ![r] =
             [NoCall EXCEPT !.st = "running", !.live = live, !.at = p,
                            !.good = good, !.head = d, !.plan = plan,
                            !.frames = <<Frame(d, s)>>]]

\* _run_pipeline: prime the cache with the head's input, call the plan's head.
Step(r) ==
  /\ job[r].pc = "step"
  /\ cache' = [cache EXCEPT ![r][1][job[r].pos] = "good"]
  /\ Invoke(r, plan[1], 1, job[r].pos, TRUE, TRUE)
  /\ job' = [job EXCEPT ![r].pc = "wait"]
  /\ UNCHANGED <<crashed, dead, plan, workerVars>>

\* The evict loops: then is where the thread goes on.
StartEvict(j, then) ==
  [j EXCEPT !.pc = "evict", !.todo = Device, !.then = then]

\* Mutant: the loop runs once more than max_tokens says.
Emit_onemore(j, good) ==
  LET j2 == [j EXCEPT !.out = @ + 1, !.pos = @ + 1, !.wrong = @ \/ ~good]
  IN IF j2.out > MaxTokens THEN StartEvict([j2 EXCEPT !.pos = 0], "done")
     ELSE [j2 EXCEPT !.pc = "step"]

\* Mutant: no finally, the workers are not told to evict.
Emit_noevict(j, good) ==
  LET j2 == [j EXCEPT !.out = @ + 1, !.pos = @ + 1, !.wrong = @ \/ ~good]
  IN IF j2.out = MaxTokens THEN [j2 EXCEPT !.pos = 0, !.pc = "done"]
     ELSE [j2 EXCEPT !.pc = "step"]

\* A token comes back: emit it, and step on or finish (finally: evict).
Emit(j, good) ==
  LET j2 == [j EXCEPT !.out = @ + 1, !.pos = @ + 1, !.wrong = @ \/ ~good]
  IN IF j2.out = MaxTokens THEN StartEvict([j2 EXCEPT !.pos = 0], "done")
     ELSE [j2 EXCEPT !.pc = "step"]

\* Mutant: the tokens of the failed attempt are kept.
Reprefill_keeps(j) ==
  IF Retry /\ j.attempts < N
  THEN StartEvict([j EXCEPT !.attempts = @ + 1, !.pos = 0], "step")
  ELSE StartEvict(j, "failed")

\* An RpcError reaches _generate_inner: start over with a prefill, at most
\* len(placement) times; generate_streaming gives up at once.
Reprefill(j) ==
  IF Retry /\ j.attempts < N
  THEN StartEvict([j EXCEPT !.attempts = @ + 1, !.pos = 0, !.out = 0], "step")
  ELSE StartEvict(j, "failed")

StepDone(r) ==
  /\ job[r].pc = "wait" /\ call[r].st = "ok"
  /\ job' = [job EXCEPT ![r] = Emit(@, call[r].good)]
  /\ call' = [call EXCEPT ![r] = NoCall]
  /\ UNCHANGED <<crashed, gatewayVars, workerVars>>

\* _attribute_chain_failure: the trailer's range in the original placement, or
\* the head that was called.
DeadStage(r) == IF call[r].blame = 0 THEN 1 ELSE call[r].blame
DeadDevice(r) == IF call[r].blame = 0 THEN call[r].head ELSE Placement[call[r].blame]

\* Mark the device unless another thread has; NoRecoveryError ends the request.
StepFailed(r) ==
  LET d == DeadDevice(r)
  IN /\ job[r].pc = "wait" /\ call[r].st = "error"
     /\ IF d \in dead THEN UNCHANGED <<dead, plan>> ELSE MarkDead(d)
     /\ job' = [job EXCEPT ![r] =
          IF d \notin dead /\ ~Viable(Placement, Recovery, dead \cup {d})
          THEN StartEvict(@, "failed")
          ELSE [@ EXCEPT !.pc = "promote", !.stage = DeadStage(r), !.dev = d]]
     /\ call' = [call EXCEPT ![r] = NoCall]
     /\ UNCHANGED <<crashed, cache, workerVars>>

\* Mutant: the chain is rewired along the deployed placement.
Promote_oldplan(r) ==
  LET k == Recovery[job[r].dev]
  IN /\ job[r].pc = "promote"
     /\ job' = [job EXCEPT ![r] =
          CASE k = NoDevice -> StartEvict(@, "failed")
            [] k \in crashed -> Reprefill(@)
            [] OTHER -> [@ EXCEPT !.pc = "rewire", !.k = 1, !.rplan = Placement]]
     /\ UNCHANGED <<crashed, gatewayVars, workerVars, call>>

\* PromoteBackup, then the copy of the plan that _rewire_chain works through.
\* No table entry is a RuntimeError, a backup that is gone an RpcError.
Promote(r) ==
  LET k == Recovery[job[r].dev]
  IN /\ job[r].pc = "promote"
     /\ job' = [job EXCEPT ![r] =
          CASE k = NoDevice -> StartEvict(@, "failed")
            [] k \in crashed -> Reprefill(@)
            [] OTHER -> [@ EXCEPT !.pc = "rewire", !.k = 1, !.rplan = plan]]
     /\ UNCHANGED <<crashed, gatewayVars, workerVars, call>>

\* SetNextHop(d, s) closes the channel of whatever still forwards on it.
CloseChannel(d, s) ==
  LET Shut(f) == IF f.dev = d /\ f.stage = s THEN [f EXCEPT !.open = FALSE] ELSE f
  IN /\ call' = [q \in Request |->
          [call[q] EXCEPT !.frames = [i \in DOMAIN @ |-> Shut(@[i])]]]
     /\ orphans' = {[o EXCEPT !.frame = Shut(@),
                              !.from = IF @ = d /\ o.frame.stage = s + 1
                                       THEN NoDevice ELSE @] : o \in orphans}

\* Contiguous prefix of the inputs the gateway holds for a stage.
HistoryLen(r, s) ==
  Cardinality({p \in Position : \A q \in 0..p : cache[r][s][q] # "none"})

\* Mutant: the input of the failed position itself is not asked for.
AfterRewire_lag(r) ==
  IF Mode = "surgical" /\ HistoryLen(r, job[r].stage) >= job[r].pos
  THEN [job[r] EXCEPT !.pc = "rebuild", !.k = 0]
  ELSE StartEvict([job[r] EXCEPT !.k = 0], "replay")

\* Rewired: full replay evicts everything first; the surgical recovery goes on
\* with the dead stage's mirrored inputs when they reach the failed position.
AfterRewire(r) ==
  IF Mode = "surgical" /\ HistoryLen(r, job[r].stage) > job[r].pos
  THEN [job[r] EXCEPT !.pc = "rebuild", !.k = 0]
  ELSE StartEvict([job[r] EXCEPT !.k = 0], "replay")

\* Mutant: the successor is looked up in the placement, not in the plan.
Rewire_oldnext(r) ==
  LET s == job[r].k
      d == job[r].rplan[s]
      succ == IF s < N THEN Placement[s + 1] ELSE NoDevice
  IN /\ job[r].pc = "rewire"
     /\ IF d \in crashed
        THEN UNCHANGED <<next_hop, call, orphans>>
        ELSE /\ next_hop' = [next_hop EXCEPT ![d][s] = succ]
             /\ CloseChannel(d, s)
     /\ job' = [job EXCEPT ![r] =
          IF s < N THEN [@ EXCEPT !.k = s + 1] ELSE AfterRewire(r)]
     /\ UNCHANGED <<crashed, gatewayVars, kv, mirrors>>

\* _rewire_chain, one SetNextHop at a time; a worker that is gone is skipped.
Rewire(r) ==
  LET s == job[r].k
      d == job[r].rplan[s]
      succ == IF s < N THEN job[r].rplan[s + 1] ELSE NoDevice
  IN /\ job[r].pc = "rewire"
     /\ IF d \in crashed
        THEN UNCHANGED <<next_hop, call, orphans>>
        ELSE /\ next_hop' = [next_hop EXCEPT ![d][s] = succ]
             /\ CloseChannel(d, s)
     /\ job' = [job EXCEPT ![r] =
          IF s < N THEN [@ EXCEPT !.k = s + 1] ELSE AfterRewire(r)]
     /\ UNCHANGED <<crashed, gatewayVars, kv, mirrors>>

\* One EvictRequest of _evict_kv_for_request or _evict_everywhere.  Devices in
\* _dead are skipped.  A cancelled handler that has not started by now is gone.
Evict(r) ==
  LET d == CHOOSE x \in job[r].todo : TRUE
  IN /\ job[r].pc = "evict" /\ job[r].todo # {}
     /\ IF d \in dead \cup crashed
        THEN UNCHANGED <<kv, orphans>>
        ELSE /\ kv' = [kv EXCEPT ![r][d] = [s \in Stage |-> 0]]
             /\ orphans' = {o \in orphans :
                  ~(o.req = r /\ o.frame.dev = d /\ o.frame.st = "arriving"
                    /\ Detached(o))}
     /\ cache' = IF job[r].then = "replay" THEN cache
                 ELSE [cache EXCEPT ![r] = NoHistory]
     /\ job' = [job EXCEPT ![r].todo = @ \ {d},
                           ![r].pc = IF job[r].todo = {d} THEN job[r].then ELSE @]
     /\ UNCHANGED <<crashed, dead, plan, next_hop, mirrors, call>>

\* _replay_through_chain: every cached head input, in order, to the plan's head.
Replay(r) ==
  /\ job[r].pc = "replay" /\ call[r].st = "idle"
  /\ job' = [job EXCEPT ![r].dev = IF job[r].k = 0 THEN plan[1] ELSE @]
  /\ Invoke(r, job'[r].dev, 1, job[r].k, TRUE, TRUE)
  /\ UNCHANGED <<crashed, gatewayVars, workerVars>>

\* _recover_surgical: positions 0..P-1 into the backup only, P live from there.
Rebuild(r) ==
  LET s == job[r].stage
      p == job[r].k
  IN /\ job[r].pc = "rebuild" /\ call[r].st = "idle"
     /\ job' = [job EXCEPT ![r].dev = IF p = 0 THEN plan[s] ELSE @]
     /\ Invoke(r, job'[r].dev, s, p, p = job[r].pos, cache[r][s][p] = "good")
     /\ UNCHANGED <<crashed, gatewayVars, workerVars>>

\* Mutant: the replay never gets to the next position.
RecoveryAnswer_stuck(r) ==
  /\ job[r].pc \in {"replay", "rebuild"}
  /\ call[r].st \in {"ok", "error"}
  /\ job' = [job EXCEPT ![r] =
       CASE call[r].st = "error"  -> Reprefill(@)
         [] call[r].st = "ok" /\ @.k < @.pos -> @
         [] call[r].st = "ok" /\ @.k = @.pos -> Emit(@, call[r].good)]
  /\ call' = [call EXCEPT ![r] = NoCall]
  /\ UNCHANGED <<crashed, gatewayVars, workerVars>>

\* An answer during recovery: the one for the failed position is its token.
RecoveryAnswer(r) ==
  /\ job[r].pc \in {"replay", "rebuild"}
  /\ call[r].st \in {"ok", "error"}
  /\ job' = [job EXCEPT ![r] =
       CASE call[r].st = "error"  -> Reprefill(@)
         [] call[r].st = "ok" /\ @.k < @.pos -> [@ EXCEPT !.k = @ + 1]
         [] call[r].st = "ok" /\ @.k = @.pos -> Emit(@, call[r].good)]
  /\ call' = [call EXCEPT ![r] = NoCall]
  /\ UNCHANGED <<crashed, gatewayVars, workerVars>>

Gateway(r) ==
  \/ Step(r) \/ StepDone(r) \/ StepFailed(r)
  \/ Promote(r) \/ Rewire(r) \/ Evict(r)
  \/ Replay(r) \/ Rebuild(r) \/ RecoveryAnswer(r)

Chain(r) == RunStage(r) \/ Forward(r) \/ Return(r) \/ CallFails(r)

Orphan == \E o \in orphans : OrphanRuns(o) \/ OrphanForwards(o) \/ OrphanVanishes(o)

Ended(r) == job[r].pc \in {"done", "failed"}

\* Every request is over.
Finished == (\A r \in Request : Ended(r)) /\ UNCHANGED vars

Next ==
  \/ \E r \in Request : Gateway(r) \/ Chain(r)
  \/ Orphan
  \/ \E m \in mirrors : DeliverMirror(m)
  \/ \E d \in Device : Crash(d) \/ MarkedFromOutside(d)
  \/ Finished

Spec == Init /\ [][Next]_vars

\* A gateway thread and a handler thread that can go on do go on.
FairSpec == Spec /\ \A r \in Request : WF_vars(Gateway(r)) /\ WF_vars(Chain(r))

-----------------------------------------------------------------------------
(* Properties. *)

FrameType == [dev : Device, stage : Stage, st : {"arriving", "ran", "waiting", "done"},
              hop : MaybeDevice, open : BOOLEAN]

TypeOK ==
  /\ crashed \subseteq Device /\ dead \subseteq Device
  /\ plan \in [Stage -> Device]
  /\ next_hop \in [Device -> [Stage -> MaybeDevice]]
  /\ kv \in [Request -> [Device -> [Stage -> 0..MaxTokens \cup {Bad}]]]
  /\ cache \in [Request -> [Stage -> [Position -> {"none", "good", "bad"}]]]
  /\ mirrors \subseteq [req : Request, stage : Stage, at : Position, good : BOOLEAN]
  /\ \A r \in Request :
       /\ call[r].st \in {"idle", "running", "ok", "error"}
       /\ call[r].at \in Position /\ call[r].blame \in 0..N
       /\ (call[r].st = "running") = (call[r].frames # << >>)
       /\ \A i \in DOMAIN call[r].frames : call[r].frames[i] \in FrameType
       /\ job[r].pos \in Position /\ job[r].out \in 0..MaxTokens
       /\ job[r].k \in 0..(N + MaxTokens)
  /\ \A o \in orphans : o.req \in Request /\ o.frame \in FrameType

\* No request is ever handed a token an undisturbed run would not have produced
\* ("the token sequence is the same as the baseline", ARCHITECTURE.md 3.3):
\* whatever crashes, whichever thread notices first, and whatever the orphaned
\* handlers of an abandoned call still do to the surviving KV caches.
NoWrongToken == \A r \in Request : ~job[r].wrong

\* The wiring of the workers agrees with the plan of the gateway: the stages of
\* a call run on the devices the plan it was sent under names for them (an
\* injected failure routes "to the backup per R, exactly as a real gRPC failure
\* would", web_api.py).
ChainFollowsPlan ==
  \A r \in Request : \A i \in DOMAIN call[r].frames :
    LET f == call[r].frames[i] IN f.dev = call[r].plan[f.stage]

\* A recovery only ever declares a crashed worker dead, never a healthy one
\* (the reason RunStage relays the trailer of a hop further down).
OnlyCrashedAreDead == dead \subseteq crashed

\* A single crash never fails a request: R covers every device.
SingleFaultSurvived == \A r \in Request : job[r].pc # "failed"

\* A request that is over leaves no KV cache on a worker still in service, once
\* its orphaned handlers are over too (the finally of generate).
EndedRequestsHoldNoKV ==
  \A r \in Request :
    (Ended(r) /\ \A o \in orphans : o.req # r)
      => \A d \in Device \ (dead \cup crashed) : kv[r][d] = [s \in Stage |-> 0]

\* The reference behaviour: see Generation.  A token counts as emitted only when
\* it is the right one; MaxTokens + 1 is no count of tokens at all.
Gen == INSTANCE Generation WITH
  Attempts <- IF Retry THEN N ELSE 0,
  emitted  <- [r \in Request |-> IF job[r].wrong THEN MaxTokens + 1 ELSE job[r].out],
  status   <- [r \in Request |-> IF Ended(r) THEN job[r].pc ELSE "running"],
  restarts <- [r \in Request |-> job[r].attempts]

\* The chain with its recoveries implements the reference generator: tokens come
\* out in order and right, a restart throws all of them away, and only a second
\* crash makes a request fail.
GeneratesLikeReference == Gen!Spec

\* Every request comes to an end, done or failed; recoveries of several
\* requests never wait on each other for ever.
RequestsEnd == \A r \in Request : <>Ended(r)
=============================================================================
