----------------------------- MODULE AsyncChain -----------------------------
(***************************************************************************)
(* Generation over the asynchronous chain (chain_mode "async"): a worker   *)
(* answers its caller as soon as it has run its layers, a pool forwards    *)
(* the activation, and the tail wakes the gateway with ResultReady.  One   *)
(* streaming request, with the gateway's pending future and its timeout,   *)
(* the workers' per-request locks, and the full-replay recovery.           *)
(*                                                                         *)
(* As in ChainRecovery, an activation is good or not, and a KV cache is    *)
(* the number of positions it holds in order, or Bad.                      *)
(***************************************************************************)
EXTENDS RecoveryPlan, FiniteSets

CONSTANTS Placement,   \* the deployed and wired placement
          Recovery,    \* its recovery table, every backup loaded
          MaxTokens,   \* max_tokens of the request
          Crashable,   \* devices that may crash
          MaxCrashes,  \* bound: how many of them do
          MaxLost,     \* bound: ResultReady calls that fail
          MaxHasty     \* bound: timeouts that fire while their step is under way

ASSUME AsyncAssumption ==
  /\ Placement \in Placements /\ Len(Placement) > 1
  /\ Recovery \in RecoveryTable
  /\ MaxTokens \in Nat \ {0} /\ MaxCrashes \in Nat /\ MaxLost \in Nat /\ MaxHasty \in Nat
  /\ Crashable \subseteq Device

N == Len(Placement)
Stage == 1..N
Position == 0..(MaxTokens - 1)
Bad == MaxTokens + 1   \* a KV cache that is not a prefix of the right one

VARIABLES
  crashed, dead, plan,
  next_hop,   \* servicer._next_hops of every worker
  kv,         \* runner._kv_cache: the cache object a worker finds for the stage
  lock,       \* servicer._req_locks: which lock is the request's, 0 for none
  locks,      \* locks a worker has made
  handlers,   \* RunStage handlers
  forwards,   \* calls of the forwarding pools that have not arrived
  results,    \* ResultReady calls that have not arrived
  pending,    \* gateway._pending and the payload of its one entry
  job,        \* the gateway thread of the request
  lost,       \* ResultReady calls that have failed
  hasty       \* timeouts that have fired while their step was still under way

workers == <<next_hop, kv, lock, locks, handlers, forwards>>
gateway == <<dead, plan, pending, job>>
vars == <<crashed, workers, gateway, results, lost, hasty>>

None == "none"
NoPending == [on |-> FALSE, at |-> 0, answer |-> None]

Init ==
  /\ crashed = {} /\ dead = {}
  /\ plan = build_execution_plan(Placement, Recovery, {})
  /\ next_hop = [d \in Device |-> [s \in Stage |->
                   IF s < N /\ Placement[s] = d THEN Placement[s + 1] ELSE NoDevice]]
  /\ kv = [d \in Device |-> [s \in Stage |-> 0]]
  /\ lock = [d \in Device |-> 0] /\ locks = [d \in Device |-> 0]
  /\ handlers = {} /\ forwards = {} /\ results = {}
  /\ pending = NoPending
  /\ job = [pc |-> "step", pos |-> 0, at |-> 0, call |-> 0, head |-> NoDevice,
            i |-> 0, rplan |-> << >>, todo |-> {}, then |-> "step", wrong |-> FALSE]
  /\ lost = 0 /\ hasty = 0

-----------------------------------------------------------------------------
(* Workers. *)

Message(call, at, good, d, s, from) ==
  [call |-> call, at |-> at, good |-> good, dev |-> d, stage |-> s, from |-> from]

\* RunStage on entry: the next hop is read, and the request's lock is looked up,
\* or made.
Handler(m, g) ==
  [call |-> m.call, at |-> m.at, good |-> m.good, dev |-> m.dev, stage |-> m.stage,
   hop |-> next_hop[m.dev][m.stage], open |-> TRUE, lock |-> g, st |-> "entered",
   len |-> 0, attached |-> TRUE]

Enter(m) ==
  LET d == m.dev
      g == IF lock[d] = 0 THEN locks[d] + 1 ELSE lock[d]
  IN /\ handlers' = handlers \cup {Handler(m, g)}
     /\ lock' = [lock EXCEPT ![d] = g]
     /\ locks' = [locks EXCEPT ![d] = IF g > @ THEN g ELSE @]

ForwardArrives(m) ==
  /\ m.dev \notin crashed
  /\ Enter(m)
  /\ forwards' = forwards \ {m}
  /\ UNCHANGED <<crashed, gateway, next_hop, kv, results, lost, hasty>>

\* The callee is gone, or the pool of the caller is: the failure is only logged.
ForwardFails(m) ==
  /\ m.dev \in crashed \/ m.from \in crashed
  /\ forwards' = forwards \ {m}
  /\ UNCHANGED <<crashed, gateway, next_hop, kv, lock, locks, handlers, results, lost, hasty>>

Detach(hs, d, s) ==
  {IF h.dev = d /\ h.stage = s THEN [h EXCEPT !.attached = FALSE] ELSE h : h \in hs}

\* Variant: no lock.
Held_never(d, g) == FALSE

Held(d, g) == \E h \in handlers : h.dev = d /\ h.lock = g /\ h.st = "running"

\* The lock is free: take it, and look the cache object of the stage up; a prefill
\* replaces that object, and who still runs on the old one keeps it.
Run(h) ==
  /\ h.st = "entered" /\ ~Held(h.dev, h.lock)
  /\ LET others == IF h.at = 0 THEN Detach(handlers \ {h}, h.dev, h.stage)
                   ELSE handlers \ {h}
     IN handlers' = others \cup
          {[h EXCEPT !.st = "running", !.attached = TRUE,
                     !.len = IF h.at = 0 THEN 0 ELSE kv[h.dev][h.stage]]}
  /\ kv' = IF h.at = 0 THEN [kv EXCEPT ![h.dev][h.stage] = 0] ELSE kv
  /\ UNCHANGED <<crashed, gateway, next_hop, lock, locks, forwards, results, lost, hasty>>

\* What a run over a cache of length len makes of it.
Advance(len, p, good) ==
  IF good /\ len = p THEN p + 1 ELSE Bad

\* The layers have run: store, hand the activation to the pool or the token to
\* ResultReady, release the lock and acknowledge.
Finish(h) ==
  LET len == Advance(h.len, h.at, h.good)
      good == len # Bad
  IN /\ h.st = "running"
     /\ handlers' = handlers \ {h}
     /\ kv' = IF h.attached THEN [kv EXCEPT ![h.dev][h.stage] = len] ELSE kv
     /\ IF h.hop = NoDevice
        THEN /\ results' = results \cup
                  {[call |-> h.call, at |-> h.at, good |-> good /\ h.stage = N,
                    from |-> h.dev]}
             /\ UNCHANGED forwards
        ELSE /\ forwards' = IF ~h.open THEN forwards ELSE forwards \cup
                  {Message(h.call, h.at, good, h.hop, h.stage + 1, h.dev)}
             /\ UNCHANGED results
     /\ job' = IF job.pc = "call" /\ job.call = h.call /\ h.stage = 1
               THEN [job EXCEPT !.pc = "wait"] ELSE job
     /\ UNCHANGED <<crashed, dead, plan, pending, next_hop, lock, locks, lost, hasty>>

Crash(d) ==
  /\ d \in Crashable \ crashed /\ Cardinality(crashed) < MaxCrashes
  /\ crashed' = crashed \cup {d}
  /\ handlers' = {h \in handlers : h.dev # d}
  /\ UNCHANGED <<gateway, next_hop, kv, lock, locks, forwards, results, lost, hasty>>

-----------------------------------------------------------------------------
(* The gateway: marks, the pending future, the request's thread. *)

\* Kept only if a future is registered for this position.
record_result(at, good) ==
  pending' = IF pending.on /\ pending.at = at
             THEN [pending EXCEPT !.answer = IF good THEN "good" ELSE "bad"]
             ELSE pending

\* The servicer of the coordinator, to which the tail has sent the token.
ResultReady(m) ==
  /\ results' = results \ {m}
  /\ record_result(m.at, m.good)
  /\ UNCHANGED <<crashed, dead, plan, job, workers, lost, hasty>>

\* The push fails, or its worker is gone; the worker only logs it.
ResultLost(m) ==
  /\ \/ m.from \in crashed /\ UNCHANGED lost
     \/ lost < MaxLost /\ lost' = lost + 1
  /\ results' = results \ {m}
  /\ UNCHANGED <<crashed, gateway, workers, hasty>>

MarkDead(d) ==
  /\ dead' = dead \cup {d}
  /\ plan' = IF Viable(Placement, Recovery, dead')
             THEN build_execution_plan(Placement, Recovery, dead') ELSE plan

OnFailure(d) ==
  /\ d \in crashed \ dead
  /\ MarkDead(d)
  /\ UNCHANGED <<crashed, pending, job, workers, results, lost, hasty>>

\* _invoke: register the future, call the head; a head that is gone is an
\* RpcError, and the future is unregistered again.
Invoke(d, p, j) ==
  LET m == Message(j.call + 1, p, TRUE, d, 1, NoDevice)
  IN IF d \in crashed
     THEN /\ job' = [j EXCEPT !.pc = "error", !.head = d]
          /\ UNCHANGED <<pending, handlers, lock, locks>>
     ELSE /\ pending' = [on |-> TRUE, at |-> p, answer |-> None]
          /\ Enter(m)
          /\ job' = [j EXCEPT !.pc = "call", !.head = d, !.at = p, !.call = @ + 1]

Step ==
  /\ job.pc = "step"
  /\ Invoke(plan[1], job.pos, job)
  /\ UNCHANGED <<crashed, dead, plan, next_hop, kv, forwards, results, lost, hasty>>

\* The head dies before it has acknowledged.
CallFails ==
  /\ job.pc = "call" /\ job.head \in crashed
  /\ job' = [job EXCEPT !.pc = "error"]
  /\ pending' = NoPending
  /\ UNCHANGED <<crashed, dead, plan, workers, results, lost, hasty>>

StartEvict(j, then) == [j EXCEPT !.pc = "evict", !.todo = Device, !.then = then]

Replaying == job.i > 0

\* ResultReady was there in time: the answer to a replayed position is dropped,
\* that to the position of the step is the token.
Answered ==
  /\ job.pc = "wait" /\ pending.answer # None
  /\ pending' = NoPending
  /\ job' = IF Replaying /\ job.at < job.pos THEN [job EXCEPT !.pc = "replay", !.i = @ + 1]
            ELSE LET j == [job EXCEPT !.i = 0, !.pos = @ + 1,
                                      !.wrong = @ \/ pending.answer = "bad"]
                 IN IF j.pos = MaxTokens THEN StartEvict(j, "done")
                    ELSE [j EXCEPT !.pc = "step"]
  /\ UNCHANGED <<crashed, dead, plan, workers, results, lost, hasty>>

UnderWay(call) ==
  \E m \in handlers \cup forwards \cup results : m.call = call

\* Variant: wait() without a timeout.
TimeOut_never == job.pc = "wait" /\ pending.answer = None /\ UNCHANGED vars

\* Variant: the future stays registered when the wait is over.
TimeOut_leaks ==
  /\ job.pc = "wait" /\ pending.answer = None
  /\ job' = [job EXCEPT !.pc = "error"]
  /\ IF UnderWay(job.call) THEN hasty < MaxHasty /\ hasty' = hasty + 1
     ELSE UNCHANGED hasty
  /\ UNCHANGED <<crashed, dead, plan, pending, workers, results, lost>>

\* ev.wait(async_chain_timeout_seconds) returns False.
TimeOut ==
  /\ job.pc = "wait" /\ pending.answer = None
  /\ job' = [job EXCEPT !.pc = "error"]
  /\ pending' = NoPending
  /\ IF UnderWay(job.call) THEN hasty < MaxHasty /\ hasty' = hasty + 1
     ELSE UNCHANGED hasty
  /\ UNCHANGED <<crashed, dead, plan, workers, results, lost>>

\* _recover_from_chain_failure: neither error has a trailer, so the head that was
\* called is to blame.  An error during the replay ends the request, and so does
\* a head without a living backup.
StepFailed ==
  LET d == job.head
  IN /\ job.pc = "error"
     /\ IF Replaying THEN UNCHANGED <<dead, plan>> /\ job' = StartEvict(job, "failed")
        ELSE /\ IF d \in dead THEN UNCHANGED <<dead, plan>> ELSE MarkDead(d)
             /\ job' = IF (d \notin dead /\ ~Viable(Placement, Recovery, dead \cup {d}))
                          \/ Recovery[d] \in crashed \cup {NoDevice}
                       THEN StartEvict(job, "failed")
                       ELSE [job EXCEPT !.pc = "promoted"]
     /\ UNCHANGED <<crashed, pending, workers, results, lost, hasty>>

\* Variant: the chain is not wired along the new plan.
StartRewire_skips ==
  /\ job.pc = "promoted"
  /\ job' = StartEvict(job, "replay")
  /\ UNCHANGED <<crashed, dead, plan, pending, workers, results, lost, hasty>>

\* The copy of the plan that _rewire_chain works through.
StartRewire ==
  /\ job.pc = "promoted"
  /\ job' = [job EXCEPT !.pc = "rewire", !.i = 1, !.rplan = plan]
  /\ UNCHANGED <<crashed, dead, plan, pending, workers, results, lost, hasty>>

\* One SetNextHop.  The forwards on the channel it closes fail, and so will those
\* of the handlers that have looked it up.
Rewire ==
  LET s == job.i
      d == job.rplan[s]
  IN /\ job.pc = "rewire"
     /\ IF d \in crashed THEN UNCHANGED <<next_hop, handlers, forwards>>
        ELSE /\ next_hop' = [next_hop EXCEPT ![d][s] =
                               IF s < N THEN job.rplan[s + 1] ELSE NoDevice]
             /\ handlers' = {IF h.dev = d /\ h.stage = s
                             THEN [h EXCEPT !.open = FALSE] ELSE h : h \in handlers}
             /\ forwards' = {m \in forwards : m.from # d \/ m.stage # s + 1}
     /\ job' = IF s < N THEN [job EXCEPT !.i = s + 1] ELSE StartEvict(job, "replay")
     /\ UNCHANGED <<crashed, dead, plan, pending, kv, lock, locks, results, lost, hasty>>

\* EvictRequest on every worker that is not dead: the cache goes, and with it the
\* name of the request's lock; who holds or awaits that lock goes on.
Evict ==
  LET d == CHOOSE x \in job.todo : TRUE
  IN /\ job.pc = "evict"
     /\ IF d \in dead \cup crashed THEN UNCHANGED <<kv, lock, handlers>>
        ELSE /\ kv' = [kv EXCEPT ![d] = [s \in Stage |-> 0]]
             /\ lock' = [lock EXCEPT ![d] = 0]
             /\ handlers' = {IF h.dev = d /\ h.st = "running"
                             THEN [h EXCEPT !.attached = FALSE] ELSE h : h \in handlers}
     /\ job' = IF job.todo = {d}
               THEN [job EXCEPT !.todo = {}, !.pc = job.then, !.i = 1, !.rplan = << >>]
               ELSE [job EXCEPT !.todo = @ \ {d}]
     /\ UNCHANGED <<crashed, dead, plan, pending, next_hop, locks, forwards,
                    results, lost, hasty>>

\* _replay_through_chain, position i - 1, to the head the plan had at its start.
Replay ==
  /\ job.pc = "replay"
  /\ Invoke(IF job.i = 1 THEN plan[1] ELSE job.head, job.i - 1, job)
  /\ UNCHANGED <<crashed, dead, plan, next_hop, kv, forwards, results, lost, hasty>>

Thread ==
  \/ Step \/ CallFails \/ Answered \/ TimeOut \/ StepFailed
  \/ StartRewire \/ Rewire \/ Evict \/ Replay

Chain ==
  \/ \E h \in handlers : Run(h) \/ Finish(h)
  \/ \E m \in forwards : ForwardArrives(m) \/ ForwardFails(m)
  \/ \E m \in results : ResultReady(m) \/ ResultLost(m)

Ended == job.pc \in {"done", "failed"}

Next ==
  \/ Thread
  \/ Chain
  \/ \E d \in Device : Crash(d) \/ OnFailure(d)
  \/ Ended /\ UNCHANGED vars

Spec == Init /\ [][Next]_vars

\* The thread goes on when it can, its timeout included; so do the workers.
FairSpec == Spec /\ WF_vars(Thread) /\ WF_vars(Chain)

-----------------------------------------------------------------------------
(* Properties. *)

TypeOK ==
  /\ crashed \subseteq Device /\ dead \subseteq Device /\ plan \in [Stage -> Device]
  /\ next_hop \in [Device -> [Stage -> MaybeDevice]]
  /\ kv \in [Device -> [Stage -> 0..MaxTokens \cup {Bad}]]
  /\ \A d \in Device : lock[d] \in 0..locks[d]
  /\ \A h \in handlers : h.dev \notin crashed /\ h.lock \in 1..locks[h.dev]
  /\ \A m \in forwards : m.dev \in Device /\ m.stage \in Stage
  /\ job.pos \in 0..MaxTokens /\ job.at \in Position
  /\ pending.answer \in {None, "good", "bad"}
  /\ pending.on = (job.pc \in {"call", "wait"})

\* Two steps of the request run on one KV cache ("so they can't race on the same
\* DynamicCache", worker/server.py:455-457) only if a timeout has fired under a
\* step that was still under way, and only if EvictRequest has dropped the lock
\* that one of the two handlers holds: never two that found the lock since, such
\* as a replayed step and the late forward of an abandoned one.
OneWriterPerCache ==
  \A g, h \in handlers :
    /\ g.st = "running" /\ g.attached /\ h.st = "running" /\ h.attached
    /\ g.dev = h.dev /\ g.stage = h.stage /\ g # h
    => hasty > 0 /\ (g.lock # lock[g.dev] \/ h.lock # lock[h.dev])

\* As long as no timeout fires while its step is still under way somewhere, no
\* token is wrong: not when a ResultReady is lost, a worker behind the head dies,
\* the healthy head is blamed for it, and a stale result meets a new future.
NoWrongToken == job.wrong => hasty > 0

\* The request ends, whatever is lost.
RequestEnds == <>Ended
=============================================================================
