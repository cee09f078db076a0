------------------------------ MODULE KVRecovery ------------------------------
(***************************************************************************)
(* Recovery from pushed KV columns (recovery_mode "parity", k = 1 or 2,    *)
(* and "replicate"): the workers behind the head push their inputs and     *)
(* every new KV column to the gateway; when one of them dies, the gateway  *)
(* computes what it held from the parity and the survivors' caches, or     *)
(* reads it from the replica, loads it into the promoted backup and runs   *)
(* the failed position from there.                                         *)
(*                                                                         *)
(* One attempt of one request is followed, with the pushes of another one  *)
(* beside it.  Columns are the bytes they are (one per layer); an          *)
(* activation is good when it is that of an undisturbed run.  The attempt  *)
(* is over when the recovery defers to _recover_surgical, or raises, and   *)
(* with its first wrong token.                                             *)
(***************************************************************************)
EXTENDS RecoveryPlan, KVCaches

CONSTANTS Placement,   \* the deployed and wired placement
          Recovery,    \* its recovery table, every backup loaded
          LayersOf,    \* layers of each stage
          Prompt,      \* slots of the prompt
          MaxTokens,   \* max_tokens of the request
          Subject,     \* the request, one of Request; the others only push
          Crashable,   \* devices that may crash
          Bounds,      \* recovery modes; for each, how many crashes and injected faults,
                       \* failed pushes, pushes of others, and of all together
          MaxBehind    \* bound: executors with pushes to send while the chain goes on

ASSUME KVAssumption ==
  /\ Placement \in Placements /\ Len(Placement) > 2
  /\ Recovery \in RecoveryTable
  /\ LayersOf \in [DOMAIN Placement -> Nat \ {0}]
  /\ Prompt \in Nat \ {0} /\ MaxTokens \in Nat \ {0} /\ max_bytes \in Nat
  /\ Subject \in Request /\ IsFiniteSet(Request)
  /\ Crashable \subseteq Device \ {Placement[1]}
  /\ DOMAIN Bounds \subseteq {"parity", "raid6", "replicate"}
  /\ \A m \in DOMAIN Bounds :
       Bounds[m] \in [failures : Nat, lost : Nat, others : Nat, troubles : Nat]
  /\ MaxBehind \in Nat

N == Len(Placement)
Stage == 1..N
NonHead == 2..N
Position == 0..(MaxTokens - 1)
Slot == 0..(Prompt + MaxTokens)

VARIABLES
  mode, crashed, dead, plan,
  next_hop,   \* who serves the successor of a stage, per stage
  promoted,   \* stages served by their promoted backup
  kv,         \* the columns the server of each stage holds for the request
  pushes,     \* each worker's single-threaded push executor
  cache,      \* the gateway's parity or replica cache
  history,    \* gateway.cache: the mirrored inputs of a stage
  chain,      \* the handlers of the gateway's call, and those it has abandoned
  job,        \* the gateway thread of the request
  injected,   \* faults injected
  lost, others,
  late        \* a worker died after it had handed its position on

workers == <<next_hop, promoted, kv, pushes>>
gateway == <<dead, plan, cache, history, job>>
bounds  == <<injected, lost, others, late>>
vars == <<mode, crashed, workers, gateway, chain, bounds>>

\* Nothing more goes wrong once a worker has died after it had handed its position
\* on, which is trouble enough.
MoreTrouble == Cardinality(crashed) + injected + lost + others < Bounds[mode].troubles /\ ~late
MoreFailures == Cardinality(crashed) + injected < Bounds[mode].failures /\ MoreTrouble

K == IF mode = "raid6" THEN 2 ELSE 1

\* Rank of a non-head stage, the exponent of its weight in Q.
_parity_coeff(s) == s - 2
num_stages == N - 1

\* The column of a slot in an undisturbed run, and what a disturbed run leaves.
Columns ==
  [r \in Request |-> [s \in Stage |-> [j \in Slot |->
     [l \in 1..LayersOf[s] |-> (61 * s + 29 * j + 83 * l + (IF r = Subject THEN 0 ELSE 7)) % 256]]]]
Col(r, s, j) == Columns[r][s][j]
BadCol(s) == [l \in 1..LayersOf[s] |-> 255]

\* Slots a stage holds before a position.
Before(p) == IF p = 0 THEN 0 ELSE Prompt + p - 1
Prefix(s, n) == [i \in 1..n |-> Col(Subject, s, i - 1)]

Idle == [st |-> "idle", stage |-> 1, dev |-> NoDevice, at |-> 0, good |-> TRUE, from |-> 1, blame |-> 0]

NoJob == [pc |-> "step", pos |-> 0, wrong |-> FALSE, victims |-> << >>, n |-> 0,
          k |-> 1, got |-> << >>, held |-> << >>, recon |-> << >>]

\* Interior stages of which neither holds the backup of the other, first pair
\* first; one whose backups are on two devices is preferred.
pick_two_interior_victims ==
  LET device(s) == Placement[s]
      Pair == {p \in (2..(N - 1)) \X (2..(N - 1)) : p[1] < p[2]}
      recoverable ==
        {p \in Pair : \A s \in ToSet(p) :
           Recovery[device(s)] \notin {NoDevice, device(p[1]), device(p[2])}}
      apart == {p \in recoverable : Recovery[device(p[1])] # Recovery[device(p[2])]}
      InOrder(p, q) == p[1] < q[1] \/ (p[1] = q[1] /\ p[2] <= q[2])
      first(S) == CHOOSE p \in S : \A q \in S : InOrder(p, q)
      preferred == IF apart # {} THEN apart ELSE recoverable
  IN IF preferred = {} THEN {} ELSE {device(s) : s \in ToSet(first(preferred))}

\* The campaign of the experiments marks both victims before the request: the
\* plan follows, the workers keep their next hops, and the victims still serve.
run_raid6_trial == mode = "raid6" /\ dead = pick_two_interior_victims

Init ==
  /\ mode \in DOMAIN Bounds
  /\ crashed = {}
  /\ dead \in {{}, pick_two_interior_victims}
  /\ dead = {} \/ run_raid6_trial
  /\ plan = build_execution_plan(Placement, Recovery, dead)
  /\ next_hop = Placement
  /\ promoted = {}
  /\ kv = [s \in Stage |-> << >>]
  /\ pushes = [d \in Device |-> << >>]
  /\ cache = EmptyCache
  /\ history = [s \in Stage |-> [p \in Position |-> "none"]]
  /\ chain = [i \in {"call", "orphan"} |-> Idle]
  /\ job = NoJob
  /\ injected = 0 /\ lost = 0 /\ others = 0 /\ late = FALSE

-----------------------------------------------------------------------------
(* The workers. *)

Serves(d, s) == d \notin crashed /\ d = (IF s \in promoted THEN Recovery[Placement[s]] ELSE Placement[s])

Mirror(s, p, good) == [kind |-> "mirror", stage |-> s, at |-> p, good |-> good, col |-> << >>]
KVPush(s, j, col) == [kind |-> "kv", stage |-> s, at |-> j, good |-> TRUE, col |-> col]

\* Variant: the one that called the failed stage is blamed.
Failed_caller(h, s) == [h EXCEPT !.st = "error", !.blame = IF s = 1 THEN 1 ELSE s - 1]

\* The trailer names the stage that failed.
Failed(h, s) == [h EXCEPT !.st = "error", !.blame = s]

\* Executors that have something to send; the chain goes on while few have.
Behind == {d \in Device : pushes[d] # << >>}

\* RunStage arrives at a worker, which mirrors the input before anything else
\* (the head's is the gateway's own).  The call fails when the worker is gone, or
\* has no such stage; nobody hears of an abandoned one.
Reach(i, h) ==
  IF Serves(h.dev, h.stage)
  THEN /\ chain' = [chain EXCEPT ![i] = h]
       /\ pushes' = IF h.stage = 1 THEN pushes
                    ELSE [pushes EXCEPT ![h.dev] = Append(@, Mirror(h.stage, h.at, h.good))]
  ELSE /\ chain' = [chain EXCEPT ![i] = IF i = "call" THEN Failed(h, h.stage) ELSE Idle]
       /\ UNCHANGED pushes

\* StageRunner.run: a prefill starts a new cache, any other position is right
\* when the cache holds exactly the slots before it.
Runs(h) == h.good /\ (h.at = 0 \/ kv[h.stage] = Prefix(h.stage, Before(h.at)))

NewColumns(h) ==
  LET first == IF h.at = 0 THEN 0 ELSE Len(kv[h.stage])
      last  == IF h.at = 0 THEN Prompt - 1 ELSE first
  IN [j \in 1..(last - first + 1) |->
        IF Runs(h) THEN Col(Subject, h.stage, first + j - 1) ELSE BadCol(h.stage)]

\* The slots that _maybe_push_parity_kv ships: all of a prefill's, else the last.
Shipped(h) ==
  LET base == IF h.at = 0 THEN 0 ELSE Len(kv[h.stage])
      new == NewColumns(h)
  IN [j \in DOMAIN new |-> KVPush(h.stage, base + j - 1, new[j])]

Run(i) ==
  LET h == chain[i]
  IN /\ h.st = "arrived"
     /\ kv' = [kv EXCEPT ![h.stage] = (IF h.at = 0 THEN << >> ELSE @) \o NewColumns(h)]
     /\ pushes' = IF h.stage = 1 THEN pushes ELSE [pushes EXCEPT ![h.dev] = @ \o Shipped(h)]
     /\ chain' = [chain EXCEPT ![i].st = "ran", ![i].good = Runs(h)]
     /\ UNCHANGED <<mode, crashed, next_hop, promoted, gateway, bounds>>

\* _maybe_inject_fault: instead of running, a handler behind the head raises, once
\* its mirror has been sent; its worker lives on.  The campaign arms the worker
\* that the placement names.
InjectFault(i) ==
  LET h == chain[i]
      mirrored == \A n \in DOMAIN pushes[h.dev] : pushes[h.dev][n].kind # "mirror"
  IN /\ h.st = "arrived" /\ h.stage \in NonHead \ promoted /\ mirrored
     /\ MoreFailures
     /\ injected' = injected + 1
     /\ chain' = [chain EXCEPT ![i] = IF i = "call" THEN Failed(h, h.stage) ELSE Idle]
     /\ UNCHANGED <<mode, crashed, workers, gateway, lost, others, late>>

\* The handler calls its next hop, or the tail answers.
Forward(i) ==
  LET h == chain[i]
  IN /\ h.st = "ran" /\ Cardinality(Behind) <= MaxBehind
     /\ IF h.stage < N
        THEN Reach(i, [h EXCEPT !.st = "arrived", !.stage = @ + 1,
                                !.dev = next_hop[h.stage + 1]])
        ELSE /\ chain' = [chain EXCEPT ![i] = IF i = "call" THEN [h EXCEPT !.st = "ok"] ELSE Idle]
             /\ UNCHANGED pushes
     /\ UNCHANGED <<mode, crashed, next_hop, promoted, kv, gateway, bounds>>

UnderWay(h) == h.st \in {"arrived", "ran"}

\* Stages whose handlers wait for the one that is under way.
Waiting(h) == IF UnderWay(h) THEN h.from..(h.stage - 1) ELSE {}

RunningOn(d, h) == UnderWay(h) /\ h.dev = d

\* The executor of a dead worker is gone with what it has not sent.  A handler
\* that waited cuts the call off from the handler that is under way.
Crash(d) ==
  LET c == chain["call"]
      cut == {s \in Waiting(c) : next_hop[s] = d}
      o == chain["orphan"]
  IN /\ d \in Crashable \ crashed /\ MoreFailures
     /\ cut # {} => o = Idle
     /\ crashed' = crashed \cup {d}
     /\ pushes' = [pushes EXCEPT ![d] = << >>]
     /\ chain' = [call |-> IF cut # {} THEN Failed(c, Min(cut))
                           ELSE IF RunningOn(d, c) THEN Failed(c, c.stage) ELSE c,
                  orphan |-> IF cut # {} /\ ~RunningOn(d, c) THEN c
                             ELSE IF RunningOn(d, o) THEN Idle ELSE o]
     /\ late' = (late \/ cut # {} \/ (RunningOn(d, c) /\ c.stage = N /\ c.st = "ran"))
     /\ UNCHANGED <<mode, next_hop, promoted, kv, gateway, injected, lost, others>>

-----------------------------------------------------------------------------
(* The pushes. *)

\* record_kv.
record_kv(r, s, j, col) ==
  IF mode = "replicate" THEN store(cache, r, s, j, col)
  ELSE xor_in(cache, r, s, j, col, _parity_coeff(s), K)

\* record_mirror: the first input of a position stays.
Deliver(d) ==
  LET p == Head(pushes[d])
  IN /\ pushes[d] # << >>
     /\ pushes' = [pushes EXCEPT ![d] = Tail(@)]
     /\ IF p.kind = "kv"
        THEN /\ cache' = record_kv(Subject, p.stage, p.at, p.col)
             /\ UNCHANGED history
        ELSE /\ history' = [history EXCEPT ![p.stage][p.at] =
                              IF @ # "none" THEN @ ELSE IF p.good THEN "good" ELSE "bad"]
             /\ UNCHANGED cache
     /\ UNCHANGED <<mode, crashed, next_hop, promoted, kv, dead, plan, chain, job, bounds>>

\* A push that fails is not repeated.
Lose(d) ==
  /\ pushes[d] # << >> /\ lost < Bounds[mode].lost /\ MoreTrouble
  /\ pushes' = [pushes EXCEPT ![d] = Tail(@)]
  /\ lost' = lost + 1
  /\ UNCHANGED <<mode, crashed, next_hop, promoted, kv, gateway, chain, injected, others, late>>

\* A column of a request that is not followed.
OtherPush(r, s) ==
  /\ others < Bounds[mode].others /\ MoreTrouble /\ s = 2 + others
  /\ cache' = record_kv(r, s, 0, Col(r, s, 0))
  /\ others' = others + 1
  /\ UNCHANGED <<mode, crashed, workers, dead, plan, history, chain, job, injected, lost, late>>

-----------------------------------------------------------------------------
(* The gateway thread. *)

\* mark_dead keeps the plan when it raises NoRecoveryError.
MarkDead(d) ==
  /\ dead' = dead \cup {d}
  /\ plan' = IF Viable(Placement, Recovery, dead')
             THEN build_execution_plan(Placement, Recovery, dead') ELSE plan

\* The failure detector reports a crash.
OnFailure(d) ==
  /\ d \in crashed \ dead
  /\ MarkDead(d)
  /\ UNCHANGED <<mode, crashed, workers, cache, history, chain, job, bounds>>

Invoke(s, good) ==
  Reach("call", [Idle EXCEPT !.st = "arrived", !.stage = s, !.from = s, !.dev = plan[s],
                             !.at = job.pos, !.good = good])

Local == <<mode, crashed, workers, dead, plan, cache, history, bounds>>

Step ==
  /\ job.pc = "step"
  /\ Invoke(1, TRUE)
  /\ job' = [job EXCEPT !.pc = "wait"]
  /\ UNCHANGED <<mode, crashed, next_hop, promoted, kv, dead, plan, cache, history, bounds>>

StepDone ==
  /\ job.pc = "wait" /\ chain["call"].st = "ok"
  /\ job' = [NoJob EXCEPT !.pc = IF job.pos + 1 = MaxTokens THEN "done" ELSE "step",
                          !.pos = IF job.pos + 1 = MaxTokens THEN @ ELSE job.pos + 1,
                          !.wrong = job.wrong \/ ~chain["call"].good]
  /\ chain' = [chain EXCEPT !["call"] = Idle]
  /\ UNCHANGED Local

\* The attempt ends here: _recover_surgical takes over, or generate raises.
Over(why) == [NoJob EXCEPT !.pc = why, !.pos = job.pos, !.wrong = job.wrong]

DeadNonHead == {s \in NonHead : Placement[s] \in dead}

\* Where a mode starts: at the survivors' caches, or at the slots of the replica.
Rebuilding(victims) ==
  CASE mode = "replicate" -> [job EXCEPT !.pc = "gate", !.victims = victims,
                                         !.n = Before(job.pos), !.k = 0]
    [] mode # "replicate" /\ NonHead = ToSet(victims) -> Over("surgical")
    [] OTHER -> [job EXCEPT !.pc = "fetch", !.victims = victims,
                            !.got = [s \in NonHead \ ToSet(victims) |-> << >>]]

\* _recover_parity with k = 2: the dead set is trusted before the trailer.
TwoDead ==
  /\ job.pc = "wait" /\ chain["call"].st = "error"
  /\ mode = "raid6" /\ Cardinality(DeadNonHead) > 1
  /\ job' = IF Cardinality(DeadNonHead) = 2 THEN Rebuilding(<<Min(DeadNonHead), Max(DeadNonHead)>>)
            ELSE Over("surgical")
  /\ chain' = [chain EXCEPT !["call"] = Idle]
  /\ UNCHANGED Local

\* _attribute_chain_failure, and the mark; NoRecoveryError ends the request.
OneDead ==
  LET s == chain["call"].blame
      d == Placement[s]
  IN /\ job.pc = "wait" /\ chain["call"].st = "error"
     /\ ~(mode = "raid6" /\ Cardinality(DeadNonHead) > 1)
     /\ IF d \in dead THEN UNCHANGED <<dead, plan>> ELSE MarkDead(d)
     /\ job' = IF d \notin dead /\ ~Viable(Placement, Recovery, dead \cup {d})
               THEN Over("failed") ELSE Rebuilding(<<s>>)
     /\ chain' = [chain EXCEPT !["call"] = Idle]
     /\ UNCHANGED <<mode, crashed, workers, cache, history, bounds>>

\* export_kv: layer after layer, each with all of its slots.
export_kv(s) ==
  LET n == Len(kv[s])
  IN [i \in 1..(LayersOf[s] * n) |-> kv[s][((i - 1) % n) + 1][((i - 1) \div n) + 1]]

\* The column of a slot in such a buffer of n slots.
SlotOf(s, buf, n, j) == [l \in 1..LayersOf[s] |-> buf[(l - 1) * n + j]]

\* Bytes of a slot of the stage.
_kv_dims(s) == LayersOf[s]

Count(s) == Len(job.got[s]) \div _kv_dims(s)

\* The worker answers with its whole cache, whatever position was asked for, and
\* raises when it has none.
FetchKV(d, s) == IF Serves(d, s) THEN export_kv(s) ELSE << >>

\* From whoever serves the stage by the plan.
_fetch_stage_kv(s) == FetchKV(plan[s], s)

\* One survivor after another; a failure leaves all as it was.
Fetch ==
  LET todo == {s \in DOMAIN job.got : job.got[s] = << >>}
      s == Min(todo)
  IN /\ job.pc = "fetch" /\ todo # {}
     /\ job' = IF _fetch_stage_kv(s) # << >>
               THEN [job EXCEPT !.got[s] = _fetch_stage_kv(s)] ELSE Over("surgical")
     /\ UNCHANGED <<Local, chain>>

\* Survivors in front of the dead stage are one slot ahead; what all of them
\* share is what it held.
Geometry ==
  LET counts == {Count(s) : s \in DOMAIN job.got}
  IN /\ job.pc = "fetch" /\ \A s \in DOMAIN job.got : job.got[s] # << >>
     /\ job' = IF Max(counts) - Min(counts) > 1 \/ Min(counts) = 0 THEN Over("surgical")
               ELSE [job EXCEPT !.pc = "gate", !.n = Min(counts), !.k = 0]
     /\ UNCHANGED <<Local, chain>>

\* Variant: a slot with a missing contributor passes.
ParityGate_lax ==
  /\ job.pc = "gate" /\ mode # "replicate"
  /\ job' = IF ~Holds(cache, Subject, job.k) THEN Over("surgical")
            ELSE IF job.k + 1 < job.n THEN [job EXCEPT !.k = @ + 1]
            ELSE [job EXCEPT !.pc = "history"]
  /\ UNCHANGED <<Local, chain>>

\* The completeness of one slot after another; other pushes come in between.
ParityGate ==
  /\ job.pc = "gate" /\ mode # "replicate"
  /\ job' = IF ~parity_is_complete(cache, Subject, job.k, num_stages) THEN Over("surgical")
            ELSE IF job.k + 1 < job.n THEN [job EXCEPT !.k = @ + 1]
            ELSE [job EXCEPT !.pc = "history"]
  /\ UNCHANGED <<Local, chain>>

Victim == job.victims[1]   \* the one furthest up the chain

ReplicaGate ==
  /\ job.pc = "gate" /\ mode = "replicate"
  /\ job' = IF job.n < 1 \/ ~replica_is_complete(cache, Subject, Victim, job.n - 1)
            THEN Over("surgical") ELSE [job EXCEPT !.pc = "read"]
  /\ UNCHANGED <<Local, chain>>

ReadReplica ==
  /\ job.pc = "read"
  /\ job' = IF StoredSlots(cache, Subject, Victim) = {} THEN Over("surgical")
            ELSE [job EXCEPT !.pc = "history", !.got = get_stage_kv(cache, Subject, Victim)]
  /\ UNCHANGED <<Local, chain>>

HistoryLen(s) == Cardinality({p \in Position : \A q \in 0..p : history[s][q] # "none"})

\* The input of the failed position is there, and the replica has its size.
History ==
  /\ job.pc = "history"
  /\ job' = IF \/ HistoryLen(Victim) <= job.pos
               \/ mode = "replicate" /\ Len(job.got) # job.n * _kv_dims(Victim)
            THEN Over("surgical")
            ELSE [job EXCEPT !.pc = "promote", !.k = 1]
  /\ UNCHANGED <<Local, chain>>

\* Its handler; again, it changes nothing.
PromoteBackup(s) ==
  /\ promoted' = promoted \cup {s}
  /\ kv' = IF s \in promoted THEN kv ELSE [kv EXCEPT ![s] = << >>]

\* One victim after another.  A missing entry raises, a backup that is gone is an
\* RpcError.
Promote ==
  LET s == job.victims[job.k]
      b == Recovery[Placement[s]]
  IN /\ job.pc = "promote" /\ job.k <= Len(job.victims)
     /\ IF b = NoDevice \/ b \in crashed
        THEN /\ job' = Over("failed")
             /\ UNCHANGED <<promoted, kv>>
        ELSE /\ job' = [job EXCEPT !.k = @ + 1, !.held = Append(@, kv[s])]
             /\ PromoteBackup(s)
     /\ UNCHANGED <<mode, crashed, next_hop, pushes, dead, plan, cache, history, chain, bounds>>

\* _rewire_chain, here in one step.
Rewire ==
  /\ job.pc = "promote" /\ job.k > Len(job.victims)
  /\ next_hop' = plan
  /\ job' = [job EXCEPT !.pc = "rebuild", !.k = 1,
                        !.recon = [v \in DOMAIN job.victims |-> << >>]]
  /\ UNCHANGED <<mode, crashed, promoted, kv, pushes, dead, plan, cache, history, chain, bounds>>

\* What the survivors contributed to a slot, and their weighted contribution.
Survivors == DOMAIN job.got
SurvivorCol(s, j) == SlotOf(s, job.got[s], Count(s), j)
SumColumns(part) == FoldFunction(XorColumns, << >>, part)

Sliced(s, col) == [l \in 1..LayersOf[s] |-> IF l <= Len(col) THEN col[l] ELSE 0]

\* _xor_reconstruct_kv, _gf_reconstruct_kv: the lost columns of one slot.
Lost(entry, j) ==
  LET p == XorColumns(entry.parity, SumColumns([s \in Survivors |-> SurvivorCol(s, j)]))
      q == XorColumns(entry.q_parity,
             SumColumns([s \in Survivors |->
               gf_mul_scalar(gf_pow(_parity_coeff(s)), SurvivorCol(s, j))]))
  IN IF Len(job.victims) = 1 THEN <<p>>
     ELSE solve_two_erasures(p, q, _parity_coeff(job.victims[1]), _parity_coeff(job.victims[2]))

\* A slot that has been evicted since the gate raises.
Reconstruct ==
  LET j == job.k - 1
  IN /\ job.pc = "rebuild" /\ mode # "replicate" /\ job.k <= job.n
     /\ job' = IF ~Holds(cache, Subject, j) THEN Over("failed")
               ELSE LET cols == Lost(cache.items[Subject][j], job.k)
                    IN [job EXCEPT !.k = @ + 1,
                          !.recon = [v \in DOMAIN job.victims |->
                             Append(@[v], Sliced(job.victims[v], cols[v]))]]
     /\ UNCHANGED <<Local, chain>>

\* The stored columns, one per slot.
TakeReplica ==
  LET size == _kv_dims(Victim)
  IN /\ job.pc = "rebuild" /\ mode = "replicate" /\ job.k <= job.n
     /\ job' = [job EXCEPT !.k = job.n + 1,
                  !.recon = <<[j \in 1..job.n |-> SubSeq(job.got, (j - 1) * size + 1, j * size)]>>]
     /\ UNCHANGED <<Local, chain>>

StartLoad ==
  /\ job.pc = "rebuild" /\ job.k > job.n
  /\ job' = [job EXCEPT !.pc = "load", !.k = 1, !.got = << >>]
  /\ UNCHANGED <<Local, chain>>

\* _slot_major_to_layer_major, the layout of export_kv.
LayerMajor(s, cols) ==
  LET n == Len(cols)
  IN [i \in 1..(LayersOf[s] * n) |-> cols[((i - 1) % n) + 1][((i - 1) \div n) + 1]]

\* install_kv replaces whatever cache there is.
install_kv(s, buf, n) == [kv EXCEPT ![s] = [j \in 1..n |-> SlotOf(s, buf, n, j)]]

LoadKV(s, buf, n) == kv' = install_kv(s, buf, n)

Load ==
  LET s == job.victims[job.k]
  IN /\ job.pc = "load" /\ job.k <= Len(job.victims)
     /\ IF Serves(plan[s], s)
        THEN /\ LoadKV(s, LayerMajor(s, job.recon[job.k]), job.n)
             /\ job' = [job EXCEPT !.k = @ + 1]
        ELSE /\ job' = Over("failed")
             /\ UNCHANGED kv
     /\ UNCHANGED <<mode, crashed, next_hop, promoted, pushes, dead, plan, cache, history, chain, bounds>>

\* The failed position, from the mirrored input of the victim that comes first.
Live ==
  /\ job.pc = "load" /\ job.k > Len(job.victims)
  /\ Invoke(Victim, history[Victim][job.pos] = "good")
  /\ job' = [NoJob EXCEPT !.pc = "wait", !.pos = job.pos, !.wrong = job.wrong]
  /\ UNCHANGED <<mode, crashed, next_hop, promoted, kv, dead, plan, cache, history, bounds>>

Ended == job.pc \in {"done", "surgical", "failed"} \/ job.wrong

\* generate's finally, the replay of the recovery that takes over, or the first
\* wrong token; pushes that are still under way do not matter to this attempt any
\* more.
Finished == Ended /\ UNCHANGED vars

Chain == \E i \in DOMAIN chain : Run(i) \/ InjectFault(i) \/ Forward(i)

\* What each recovery has of its own, and what they share.
_recover_parity == OneDead \/ Fetch \/ Geometry \/ ParityGate \/ Reconstruct
_recover_parity_double == TwoDead
_recover_replicate == ReplicaGate \/ ReadReplica \/ TakeReplica

Recover ==
  \/ _recover_parity \/ _recover_parity_double \/ _recover_replicate
  \/ History \/ Promote \/ Rewire \/ StartLoad \/ Load \/ Live

Next ==
  \/ /\ ~Ended
     /\ \/ Step \/ StepDone \/ Recover \/ Chain
        \/ \E d \in Device : Deliver(d) \/ Lose(d) \/ Crash(d) \/ OnFailure(d)
        \/ \E r \in Request \ {Subject}, s \in NonHead : OtherPush(r, s)
  \/ Finished

Spec == Init /\ [][Next]_vars

-----------------------------------------------------------------------------
(* Properties. *)

TypeOK ==
  /\ mode \in DOMAIN Bounds /\ crashed \subseteq Crashable
  /\ LET marked == IF mode = "raid6" THEN pick_two_interior_victims ELSE {}
     IN Cardinality(dead \ (crashed \cup marked)) <= injected
  /\ plan \in [Stage -> Device] /\ next_hop \in [Stage -> Device]
  /\ promoted \subseteq NonHead
  /\ \A s \in Stage : \A i \in DOMAIN kv[s] : Len(kv[s][i]) = LayersOf[s] /\ i - 1 \in Slot
  /\ \A s \in Stage, p \in Position : history[s][p] \in {"none", "good", "bad"}
  /\ \A i \in DOMAIN chain :
       /\ chain[i].st \in {"idle", "arrived", "ran", "ok", "error"}
       /\ chain[i].stage \in Stage /\ chain[i].blame \in {0} \cup NonHead
  /\ job.pos \in Position /\ job.n \in Slot
  /\ job.pc \in {"step", "wait", "fetch", "gate", "read", "history", "promote",
                 "rebuild", "load", "done", "surgical", "failed"}

\* What a slot costs to keep, as the experiments account for it: every column
\* behind the head, or the widest one, once or twice.
replication_overhead ==
  LET biggest == Max({LayersOf[s] : s \in NonHead})
  IN [replicate |-> SumFunctionOnSet(LayersOf, NonHead),
      parity    |-> biggest,
      raid6     |-> 2 * biggest]

SlotBytes(r, j) ==
  IF mode = "replicate"
  THEN LET kept == {s \in NonHead : Holds(cache, r, <<s, j>>)}
       IN SumFunction([s \in kept |-> Len(cache.items[r][<<s, j>>])])
  ELSE Blobs(cache.items[r][j])

SlotsOf(r) == {IF mode = "replicate" THEN key[2] ELSE key : key \in DOMAIN cache.items[r]}

AllPushed(r, j) ==
  IF mode = "replicate" THEN \A s \in NonHead : Holds(cache, r, <<s, j>>)
  ELSE parity_is_complete(cache, r, j, num_stages)

\* The columns of some stages in one slot, added up, and added up by their weights.
Sums ==
  [r \in Request |-> [j \in Slot |-> [stages \in SUBSET NonHead |->
     SumColumns([s \in stages |-> Col(r, s, j)])]]]
WeightedSums ==
  [r \in Request |-> [j \in Slot |-> [stages \in SUBSET NonHead |->
     SumColumns([s \in stages |-> gf_mul_scalar(gf_pow(_parity_coeff(s)), Col(r, s, j))])]]]

\* The bytes counted are the bytes held (ParityCache's dedup, growth and eviction;
\* ReplicaCache's), within the budget unless one request is the only one.  A slot that
\* everyone has pushed costs what the experiments say it does, no slot more.
BytesCounted ==
  /\ cache.used = SumFunction(IF mode = "replicate" THEN ReplicaBytes(cache) ELSE ParityBytes(cache))
  /\ cache.used > max_bytes => Len(cache.order) = 1
  /\ \A r \in Request : \A j \in SlotsOf(r) :
       /\ SlotBytes(r, j) <= replication_overhead[mode]
       /\ AllPushed(r, j) => SlotBytes(r, j) = replication_overhead[mode]

\* A blob is the sum of the columns of its contributors, each of them in it once
\* and with its own weight, whatever order the pushes came in, and however the
\* blob grew (xor_in); and its bytes are counted.
FoldedOnce ==
  /\ BytesCounted
  /\ ~late /\ mode # "replicate" =>
       \A r \in Request : \A j \in DOMAIN cache.items[r] :
         LET e == cache.items[r][j]
         IN /\ e.parity = Sums[r][j][e.contributors]
            /\ K = 2 => e.q_parity = WeightedSums[r][j][e.contributors]

\* What is loaded into a backup is what the dead worker held, slot by slot:
\* whatever pushes were lost or late, whatever the other request made the cache
\* evict, and whichever of the stages were one position ahead ("never emits a
\* wrong token", _recover_parity and _recover_replicate).
LoadsWhatWasLost ==
  job.pc = "load" =>
    \A v \in DOMAIN job.victims : IsPrefix(job.recon[v], job.held[v])

\* No token is wrong unless a worker died after it had handed its position on:
\* its successors have run, or its own column is in the parity, and the failed
\* position is run a second time over caches that hold it.  That is for chains in
\* which no two victims have a survivor between them and another behind them:
\* the one between them has run the failed position, and _recover_parity_double
\* enters the chain in front of it.
NoWrongToken == job.wrong => late
=============================================================================
