--------------------------- MODULE AsyncChainProofs ---------------------------
(***************************************************************************)
(* Proofs about AsyncChain, for every fleet, placement, recovery table and *)
(* request, any number of crashes, lost results and hasty timeouts:        *)
(*   - the type invariant;                                                 *)
(*   - two handlers share a KV cache only after a hasty timeout and an     *)
(*     eviction that dropped the lock of one of them;                      *)
(*   - the tokens are right before the first hasty timeout (below).        *)
(***************************************************************************)
EXTENDS AsyncChain, CommonLemmas

-----------------------------------------------------------------------------
(* What TypeOK needs in order to be inductive. *)

CacheLen == 0..MaxTokens \cup {Bad}

HandlerType ==
  [call : Nat, at : Position, good : BOOLEAN, dev : Device, stage : Stage,
   hop : MaybeDevice, open : BOOLEAN, lock : Nat, st : {"entered", "running"},
   len : CacheLen, attached : BOOLEAN]

ForwardType ==
  [call : Nat, at : Position, good : BOOLEAN, dev : Device, stage : Stage, from : Device]

ResultType == [call : Nat, at : Position, good : BOOLEAN, from : Device]

PendingType == [on : BOOLEAN, at : Position, answer : {None, "good", "bad"}]

JobType ==
  [pc : {"step", "call", "wait", "error", "promoted", "rewire", "evict", "replay",
         "done", "failed"},
   pos : 0..MaxTokens, at : Position, call : Nat, head : MaybeDevice, i : Nat,
   rplan : {<< >>} \cup [Stage -> Device], todo : SUBSET Device,
   then : {"step", "replay", "done", "failed"}, wrong : BOOLEAN]

Calling == job.pc \in {"call", "wait"}

\* The request has a token left to produce.
Unfinished == job.pc # "done" /\ (job.pc = "evict" => job.then # "done")

\* A handler names a lock its worker has made; the tail has no next hop.
HandlerPlace(h) ==
  /\ h.dev \notin crashed /\ h.lock \in 1..locks[h.dev]
  /\ h.stage = N => h.hop = NoDevice

WorkerType ==
  /\ crashed \subseteq Device
  /\ next_hop \in [Device -> [Stage -> MaybeDevice]]
  /\ \A d \in Device : next_hop[d][N] = NoDevice
  /\ kv \in [Device -> [Stage -> CacheLen]]
  /\ lock \in [Device -> Nat] /\ locks \in [Device -> Nat]
  /\ \A d \in Device : lock[d] <= locks[d]
  /\ handlers \subseteq HandlerType /\ forwards \subseteq ForwardType
  /\ results \subseteq ResultType
  /\ \A h \in handlers : HandlerPlace(h)
  /\ hasty \in Nat

\* Where the request's thread may be with which of its variables.
JobPlace ==
  /\ Calling => pending.at = job.at
  /\ Calling => IF job.i > 0 THEN job.at = job.i - 1 ELSE job.at = job.pos
  /\ Unfinished => job.pos < MaxTokens
  /\ job.pc \in {"call", "wait", "error"} => job.head \in Device
  /\ job.pc = "replay" => job.i > 0 /\ (job.i > 1 => job.head \in Device)
  /\ Calling \/ job.pc = "replay" => job.i <= job.pos + 1
  /\ job.pc \in {"step", "promoted"} => job.i = 0
  /\ job.pc = "rewire" => job.i \in Stage /\ job.rplan \in [Stage -> Device]
  /\ job.pc = "evict" => job.todo # {} /\ job.then # "step"

GatewayType ==
  /\ dead \subseteq Device /\ plan \in [Stage -> Device]
  /\ pending \in PendingType /\ (pending.on <=> Calling)
  /\ job \in JobType
  /\ JobPlace

TypeInv == WorkerType /\ GatewayType

-----------------------------------------------------------------------------
(* The constants. *)

LEMMA Shape ==
  /\ N \in Nat /\ N > 1 /\ 1 \in Stage /\ N \in Stage
  /\ Placement \in Placements /\ Placement \in [Stage -> Device]
  /\ Recovery \in RecoveryTable /\ NoDevice \notin Device
  /\ MaxTokens \in Nat /\ MaxTokens > 0 /\ 0 \in Position
<1>1. Placement \in Seq(Device) /\ Len(Placement) > 1
  BY AsyncAssumption DEF Placements
<1>2. Placement \in [1..Len(Placement) -> Device] /\ Len(Placement) \in Nat
  BY <1>1
<1>3. 1 \in 1..Len(Placement) /\ Len(Placement) \in 1..Len(Placement)
  BY <1>1, <1>2
<1>4. MaxTokens \in Nat /\ MaxTokens > 0 /\ 0 \in Position
  BY AsyncAssumption DEF Position
<1> QED
  BY <1>1, <1>2, <1>3, <1>4, AsyncAssumption, NoDeviceIsNoDevice DEF N, Stage

\* A run leaves a cache length.
LEMMA AdvanceType ==
  ASSUME NEW len, NEW p \in Position, NEW good \in BOOLEAN
  PROVE  /\ Advance(len, p, good) \in CacheLen
         /\ Advance(len, p, good) # Bad <=> good /\ len = p
         /\ good /\ len = p => Advance(len, p, good) = p + 1
<1>1. p + 1 \in 0..MaxTokens /\ p + 1 # Bad
  BY Shape DEF Position, Bad
<1> QED
  BY <1>1 DEF Advance, CacheLen

\* The plan stays a plan whoever is marked.
LEMMA MarkType ==
  ASSUME GatewayType, NEW d \in Device, MarkDead(d)
  PROVE  dead' \subseteq Device /\ plan' \in [Stage -> Device]
<1>1. dead' = dead \cup {d}
  BY DEF MarkDead
<1>2. CASE Viable(Placement, Recovery, dead')
  BY <1>1, <1>2, Shape, ViablePlanStages DEF MarkDead, GatewayType, Stage, N
<1>3. CASE ~Viable(Placement, Recovery, dead')
  BY <1>1, <1>3 DEF MarkDead, GatewayType
<1> QED
  BY <1>2, <1>3

LEMMA InitType == Init => TypeInv
<1> SUFFICES ASSUME Init PROVE TypeInv
  OBVIOUS
<1>1. plan \in [Stage -> Device]
  BY Shape, NobodyDead, ViablePlanStages DEF Init, Stage, N
<1>2. WorkerType
  <2>1. next_hop \in [Device -> [Stage -> MaybeDevice]]
    <3>1. \A s \in Stage : s < N => s + 1 \in Stage
      BY Shape DEF Stage
    <3> QED
      BY <3>1, Shape DEF Init, MaybeDevice
  <2>2. \A d \in Device : next_hop[d][N] = NoDevice
    <3>1. ~(N < N)
      BY Shape
    <3> QED
      BY <3>1, Shape DEF Init
  <2>3. 0 \in CacheLen
    BY Shape DEF CacheLen
  <2>4. kv \in [Device -> [Stage -> CacheLen]] /\ lock \in [Device -> Nat] /\ locks \in [Device -> Nat]
        /\ \A d \in Device : lock[d] <= locks[d]
    BY <2>3 DEF Init
  <2> QED
    BY <2>1, <2>2, <2>4 DEF Init, WorkerType
<1>3. GatewayType
  <2>1. pending \in PendingType /\ pending.on = FALSE
    BY Shape DEF Init, NoPending, PendingType
  <2>2. job \in JobType /\ job.pc = "step" /\ job.i = 0 /\ job.pos = 0
    BY Shape DEF Init, JobType, MaybeDevice
  <2>3. JobPlace
    BY <2>2, Shape DEF JobPlace, Calling, Unfinished
  <2>4. pending.on <=> Calling
    BY <2>1, <2>2 DEF Calling
  <2> QED
    BY <1>1, <2>1, <2>2, <2>3, <2>4 DEF Init, GatewayType
<1> QED
  BY <1>2, <1>3 DEF TypeInv

-----------------------------------------------------------------------------
(* Types: the steps of the workers. *)

LEMMA GatewayFrame ==
  ASSUME GatewayType, UNCHANGED gateway
  PROVE  GatewayType'
  BY DEF GatewayType, JobPlace, Calling, Unfinished, gateway

\* RunStage is entered: the request has a lock then, and nobody lost his.
LEMMA EnterType ==
  ASSUME WorkerType, UNCHANGED <<crashed, next_hop>>, NEW m, Enter(m),
         m.call \in Nat, m.at \in Position, m.good \in BOOLEAN,
         m.dev \in Device \ crashed, m.stage \in Stage
  PROVE  /\ handlers' \subseteq HandlerType
         /\ lock' \in [Device -> Nat] /\ locks' \in [Device -> Nat]
         /\ \A d \in Device : lock'[d] <= locks'[d]
         /\ \A h \in handlers' : HandlerPlace(h)'
<1> DEFINE d == m.dev
           g == IF lock[d] = 0 THEN locks[d] + 1 ELSE lock[d]
<1>1. /\ handlers' = handlers \cup {Handler(m, g)}
      /\ lock' = [lock EXCEPT ![d] = g]
      /\ locks' = [locks EXCEPT ![d] = IF g > @ THEN g ELSE @]
  BY DEF Enter
<1>2. /\ lock \in [Device -> Nat] /\ locks \in [Device -> Nat]
      /\ \A e \in Device : lock[e] <= locks[e]
      /\ next_hop \in [Device -> [Stage -> MaybeDevice]] /\ next_hop[d][N] = NoDevice
  BY DEF WorkerType
<1>3. g \in Nat /\ g > 0 /\ lock[d] \in Nat /\ locks[d] \in Nat /\ d \in Device
  BY <1>2
<1>4. /\ locks'[d] \in Nat /\ g <= locks'[d] /\ locks[d] <= locks'[d]
      /\ \A e \in Device : e # d => locks'[e] = locks[e]
  BY <1>1, <1>2, <1>3
<1>5. lock' \in [Device -> Nat] /\ locks' \in [Device -> Nat] /\ \A e \in Device : lock'[e] <= locks'[e]
  BY <1>1, <1>2, <1>3, <1>4
<1>6. 0 \in CacheLen
  BY Shape DEF CacheLen
<1>7. Handler(m, g) \in HandlerType
  BY <1>2, <1>3, <1>6 DEF Handler, HandlerType
<1>8. handlers' \subseteq HandlerType
  BY <1>1, <1>7 DEF WorkerType
<1>9. ASSUME NEW h \in handlers'
      PROVE  HandlerPlace(h)'
  <2>1. CASE h = Handler(m, g)
    <3>1. h.dev = d /\ h.lock = g /\ h.stage = m.stage /\ h.hop = next_hop[d][m.stage]
      BY <2>1 DEF Handler
    <3>2. h.lock \in 1..locks'[h.dev]
      BY <1>3, <1>4, <3>1
    <3> QED
      BY <1>2, <3>1, <3>2 DEF HandlerPlace
  <2>2. CASE h \in handlers
    <3>1. HandlerPlace(h) /\ h.dev \in Device
      BY <2>2 DEF WorkerType, HandlerType
    <3>2. h.lock \in 1..locks'[h.dev]
      BY <1>2, <1>3, <1>4, <3>1 DEF HandlerPlace
    <3> QED
      BY <3>1, <3>2 DEF HandlerPlace
  <2> QED
    BY <1>1, <2>1, <2>2
<1> QED
  BY <1>5, <1>8, <1>9

LEMMA ForwardStepType ==
  ASSUME TypeInv, NEW m \in forwards, ForwardArrives(m) \/ ForwardFails(m)
  PROVE  TypeInv'
<1>1. GatewayType'
  BY GatewayFrame DEF TypeInv, ForwardArrives, ForwardFails
<1>2. m \in ForwardType
  BY DEF TypeInv, WorkerType
<1>3. CASE ForwardArrives(m)
  <2>1. /\ Enter(m) /\ m.dev \notin crashed /\ forwards' = forwards \ {m}
        /\ UNCHANGED <<crashed, next_hop, kv, results, hasty>>
    BY <1>3 DEF ForwardArrives
  <2>2. /\ m.call \in Nat /\ m.at \in Position /\ m.good \in BOOLEAN
        /\ m.dev \in Device \ crashed /\ m.stage \in Stage
    BY <1>2, <2>1 DEF ForwardType
  <2>3. /\ handlers' \subseteq HandlerType
        /\ lock' \in [Device -> Nat] /\ locks' \in [Device -> Nat]
        /\ \A d \in Device : lock'[d] <= locks'[d]
        /\ \A h \in handlers' : HandlerPlace(h)'
    BY <2>1, <2>2, EnterType DEF TypeInv
  <2>4. WorkerType'
    BY <2>1, <2>3 DEF TypeInv, WorkerType
  <2> QED
    BY <1>1, <2>4 DEF TypeInv
<1>4. CASE ForwardFails(m)
  <2>1. WorkerType'
    BY <1>4 DEF TypeInv, WorkerType, ForwardFails, HandlerPlace
  <2> QED
    BY <1>1, <2>1 DEF TypeInv
<1> QED
  BY <1>3, <1>4

\* Detaching changes nothing but attached.
LEMMA DetachKeeps ==
  ASSUME NEW hs \in SUBSET HandlerType, NEW d, NEW s, NEW h \in Detach(hs, d, s)
  PROVE  /\ h \in HandlerType
         /\ \E g \in hs : /\ h.call = g.call /\ h.at = g.at /\ h.good = g.good
                          /\ h.dev = g.dev /\ h.stage = g.stage /\ h.hop = g.hop
                          /\ h.lock = g.lock /\ h.st = g.st /\ h.len = g.len
                          /\ h.attached = (g.attached /\ ~(g.dev = d /\ g.stage = s))
<1>1. PICK g \in hs : h = IF g.dev = d /\ g.stage = s THEN [g EXCEPT !.attached = FALSE] ELSE g
  BY DEF Detach
<1>2. g \in HandlerType
  OBVIOUS
<1>3. CASE g.dev = d /\ g.stage = s
  BY <1>1, <1>2, <1>3 DEF HandlerType
<1>4. CASE ~(g.dev = d /\ g.stage = s)
  BY <1>1, <1>2, <1>4 DEF HandlerType
<1> QED
  BY <1>3, <1>4

\* What a handler is once it runs.
Started(h) ==
  [h EXCEPT !.st = "running", !.attached = TRUE,
            !.len = IF h.at = 0 THEN 0 ELSE kv[h.dev][h.stage]]

LEMMA StartedFields ==
  ASSUME WorkerType, NEW h \in handlers
  PROVE  /\ Started(h) \in HandlerType
         /\ Started(h).call = h.call /\ Started(h).at = h.at /\ Started(h).good = h.good
         /\ Started(h).dev = h.dev /\ Started(h).stage = h.stage /\ Started(h).hop = h.hop
         /\ Started(h).lock = h.lock /\ Started(h).st = "running" /\ Started(h).attached
         /\ Started(h).len = IF h.at = 0 THEN 0 ELSE kv[h.dev][h.stage]
<1>1. h \in HandlerType /\ kv[h.dev][h.stage] \in CacheLen
  BY DEF WorkerType, HandlerType
<1>2. 0 \in CacheLen
  BY Shape DEF CacheLen
<1> QED
  BY <1>1, <1>2 DEF Started, HandlerType

\* Every handler after a Run was one before it, at the same place.
LEMMA RunKeeps ==
  ASSUME WorkerType, NEW h \in handlers, Run(h), NEW k \in handlers'
  PROVE  /\ k \in HandlerType
         /\ k = Started(h) \/
            \E g \in handlers : /\ g # h
                                /\ k.call = g.call /\ k.at = g.at /\ k.good = g.good
                                /\ k.dev = g.dev /\ k.stage = g.stage /\ k.hop = g.hop
                                /\ k.lock = g.lock /\ k.st = g.st /\ k.len = g.len
                                /\ k.attached => g.attached
<1> DEFINE others == IF h.at = 0 THEN Detach(handlers \ {h}, h.dev, h.stage)
                     ELSE handlers \ {h}
<1>1. handlers' = others \cup {Started(h)}
  BY DEF Run, Started
<1>2. handlers \ {h} \in SUBSET HandlerType
  BY DEF WorkerType
<1>3. CASE k = Started(h)
  BY <1>3, StartedFields
<1>4. CASE k \in handlers \ {h}
  BY <1>2, <1>4
<1>5. CASE k \in Detach(handlers \ {h}, h.dev, h.stage)
  <2>1. PICK g \in handlers \ {h} :
          /\ k.call = g.call /\ k.at = g.at /\ k.good = g.good
          /\ k.dev = g.dev /\ k.stage = g.stage /\ k.hop = g.hop
          /\ k.lock = g.lock /\ k.st = g.st /\ k.len = g.len
          /\ k.attached = (g.attached /\ ~(g.dev = h.dev /\ g.stage = h.stage))
    BY <1>2, <1>5, DetachKeeps
  <2>2. k \in HandlerType
    BY <1>2, <1>5, DetachKeeps
  <2>3. k.attached => g.attached
    BY <2>1
  <2> QED
    BY <2>1, <2>2, <2>3
<1> QED
  BY <1>1, <1>3, <1>4, <1>5

LEMMA RunType ==
  ASSUME TypeInv, NEW h \in handlers, Run(h)
  PROVE  TypeInv'
<1>1. GatewayType'
  BY GatewayFrame DEF TypeInv, Run
<1>2. UNCHANGED <<crashed, next_hop, lock, locks, forwards, results, hasty>> /\ WorkerType
  BY DEF Run, TypeInv
<1>3. kv' \in [Device -> [Stage -> CacheLen]]
  <2>1. 0 \in CacheLen
    BY Shape DEF CacheLen
  <2>2. kv' = kv \/ kv' = [kv EXCEPT ![h.dev][h.stage] = 0]
    BY DEF Run
  <2>3. h.dev \in Device /\ h.stage \in Stage /\ kv \in [Device -> [Stage -> CacheLen]]
    BY <1>2 DEF WorkerType, HandlerType
  <2> QED
    BY <2>1, <2>2, <2>3
<1>4. ASSUME NEW k \in handlers'
      PROVE  k \in HandlerType /\ HandlerPlace(k)'
  <2>1. k \in HandlerType /\ \E g \in handlers : k.dev = g.dev /\ k.stage = g.stage /\ k.hop = g.hop
                                                 /\ k.lock = g.lock
    BY <1>2, <1>4, RunKeeps, StartedFields
  <2> QED
    BY <1>2, <2>1 DEF WorkerType, HandlerPlace
<1>5. WorkerType'
  BY <1>2, <1>3, <1>4 DEF WorkerType
<1> QED
  BY <1>1, <1>5 DEF TypeInv

\* A handler hands its activation on, to a stage that exists.
LEMMA FinishType ==
  ASSUME TypeInv, NEW h \in handlers, Finish(h)
  PROVE  TypeInv'
<1> DEFINE len == Advance(h.len, h.at, h.good)
           good == len # Bad
<1>1. /\ handlers' = handlers \ {h}
      /\ kv' = IF h.attached THEN [kv EXCEPT ![h.dev][h.stage] = len] ELSE kv
      /\ IF h.hop = NoDevice
         THEN /\ results' = results \cup
                   {[call |-> h.call, at |-> h.at, good |-> good /\ h.stage = N, from |-> h.dev]}
              /\ forwards' = forwards
         ELSE /\ forwards' = IF ~h.open THEN forwards ELSE forwards \cup
                   {Message(h.call, h.at, good, h.hop, h.stage + 1, h.dev)}
              /\ results' = results
      /\ job' = IF job.pc = "call" /\ job.call = h.call /\ h.stage = 1
                THEN [job EXCEPT !.pc = "wait"] ELSE job
      /\ UNCHANGED <<crashed, dead, plan, pending, next_hop, lock, locks, hasty>>
  BY DEF Finish
<1>2. h \in HandlerType /\ WorkerType /\ GatewayType /\ HandlerPlace(h)
  BY DEF TypeInv, WorkerType
<1>3. /\ h.call \in Nat /\ h.at \in Position /\ h.good \in BOOLEAN /\ h.dev \in Device
      /\ h.stage \in Stage /\ h.hop \in MaybeDevice
  BY <1>2 DEF HandlerType
<1>4. len \in CacheLen
  BY <1>3, AdvanceType
<1>5. kv' \in [Device -> [Stage -> CacheLen]]
  BY <1>1, <1>2, <1>3, <1>4 DEF WorkerType
<1>6. h.hop # NoDevice => h.hop \in Device /\ h.stage + 1 \in Stage
  BY <1>2, <1>3, Shape DEF HandlerPlace, MaybeDevice, Stage
<1>7. forwards' \subseteq ForwardType
  <2>1. h.hop # NoDevice => Message(h.call, h.at, good, h.hop, h.stage + 1, h.dev) \in ForwardType
    BY <1>3, <1>6 DEF Message, ForwardType
  <2> QED
    BY <1>1, <1>2, <2>1 DEF WorkerType
<1>8. results' \subseteq ResultType
  <2>1. [call |-> h.call, at |-> h.at, good |-> good /\ h.stage = N, from |-> h.dev] \in ResultType
    BY <1>3 DEF ResultType
  <2> QED
    BY <1>1, <1>2, <2>1 DEF WorkerType
<1>9. WorkerType'
  BY <1>1, <1>2, <1>5, <1>7, <1>8 DEF WorkerType, HandlerPlace
<1>10. GatewayType'
  <2>1. CASE job' = job
    BY <1>1, <1>2, <2>1 DEF GatewayType, JobPlace, Calling, Unfinished
  <2>2. CASE job.pc = "call" /\ job' = [job EXCEPT !.pc = "wait"]
    <3>1. job \in JobType /\ JobPlace
      BY <1>2 DEF GatewayType
    <3>2. job' \in JobType /\ job'.pc = "wait"
      BY <2>2, <3>1 DEF JobType
    <3>3. /\ job'.pos = job.pos /\ job'.at = job.at /\ job'.i = job.i /\ job'.head = job.head
          /\ job'.then = job.then
      BY <2>2, <3>1 DEF JobType
    <3>4. JobPlace' /\ Calling /\ Calling'
      BY <1>1, <2>2, <3>1, <3>2, <3>3 DEF JobPlace, Calling, Unfinished
    <3> QED
      BY <1>1, <1>2, <3>2, <3>4 DEF GatewayType
  <2> QED
    BY <1>1, <2>1, <2>2
<1> QED
  BY <1>9, <1>10 DEF TypeInv

\* Crashes, results and heartbeats.
LEMMA CrashType ==
  ASSUME TypeInv, NEW d \in Device, Crash(d)
  PROVE  TypeInv'
<1>1. GatewayType'
  BY GatewayFrame DEF TypeInv, Crash
<1>2. WorkerType'
  BY DEF TypeInv, WorkerType, Crash, HandlerPlace
<1> QED
  BY <1>1, <1>2 DEF TypeInv

LEMMA ResultStepType ==
  ASSUME TypeInv, NEW m \in results, ResultReady(m) \/ ResultLost(m)
  PROVE  TypeInv'
<1>1. WorkerType'
  BY DEF TypeInv, WorkerType, ResultReady, ResultLost, workers, HandlerPlace
<1>2. CASE ResultReady(m)
  <2>1. UNCHANGED <<dead, plan, job>> /\ record_result(m.at, m.good)
    BY <1>2 DEF ResultReady
  <2>2. pending \in PendingType
    BY DEF TypeInv, GatewayType
  <2>3. pending' \in PendingType /\ pending'.on = pending.on /\ pending'.at = pending.at
    BY <2>1, <2>2 DEF record_result, PendingType
  <2>4. GatewayType'
    BY <2>1, <2>3 DEF TypeInv, GatewayType, JobPlace, Calling, Unfinished
  <2> QED
    BY <1>1, <2>4 DEF TypeInv
<1>3. CASE ResultLost(m)
  BY <1>1, <1>3, GatewayFrame DEF TypeInv, ResultLost
<1> QED
  BY <1>2, <1>3

LEMMA OnFailureType ==
  ASSUME TypeInv, NEW d \in Device, OnFailure(d)
  PROVE  TypeInv'
<1>1. dead' \subseteq Device /\ plan' \in [Stage -> Device]
  BY MarkType DEF TypeInv, OnFailure
<1>2. WorkerType'
  BY DEF TypeInv, WorkerType, OnFailure, workers, HandlerPlace
<1>3. GatewayType'
  BY <1>1 DEF TypeInv, GatewayType, OnFailure, JobPlace, Calling, Unfinished
<1> QED
  BY <1>2, <1>3 DEF TypeInv

-----------------------------------------------------------------------------
(* Types: the steps of the request's thread. *)

\* A call: it is made, and a future waits, or its head is gone.
LEMMA InvokeType ==
  ASSUME TypeInv, NEW d \in Device, NEW p \in Position, Invoke(d, p, job),
         UNCHANGED <<crashed, dead, plan, next_hop, kv, forwards, results, hasty>>,
         ~Calling, job.pos < MaxTokens, job.i <= job.pos + 1,
         p = IF job.i > 0 THEN job.i - 1 ELSE job.pos
  PROVE  TypeInv'
<1> DEFINE m == Message(job.call + 1, p, TRUE, d, 1, NoDevice)
<1>1. WorkerType /\ GatewayType /\ job \in JobType
  BY DEF TypeInv, GatewayType
<1>2. /\ job.call + 1 \in Nat /\ job.pos \in 0..MaxTokens /\ job.i \in Nat
  BY <1>1 DEF JobType
<1>3. CASE d \in crashed
  <2>1. job' = [job EXCEPT !.pc = "error", !.head = d] /\ UNCHANGED <<pending, handlers, lock, locks>>
    BY <1>3 DEF Invoke
  <2>2. job' \in JobType /\ job'.pc = "error" /\ job'.head = d /\ job'.pos = job.pos
    BY <1>1, <2>1 DEF JobType, MaybeDevice
  <2>3. WorkerType'
    BY <1>1, <2>1 DEF WorkerType, HandlerPlace
  <2>4. ~Calling' /\ JobPlace' /\ Unfinished'
    BY <2>2 DEF JobPlace, Calling, Unfinished
  <2> QED
    BY <1>1, <2>1, <2>2, <2>3, <2>4 DEF TypeInv, GatewayType
<1>4. CASE d \notin crashed
  <2>1. /\ pending' = [on |-> TRUE, at |-> p, answer |-> None]
        /\ Enter(m)
        /\ job' = [job EXCEPT !.pc = "call", !.head = d, !.at = p, !.call = @ + 1]
    BY <1>4 DEF Invoke
  <2>2. /\ job' \in JobType /\ job'.pc = "call" /\ job'.head = d /\ job'.pos = job.pos
        /\ job'.at = p /\ job'.i = job.i
    BY <1>1, <1>2, <2>1 DEF JobType, MaybeDevice
  <2>3. pending' \in PendingType /\ pending'.on /\ pending'.at = p
    BY <2>1 DEF PendingType
  <2>4. Calling' /\ JobPlace'
    BY <2>2, <2>3 DEF JobPlace, Calling, Unfinished
  <2>5. /\ m.call \in Nat /\ m.at \in Position /\ m.good \in BOOLEAN
        /\ m.dev \in Device \ crashed /\ m.stage \in Stage
    BY <1>2, <1>4, Shape DEF Message
  <2>6. /\ handlers' \subseteq HandlerType
        /\ lock' \in [Device -> Nat] /\ locks' \in [Device -> Nat]
        /\ \A e \in Device : lock'[e] <= locks'[e]
        /\ \A h \in handlers' : HandlerPlace(h)'
    BY <1>1, <2>1, <2>5, EnterType
  <2>7. WorkerType'
    BY <1>1, <2>6 DEF WorkerType
  <2>8. GatewayType'
    BY <1>1, <2>2, <2>3, <2>4 DEF GatewayType
  <2> QED
    BY <2>7, <2>8 DEF TypeInv
<1> QED
  BY <1>3, <1>4

LEMMA StepType ==
  ASSUME TypeInv, Step
  PROVE  TypeInv'
<1>1. job.pc = "step" /\ job \in JobType /\ JobPlace /\ plan \in [Stage -> Device]
  BY DEF Step, TypeInv, GatewayType
<1>2. job.pos < MaxTokens /\ job.i = 0 /\ job.pos \in 0..MaxTokens
  BY <1>1 DEF JobPlace, Unfinished, JobType
<1>3. job.pos \in Position /\ job.i <= job.pos + 1 /\ plan[1] \in Device /\ ~Calling
  BY <1>1, <1>2, Shape DEF Position, Calling
<1> QED
  BY <1>2, <1>3, InvokeType DEF Step

LEMMA ReplayType ==
  ASSUME TypeInv, Replay
  PROVE  TypeInv'
<1> DEFINE d == IF job.i = 1 THEN plan[1] ELSE job.head
<1>1. job.pc = "replay" /\ job \in JobType /\ JobPlace /\ plan \in [Stage -> Device]
  BY DEF Replay, TypeInv, GatewayType
<1>2. /\ job.pos < MaxTokens /\ job.i > 0 /\ job.pos \in 0..MaxTokens /\ job.i \in Nat
      /\ job.i <= job.pos + 1 /\ (job.i > 1 => job.head \in Device)
  BY <1>1 DEF JobPlace, Unfinished, JobType
<1>3. job.i - 1 \in Position /\ d \in Device /\ ~Calling
  BY <1>1, <1>2, Shape DEF Position, Calling
<1> QED
  BY <1>2, <1>3, InvokeType DEF Replay

\* The evict loops start.
LEMMA StartEvictType ==
  ASSUME NEW j \in JobType, NEW then \in {"replay", "done", "failed"},
         job' = StartEvict(j, then), then # "done" => j.pos < MaxTokens
  PROVE  job' \in JobType /\ JobPlace' /\ ~Calling'
<1>1. job' = [j EXCEPT !.pc = "evict", !.todo = Device, !.then = then]
  BY DEF StartEvict
<1>2. Device # {}
  BY Shape
<1>3. /\ job' \in JobType /\ job'.pc = "evict" /\ job'.todo = Device /\ job'.then = then
      /\ job'.pos = j.pos
  BY <1>1 DEF JobType
<1> QED
  BY <1>2, <1>3 DEF JobPlace, Calling, Unfinished

LEMMA StepAgain ==
  ASSUME NEW j \in JobType
  PROVE  /\ [j EXCEPT !.pc = "step"] \in JobType /\ [j EXCEPT !.pc = "step"].pc = "step"
         /\ [j EXCEPT !.pc = "step"].i = j.i /\ [j EXCEPT !.pc = "step"].pos = j.pos
         /\ [j EXCEPT !.pc = "step"].at = j.at /\ [j EXCEPT !.pc = "step"].wrong = j.wrong
  BY DEF JobType

LEMMA CallEndsType ==
  ASSUME TypeInv, CallFails \/ TimeOut
  PROVE  TypeInv'
<1>1. /\ Calling /\ job' = [job EXCEPT !.pc = "error"] /\ pending' = NoPending
      /\ UNCHANGED <<crashed, dead, plan, workers, results>>
      /\ hasty' \in {hasty, hasty + 1}
  BY DEF CallFails, TimeOut, Calling
<1>2. job \in JobType /\ JobPlace
  BY DEF TypeInv, GatewayType
<1>3. job' \in JobType /\ job'.pc = "error" /\ job'.head = job.head /\ job'.pos = job.pos
  BY <1>1, <1>2 DEF JobType
<1>4. JobPlace' /\ ~Calling'
  BY <1>1, <1>2, <1>3 DEF JobPlace, Calling, Unfinished
<1>5. pending' \in PendingType /\ ~pending'.on
  BY <1>1, Shape DEF NoPending, PendingType
<1>6. WorkerType'
  BY <1>1 DEF TypeInv, WorkerType, workers, HandlerPlace
<1>7. GatewayType'
  BY <1>1, <1>3, <1>4, <1>5 DEF TypeInv, GatewayType
<1> QED
  BY <1>6, <1>7 DEF TypeInv

\* An answer: the next position of the replay, the next step, or the end.
LEMMA AnsweredType ==
  ASSUME TypeInv, Answered
  PROVE  TypeInv'
<1> DEFINE j == [job EXCEPT !.i = 0, !.pos = @ + 1,
                            !.wrong = @ \/ pending.answer = "bad"]
<1>1. /\ job.pc = "wait" /\ pending' = NoPending
      /\ job' = IF Replaying /\ job.at < job.pos THEN [job EXCEPT !.pc = "replay", !.i = @ + 1]
                ELSE IF j.pos = MaxTokens THEN StartEvict(j, "done")
                ELSE [j EXCEPT !.pc = "step"]
      /\ UNCHANGED <<crashed, dead, plan, workers, results, hasty>>
  BY DEF Answered
<1>2. job \in JobType /\ JobPlace /\ Calling /\ Unfinished
  BY <1>1 DEF TypeInv, GatewayType, Calling, Unfinished
<1>3. /\ job.pos \in 0..MaxTokens /\ job.pos < MaxTokens /\ job.i \in Nat /\ job.i <= job.pos + 1
      /\ job.wrong \in BOOLEAN /\ job.head \in Device
      /\ job.at = IF job.i > 0 THEN job.i - 1 ELSE job.pos
  BY <1>1, <1>2 DEF JobPlace, JobType
<1>4. j \in JobType /\ j.pos = job.pos + 1 /\ j.i = 0
  <2>1. job.pos + 1 \in 0..MaxTokens
    BY <1>3, Shape
  <2>2. (job.wrong \/ pending.answer = "bad") \in BOOLEAN
    BY <1>3
  <2> QED
    BY <1>2, <1>3, <2>1, <2>2 DEF JobType
<1>5. job' \in JobType /\ JobPlace' /\ ~Calling'
  <2>1. CASE Replaying /\ job.at < job.pos
    <3>1. job' = [job EXCEPT !.pc = "replay", !.i = job.i + 1] /\ job.i > 0
      BY <1>1, <2>1 DEF Replaying
    <3>2. job.i + 1 \in Nat /\ job.i + 1 <= job.pos + 1
      BY <1>3, <2>1, <3>1
    <3>3. /\ job' \in JobType /\ job'.pc = "replay" /\ job'.i = job.i + 1 /\ job'.pos = job.pos
          /\ job'.head = job.head
      BY <1>2, <3>1, <3>2 DEF JobType
    <3> QED
      BY <1>3, <3>1, <3>2, <3>3 DEF JobPlace, Calling, Unfinished
  <2>2. CASE ~(Replaying /\ job.at < job.pos) /\ j.pos = MaxTokens
    BY <1>1, <1>4, <2>2, StartEvictType
  <2>3. CASE ~(Replaying /\ job.at < job.pos) /\ j.pos # MaxTokens
    <3>1. job' = [j EXCEPT !.pc = "step"]
      BY <1>1, <2>3
    <3>2. job' \in JobType /\ job'.pc = "step" /\ job'.i = 0 /\ job'.pos = j.pos
      BY <1>4, <3>1, StepAgain
    <3>3. j.pos < MaxTokens
      BY <1>3, <1>4, <2>3, Shape
    <3> QED
      BY <3>2, <3>3 DEF JobPlace, Calling, Unfinished
  <2> QED
    BY <2>1, <2>2, <2>3
<1>6. pending' \in PendingType /\ ~pending'.on
  BY <1>1, Shape DEF NoPending, PendingType
<1>7. WorkerType'
  BY <1>1 DEF TypeInv, WorkerType, workers, HandlerPlace
<1>8. GatewayType'
  BY <1>1, <1>5, <1>6 DEF TypeInv, GatewayType
<1> QED
  BY <1>7, <1>8 DEF TypeInv

\* The head is blamed.
LEMMA StepFailedType ==
  ASSUME TypeInv, StepFailed
  PROVE  TypeInv'
<1> DEFINE d == job.head
<1>1. /\ job.pc = "error" /\ UNCHANGED <<crashed, pending, workers, results, hasty>>
      /\ \/ UNCHANGED <<dead, plan>> \/ MarkDead(d)
      /\ \/ job' = StartEvict(job, "failed")
         \/ ~Replaying /\ job' = [job EXCEPT !.pc = "promoted"]
  BY DEF StepFailed
<1>2. job \in JobType /\ JobPlace /\ Unfinished /\ ~Calling /\ (pending.on <=> Calling)
      /\ pending \in PendingType
  BY <1>1 DEF TypeInv, GatewayType, Calling, Unfinished
<1>3. job.pos < MaxTokens /\ d \in Device /\ job.i \in Nat
  BY <1>1, <1>2 DEF JobPlace, JobType
<1>4. dead' \subseteq Device /\ plan' \in [Stage -> Device]
  BY <1>1, <1>3, MarkType DEF TypeInv, GatewayType
<1>5. job' \in JobType /\ JobPlace' /\ ~Calling'
  <2>1. CASE job' = StartEvict(job, "failed")
    BY <1>2, <1>3, <2>1, StartEvictType
  <2>2. CASE ~Replaying /\ job' = [job EXCEPT !.pc = "promoted"]
    <3>1. job' \in JobType /\ job'.pc = "promoted" /\ job'.i = job.i /\ job'.pos = job.pos
      BY <1>2, <2>2 DEF JobType
    <3>2. job.i = 0
      BY <1>3, <2>2 DEF Replaying
    <3> QED
      BY <1>3, <3>1, <3>2 DEF JobPlace, Calling, Unfinished
  <2> QED
    BY <1>1, <2>1, <2>2
<1>6. WorkerType'
  BY <1>1 DEF TypeInv, WorkerType, workers, HandlerPlace
<1>7. GatewayType'
  BY <1>1, <1>2, <1>4, <1>5 DEF GatewayType
<1> QED
  BY <1>6, <1>7 DEF TypeInv

LEMMA StartRewireType ==
  ASSUME TypeInv, StartRewire
  PROVE  TypeInv'
<1>1. /\ job.pc = "promoted" /\ job' = [job EXCEPT !.pc = "rewire", !.i = 1, !.rplan = plan]
      /\ UNCHANGED <<crashed, dead, plan, pending, workers, results, hasty>>
  BY DEF StartRewire
<1>2. /\ job \in JobType /\ JobPlace /\ Unfinished /\ ~Calling /\ (pending.on <=> Calling)
      /\ plan \in [Stage -> Device]
  BY <1>1 DEF TypeInv, GatewayType, Calling, Unfinished
<1>3. job' \in JobType /\ job'.pc = "rewire" /\ job'.i = 1 /\ job'.rplan = plan /\ job'.pos = job.pos
  BY <1>1, <1>2 DEF JobType
<1>4. JobPlace' /\ ~Calling'
  BY <1>2, <1>3, Shape DEF JobPlace, Calling, Unfinished
<1>5. WorkerType'
  BY <1>1 DEF TypeInv, WorkerType, workers, HandlerPlace
<1>6. GatewayType'
  BY <1>1, <1>2, <1>3, <1>4 DEF TypeInv, GatewayType
<1> QED
  BY <1>5, <1>6 DEF TypeInv

\* One entry of a table of tables is replaced.
LEMMA EntryReplaced ==
  ASSUME NEW A, NEW B, NEW C, NEW f \in [A -> [B -> C]], NEW a \in A, NEW b \in B, NEW c \in C
  PROVE  /\ [f EXCEPT ![a][b] = c] \in [A -> [B -> C]]
         /\ \A i \in A, j \in B :
              [f EXCEPT ![a][b] = c][i][j] = IF i = a /\ j = b THEN c ELSE f[i][j]
<1>1. [f[a] EXCEPT ![b] = c] \in [B -> C]
  OBVIOUS
<1>2. \A j \in B : [f[a] EXCEPT ![b] = c][j] = IF j = b THEN c ELSE f[a][j]
  OBVIOUS
<1> DEFINE g == [f EXCEPT ![a] = [f[a] EXCEPT ![b] = c]]
<1>3. g \in [A -> [B -> C]]
  BY <1>1
<1>4. \A i \in A : g[i] = IF i = a THEN [f[a] EXCEPT ![b] = c] ELSE f[i]
  OBVIOUS
<1>5. \A i \in A, j \in B : g[i][j] = IF i = a /\ j = b THEN c ELSE f[i][j]
  <2> HIDE DEF g
  <2> QED
    BY <1>2, <1>4
<1> QED
  BY <1>3, <1>5

\* One SetNextHop: the tail is told that it is the tail.
LEMMA RewireType ==
  ASSUME TypeInv, Rewire
  PROVE  TypeInv'
<1> DEFINE s == job.i
           d == job.rplan[s]
<1>1. /\ job.pc = "rewire"
      /\ IF d \in crashed THEN UNCHANGED <<next_hop, handlers, forwards>>
         ELSE /\ next_hop' = [next_hop EXCEPT ![d][s] =
                                IF s < N THEN job.rplan[s + 1] ELSE NoDevice]
              /\ handlers' = {IF h.dev = d /\ h.stage = s
                              THEN [h EXCEPT !.open = FALSE] ELSE h : h \in handlers}
              /\ forwards' = {m \in forwards : m.from # d \/ m.stage # s + 1}
      /\ job' = IF s < N THEN [job EXCEPT !.i = s + 1] ELSE StartEvict(job, "replay")
      /\ UNCHANGED <<crashed, dead, plan, pending, kv, lock, locks, results, hasty>>
  BY DEF Rewire
<1>2. /\ job \in JobType /\ JobPlace /\ Unfinished /\ ~Calling /\ (pending.on <=> Calling)
      /\ WorkerType
  BY <1>1 DEF TypeInv, GatewayType, Calling, Unfinished
<1>3. s \in Stage /\ job.rplan \in [Stage -> Device] /\ job.pos < MaxTokens
  BY <1>1, <1>2 DEF JobPlace
<1>4. s < N => s + 1 \in Stage
  BY <1>3, Shape DEF Stage
<1>5. /\ next_hop' \in [Device -> [Stage -> MaybeDevice]]
      /\ \A e \in Device : next_hop'[e][N] = NoDevice
  <2>1. /\ next_hop \in [Device -> [Stage -> MaybeDevice]]
        /\ \A e \in Device : next_hop[e][N] = NoDevice
    BY <1>2 DEF WorkerType
  <2> DEFINE hop == IF s < N THEN job.rplan[s + 1] ELSE NoDevice
  <2>2. hop \in MaybeDevice /\ (s = N => hop = NoDevice) /\ d \in Device
    <3>1. CASE s < N
      <4>1. s # N
        BY <1>3, <3>1, Shape DEF Stage
      <4> QED
        BY <1>3, <1>4, <3>1, <4>1 DEF MaybeDevice
    <3>2. CASE ~(s < N)
      BY <1>3, <3>2 DEF MaybeDevice
    <3> QED
      BY <3>1, <3>2
  <2>3. next_hop' = next_hop \/ next_hop' = [next_hop EXCEPT ![d][s] = hop]
    BY <1>1
  <2> HIDE DEF hop, d, s
  <2>4. next_hop' \in [Device -> [Stage -> MaybeDevice]]
    <3>1. [next_hop EXCEPT ![d][s] = hop] \in [Device -> [Stage -> MaybeDevice]]
      BY <1>3, <2>1, <2>2, EntryReplaced
    <3> QED
      BY <2>1, <2>3, <3>1
  <2>5. ASSUME NEW e \in Device
        PROVE  next_hop'[e][N] = NoDevice
    <3>1. N \in Stage
      BY Shape DEF Stage
    <3>2. [next_hop EXCEPT ![d][s] = hop][e][N]
            = IF e = d /\ N = s THEN hop ELSE next_hop[e][N]
      BY <1>3, <2>1, <2>2, <3>1, EntryReplaced
    <3> QED
      BY <2>1, <2>2, <2>3, <3>2
  <2> QED
    BY <2>4, <2>5
<1>6. ASSUME NEW k \in handlers'
      PROVE  k \in HandlerType /\ HandlerPlace(k)'
  <2>1. PICK h \in handlers : k = h \/ k = [h EXCEPT !.open = FALSE]
    BY <1>1, <1>6
  <2>2. h \in HandlerType /\ HandlerPlace(h)
    BY <1>2 DEF WorkerType
  <2>3. /\ k \in HandlerType /\ k.dev = h.dev /\ k.lock = h.lock /\ k.stage = h.stage
        /\ k.hop = h.hop
    BY <2>1, <2>2 DEF HandlerType
  <2> QED
    BY <1>1, <2>2, <2>3 DEF HandlerPlace
<1>7. WorkerType'
  BY <1>1, <1>2, <1>5, <1>6 DEF WorkerType
<1>8. job' \in JobType /\ JobPlace' /\ ~Calling'
  <2>1. CASE s < N
    <3>1. s + 1 \in Nat
      BY <1>3, Shape DEF Stage
    <3>2. /\ job' \in JobType /\ job'.pc = "rewire" /\ job'.i = s + 1 /\ job'.rplan = job.rplan
          /\ job'.pos = job.pos
      BY <1>1, <1>2, <2>1, <3>1 DEF JobType
    <3> QED
      BY <1>3, <1>4, <2>1, <3>2 DEF JobPlace, Calling, Unfinished
  <2>2. CASE ~(s < N)
    BY <1>1, <1>2, <1>3, <2>2, StartEvictType
  <2> QED
    BY <2>1, <2>2
<1>9. GatewayType'
  BY <1>1, <1>2, <1>8 DEF TypeInv, GatewayType
<1> QED
  BY <1>7, <1>9 DEF TypeInv

\* One EvictRequest.
LEMMA EvictType ==
  ASSUME TypeInv, Evict
  PROVE  TypeInv'
<1> DEFINE d == CHOOSE x \in job.todo : TRUE
<1>1. /\ job.pc = "evict"
      /\ IF d \in dead \cup crashed THEN UNCHANGED <<kv, lock, handlers>>
         ELSE /\ kv' = [kv EXCEPT ![d] = [s \in Stage |-> 0]]
              /\ lock' = [lock EXCEPT ![d] = 0]
              /\ handlers' = {IF h.dev = d /\ h.st = "running"
                              THEN [h EXCEPT !.attached = FALSE] ELSE h : h \in handlers}
      /\ job' = IF job.todo = {d}
                THEN [job EXCEPT !.todo = {}, !.pc = job.then, !.i = 1, !.rplan = << >>]
                ELSE [job EXCEPT !.todo = @ \ {d}]
      /\ UNCHANGED <<crashed, dead, plan, pending, next_hop, locks, forwards, results, hasty>>
  BY DEF Evict
<1>2. /\ job \in JobType /\ JobPlace /\ ~Calling /\ (pending.on <=> Calling) /\ WorkerType
  BY <1>1 DEF TypeInv, GatewayType, Calling
<1>3. /\ job.todo # {} /\ job.then \in {"replay", "done", "failed"}
      /\ job.then # "done" => job.pos < MaxTokens
  BY <1>1, <1>2 DEF JobPlace, JobType, Unfinished
<1>4. d \in job.todo
  BY <1>3
<1>5. d \in Device
  BY <1>2, <1>4 DEF JobType
<1> HIDE DEF d
<1>6. /\ kv' \in [Device -> [Stage -> CacheLen]] /\ lock' \in [Device -> Nat]
      /\ \A e \in Device : lock'[e] <= locks'[e]
  <2>1. 0 \in CacheLen
    BY Shape DEF CacheLen
  <2>2. /\ kv \in [Device -> [Stage -> CacheLen]] /\ lock \in [Device -> Nat]
        /\ locks \in [Device -> Nat] /\ \A e \in Device : lock[e] <= locks[e]
    BY <1>2 DEF WorkerType
  <2>3. CASE d \in dead \cup crashed
    BY <1>1, <2>2, <2>3
  <2>4. CASE d \notin dead \cup crashed
    <3>1. kv' = [kv EXCEPT ![d] = [s \in Stage |-> 0]] /\ lock' = [lock EXCEPT ![d] = 0] /\ locks' = locks
      BY <1>1, <2>4
    <3>2. kv' \in [Device -> [Stage -> CacheLen]]
      BY <2>1, <2>2, <3>1
    <3>3. lock' \in [Device -> Nat]
      BY <2>2, <3>1
    <3>4. ASSUME NEW e \in Device
          PROVE  lock'[e] <= locks'[e]
      <4>1. lock'[e] = IF e = d THEN 0 ELSE lock[e]
        BY <2>2, <3>1
      <4>2. lock[e] \in Nat /\ locks[e] \in Nat /\ lock[e] <= locks[e] /\ locks'[e] = locks[e]
        BY <2>2, <3>1
      <4> QED
        BY <4>1, <4>2
    <3> QED
      BY <3>2, <3>3, <3>4
  <2> QED
    BY <2>3, <2>4
<1>7. ASSUME NEW k \in handlers'
      PROVE  k \in HandlerType /\ HandlerPlace(k)'
  <2>1. PICK h \in handlers : k = h \/ k = [h EXCEPT !.attached = FALSE]
    BY <1>1, <1>7
  <2>2. h \in HandlerType /\ HandlerPlace(h)
    BY <1>2 DEF WorkerType
  <2>3. /\ k \in HandlerType /\ k.dev = h.dev /\ k.lock = h.lock /\ k.stage = h.stage
        /\ k.hop = h.hop
    BY <2>1, <2>2 DEF HandlerType
  <2> QED
    BY <1>1, <2>2, <2>3 DEF HandlerPlace
<1>8. WorkerType'
  BY <1>1, <1>2, <1>6, <1>7 DEF WorkerType
<1>9. job' \in JobType /\ JobPlace' /\ ~Calling'
  <2>1. CASE job.todo = {d}
    <3>1. /\ job' \in JobType /\ job'.pc = job.then /\ job'.i = 1 /\ job'.pos = job.pos
      BY <1>1, <1>2, <1>3, <2>1 DEF JobType
    <3>2. job.pos \in Nat
      BY <1>2, Shape DEF JobType
    <3> QED
      BY <1>3, <3>1, <3>2 DEF JobPlace, Calling, Unfinished
  <2>2. CASE job.todo # {d}
    <3>1. /\ job' \in JobType /\ job'.pc = "evict" /\ job'.todo = job.todo \ {d}
          /\ job'.then = job.then /\ job'.pos = job.pos
      BY <1>1, <1>2, <2>2 DEF JobType
    <3>2. job'.todo # {}
      BY <1>4, <2>2, <3>1
    <3> QED
      BY <1>3, <3>1, <3>2 DEF JobPlace, Calling, Unfinished
  <2> QED
    BY <2>1, <2>2
<1>10. GatewayType'
  BY <1>1, <1>2, <1>9 DEF TypeInv, GatewayType
<1> QED
  BY <1>8, <1>10 DEF TypeInv

LEMMA NextType == TypeInv /\ [Next]_vars => TypeInv'
<1> SUFFICES ASSUME TypeInv, [Next]_vars PROVE TypeInv'
  OBVIOUS
<1>1. CASE Thread
  BY <1>1, StepType, CallEndsType, AnsweredType, StepFailedType, StartRewireType, RewireType,
     EvictType, ReplayType DEF Thread
<1>2. CASE Chain
  BY <1>2, RunType, FinishType, ForwardStepType, ResultStepType DEF Chain
<1>3. ASSUME NEW d \in Device, Crash(d) \/ OnFailure(d)
      PROVE  TypeInv'
  BY <1>3, CrashType, OnFailureType
<1>4. CASE UNCHANGED vars
  <2>1. WorkerType'
    BY <1>4 DEF TypeInv, WorkerType, HandlerPlace, vars, workers
  <2>2. GatewayType'
    BY <1>4, GatewayFrame DEF TypeInv, vars
  <2> QED
    BY <2>1, <2>2 DEF TypeInv
<1> QED
  BY <1>1, <1>2, <1>3, <1>4 DEF Next

\* Every value has its type, and every variable of the request's thread the value
\* its program counter calls for: a registered future exactly while a call is
\* waited for, a position below max_tokens, a stage of the chain, a living caller.
THEOREM TypesHold == Spec => []TypeOK
<1>1. TypeInv => TypeOK
  <2> SUFFICES ASSUME TypeInv PROVE TypeOK
    OBVIOUS
  <2>1. /\ crashed \subseteq Device /\ dead \subseteq Device /\ plan \in [Stage -> Device]
        /\ next_hop \in [Device -> [Stage -> MaybeDevice]]
        /\ kv \in [Device -> [Stage -> 0..MaxTokens \cup {Bad}]]
    BY DEF TypeInv, WorkerType, GatewayType, CacheLen
  <2>2. ASSUME NEW d \in Device
        PROVE  lock[d] \in 0..locks[d]
    <3>1. lock[d] \in Nat /\ locks[d] \in Nat /\ lock[d] <= locks[d]
      BY DEF TypeInv, WorkerType
    <3> QED
      BY <3>1
  <2>3. \A h \in handlers : h.dev \notin crashed /\ h.lock \in 1..locks[h.dev]
    BY DEF TypeInv, WorkerType, HandlerPlace
  <2>4. \A m \in forwards : m.dev \in Device /\ m.stage \in Stage
    BY DEF TypeInv, WorkerType, ForwardType
  <2>5. job.pos \in 0..MaxTokens /\ job.at \in Position
    BY DEF TypeInv, GatewayType, JobType
  <2>6. pending.answer \in {None, "good", "bad"} /\ pending.on \in BOOLEAN
    BY DEF TypeInv, GatewayType, PendingType
  <2>7. pending.on = (job.pc \in {"call", "wait"})
    BY <2>6 DEF TypeInv, GatewayType, Calling
  <2> QED
    BY <2>1, <2>2, <2>3, <2>4, <2>5, <2>6, <2>7 DEF TypeOK
<1> QED
  BY <1>1, InitType, NextType, PTL DEF Spec

-----------------------------------------------------------------------------
(* One step at a time, as long as no timeout is hasty.                     *)

\* What is under way of the request, anywhere, is one handler, one forward or one
\* result, of the call the thread waits for; and nothing once it is answered.
Alone ==
  /\ \A x, y \in handlers : x = y
  /\ \A x, y \in forwards : x = y
  /\ \A x, y \in results : x = y
  /\ handlers # {} => forwards = {} /\ results = {}
  /\ forwards # {} => results = {}

OfTheCall(x) == x.call = job.call /\ x.at = job.at

Awaited ==
  /\ \A x \in handlers : OfTheCall(x)
  /\ \A x \in forwards : OfTheCall(x)
  /\ \A x \in results : OfTheCall(x)
  /\ handlers \cup forwards \cup results # {} => Calling /\ pending.answer = None
  /\ job.pc = "call" =>
       /\ forwards = {} /\ results = {} /\ pending.answer = None
       /\ \A h \in handlers : h.stage = 1 /\ h.dev = job.head

Solo == Alone /\ Awaited

Quiet == handlers = {} /\ forwards = {} /\ results = {}

LEMMA QuietIsSolo ==
  ASSUME Quiet, job.pc # "call"
  PROVE  Solo
  BY DEF Quiet, Solo, Alone, Awaited

\* Between two calls nothing is under way.
LEMMA QuietBetweenCalls ==
  ASSUME Solo, ~Calling
  PROVE  Quiet
  BY DEF Solo, Awaited, Quiet

LEMMA ForwardSolo ==
  ASSUME TypeInv, Solo, NEW m \in forwards, ForwardArrives(m) \/ ForwardFails(m)
  PROVE  Solo'
<1>1. /\ forwards' = {} /\ handlers = {} /\ results = {} /\ results' = results
      /\ job.pc = "wait" /\ pending.answer = None /\ UNCHANGED gateway /\ OfTheCall(m)
  BY DEF Solo, Alone, Awaited, Calling, ForwardArrives, ForwardFails
<1>2. CASE ForwardFails(m)
  <2>1. Quiet' /\ job'.pc # "call"
    BY <1>1, <1>2 DEF ForwardFails, Quiet, gateway
  <2> QED
    BY <2>1 DEF Quiet, Solo, Alone, Awaited
<1>3. CASE ForwardArrives(m)
  <2>1. PICK g : handlers' = {Handler(m, g)}
    BY <1>1, <1>3 DEF ForwardArrives, Enter
  <2>2. Handler(m, g).call = m.call /\ Handler(m, g).at = m.at
    BY DEF Handler
  <2> QED
    BY <1>1, <2>1, <2>2 DEF Solo, Alone, Awaited, OfTheCall, Calling, gateway
<1> QED
  BY <1>2, <1>3

LEMMA RunSolo ==
  ASSUME TypeInv, Solo, NEW h \in handlers, Run(h)
  PROVE  Solo' /\ handlers' = {Started(h)}
<1>1. handlers \ {h} = {}
  BY DEF Solo, Alone
<1>2. Detach(handlers \ {h}, h.dev, h.stage) = {}
  BY <1>1 DEF Detach
<1>3. handlers' = {Started(h)}
  BY <1>1, <1>2 DEF Run, Started
<1>4. /\ Started(h).call = h.call /\ Started(h).at = h.at /\ Started(h).dev = h.dev
      /\ Started(h).stage = h.stage
  BY StartedFields DEF TypeInv
<1>5. UNCHANGED <<gateway, forwards, results>>
  BY DEF Run
<1> QED
  BY <1>3, <1>4, <1>5 DEF Solo, Alone, Awaited, OfTheCall, Calling, gateway

\* The handler is gone, and its forward or its result has taken its place.
LEMMA FinishSolo ==
  ASSUME TypeInv, Solo, NEW h \in handlers, Finish(h)
  PROVE  Solo'
<1> DEFINE good == Advance(h.len, h.at, h.good) # Bad
           res == [call |-> h.call, at |-> h.at, good |-> good /\ h.stage = N, from |-> h.dev]
           msg == Message(h.call, h.at, good, h.hop, h.stage + 1, h.dev)
<1>1. /\ handlers' = {} /\ forwards = {} /\ results = {} /\ OfTheCall(h)
      /\ Calling /\ pending.answer = None /\ pending' = pending
  BY DEF Solo, Alone, Awaited, Finish
<1>2. \/ results' = {res} /\ forwards' = {}
      \/ results' = {} /\ forwards' = {msg}
      \/ results' = {} /\ forwards' = {}
  BY <1>1 DEF Finish
<1>3. job' = IF job.pc = "call" /\ job.call = h.call /\ h.stage = 1
             THEN [job EXCEPT !.pc = "wait"] ELSE job
  BY DEF Finish
<1>4. job.pc = "call" => h.stage = 1 /\ job.call = h.call
  BY <1>1 DEF Solo, Awaited, OfTheCall
<1>5. job'.pc = "wait" /\ job'.call = job.call /\ job'.at = job.at
  BY <1>1, <1>3, <1>4 DEF Calling, TypeInv, GatewayType, JobType
<1>6. /\ res.call = h.call /\ res.at = h.at /\ msg.call = h.call /\ msg.at = h.at
  BY DEF Message
<1> HIDE DEF res, msg
<1>7. Alone'
  BY <1>1, <1>2 DEF Alone
<1>8. Awaited'
  BY <1>1, <1>2, <1>5, <1>6 DEF Awaited, OfTheCall, Calling
<1> QED
  BY <1>7, <1>8 DEF Solo

LEMMA CrashSolo ==
  ASSUME TypeInv, Solo, NEW d \in Device, Crash(d)
  PROVE  Solo'
<1>1. handlers' \subseteq handlers /\ UNCHANGED <<gateway, forwards, results>>
  BY DEF Crash
<1> QED
  BY <1>1 DEF Solo, Alone, Awaited, OfTheCall, Calling, gateway

LEMMA ResultSolo ==
  ASSUME TypeInv, Solo, NEW m \in results, ResultReady(m) \/ ResultLost(m)
  PROVE  Solo' /\ Quiet' /\ OfTheCall(m) /\ job.pc = "wait"
<1>1. handlers = {} /\ forwards = {} /\ results' = {} /\ job.pc = "wait" /\ OfTheCall(m)
  BY DEF Solo, Alone, Awaited, Calling, ResultReady, ResultLost
<1>2. job' = job /\ UNCHANGED <<handlers, forwards>>
  BY DEF ResultReady, ResultLost, gateway, workers
<1>3. Quiet' /\ job'.pc # "call"
  BY <1>1, <1>2 DEF Quiet
<1>4. Solo'
  BY <1>3 DEF Quiet, Solo, Alone, Awaited
<1> QED
  BY <1>1, <1>3, <1>4

\* A call begins when nothing is under way.
LEMMA InvokeSolo ==
  ASSUME TypeInv, Solo, ~Calling, NEW d, NEW p, Invoke(d, p, job),
         UNCHANGED <<forwards, results>>
  PROVE  /\ Solo'
         /\ d \in crashed => Quiet' /\ job' = [job EXCEPT !.pc = "error", !.head = d]
         /\ d \notin crashed => \E g : handlers' = {Handler(Message(job.call + 1, p, TRUE, d, 1, NoDevice), g)}
<1> DEFINE m == Message(job.call + 1, p, TRUE, d, 1, NoDevice)
<1>1. Quiet /\ job \in JobType
  BY QuietBetweenCalls DEF TypeInv, GatewayType
<1>2. CASE d \in crashed
  <2>1. job' = [job EXCEPT !.pc = "error", !.head = d] /\ handlers' = handlers
    BY <1>2 DEF Invoke
  <2>2. Quiet' /\ job'.pc # "call"
    BY <1>1, <2>1 DEF Quiet, JobType
  <2>3. Solo'
    BY <2>2 DEF Quiet, Solo, Alone, Awaited
  <2> QED
    BY <1>2, <2>1, <2>2, <2>3
<1>3. CASE d \notin crashed
  <2>1. /\ pending' = [on |-> TRUE, at |-> p, answer |-> None] /\ Enter(m)
        /\ job' = [job EXCEPT !.pc = "call", !.head = d, !.at = p, !.call = @ + 1]
    BY <1>3 DEF Invoke
  <2>2. pending'.answer = None
    BY <2>1
  <2>3. job'.pc = "call" /\ job'.head = d /\ job'.at = p /\ job'.call = job.call + 1
    BY <1>1, <2>1 DEF JobType
  <2>4. PICK g : handlers' = {Handler(m, g)}
    BY <1>1, <2>1 DEF Enter, Quiet
  <2>5. /\ Handler(m, g).call = job.call + 1 /\ Handler(m, g).at = p /\ Handler(m, g).dev = d
        /\ Handler(m, g).stage = 1
    BY DEF Handler, Message
  <2>6. forwards' = {} /\ results' = {}
    BY <1>1 DEF Quiet
  <2>7. Solo'
    BY <2>3, <2>4, <2>5, <2>6, <2>2 DEF Solo, Alone, Awaited, OfTheCall, Calling
  <2> QED
    BY <1>3, <2>4, <2>7
<1> QED
  BY <1>2, <1>3

\* What ends a call finds nothing under way: its head is gone, it was answered, or
\* the timeout was not hasty.
LEMMA CallOverSolo ==
  ASSUME TypeInv, Solo, CallFails \/ Answered \/ TimeOut, hasty' = 0
  PROVE  Solo' /\ Quiet'
<1>1. UNCHANGED <<workers, results>> /\ job \in JobType
  BY DEF CallFails, Answered, TimeOut, TypeInv, GatewayType
<1>2. Quiet
  <2>1. CASE CallFails
    <3>1. job.pc = "call" /\ job.head \in crashed
      BY <2>1 DEF CallFails
    <3>2. forwards = {} /\ results = {} /\ \A h \in handlers : h.dev = job.head
      BY <3>1 DEF Solo, Awaited
    <3>3. \A h \in handlers : h.dev \notin crashed
      BY DEF TypeInv, WorkerType, HandlerPlace
    <3> QED
      BY <3>1, <3>2, <3>3 DEF Quiet
  <2>2. CASE Answered
    BY <2>2 DEF Answered, Solo, Awaited, Quiet
  <2>3. CASE TimeOut
    <3>1. hasty \in Nat
      BY DEF TypeInv, WorkerType
    <3>2. ~UnderWay(job.call)
      BY <2>3, <3>1 DEF TimeOut
    <3>3. \A x \in handlers \cup forwards \cup results : x.call = job.call
      BY DEF Solo, Awaited, OfTheCall
    <3> QED
      BY <3>2, <3>3 DEF UnderWay, Quiet
  <2> QED
    BY <2>1, <2>2, <2>3
<1>3. job'.pc # "call"
  <2>1. CASE CallFails \/ TimeOut
    BY <1>1, <2>1 DEF CallFails, TimeOut, JobType
  <2>2. CASE Answered
    <3>1. job'.pc \in {"replay", "evict", "step"}
      BY <1>1, <2>2 DEF Answered, StartEvict, JobType
    <3> QED
      BY <3>1
  <2> QED
    BY <2>1, <2>2
<1>4. Quiet'
  BY <1>1, <1>2 DEF Quiet, workers
<1> QED
  BY <1>3, <1>4 DEF Quiet, Solo, Alone, Awaited

\* The recovery runs while nothing is under way.
LEMMA RecoverySolo ==
  ASSUME TypeInv, Solo, StepFailed \/ StartRewire \/ Rewire \/ Evict
  PROVE  Solo' /\ Quiet /\ Quiet'
<1>1. job \in JobType /\ JobPlace
  BY DEF TypeInv, GatewayType
<1>2. job.pc \in {"error", "promoted", "rewire", "evict"}
  BY DEF StepFailed, StartRewire, Rewire, Evict
<1>3. Quiet
  BY <1>2, QuietBetweenCalls DEF Calling
<1>4. Quiet'
  BY <1>3 DEF StepFailed, StartRewire, Rewire, Evict, workers, Quiet
<1>5. job'.pc # "call"
  <2>1. CASE StepFailed \/ StartRewire \/ Rewire
    <3>1. job'.pc \in {"evict", "promoted", "rewire"}
      BY <1>1, <2>1 DEF StepFailed, StartRewire, Rewire, StartEvict, JobType
    <3> QED
      BY <3>1
  <2>2. CASE Evict
    <3>1. job'.pc \in {"evict", job.then}
      BY <1>1, <2>2 DEF Evict, JobType
    <3>2. job.then # "call"
      BY <1>1 DEF JobType
    <3> QED
      BY <3>1, <3>2
  <2> QED
    BY <2>1, <2>2
<1> QED
  BY <1>3, <1>4, <1>5 DEF Quiet, Solo, Alone, Awaited

SoloInv == hasty = 0 => Solo

LEMMA HastyGrows ==
  ASSUME TypeInv, [Next]_vars, hasty' = 0
  PROVE  hasty = 0
<1>1. hasty \in Nat
  BY DEF TypeInv, WorkerType
<1>2. hasty' = hasty \/ hasty' = hasty + 1
  BY DEF Next, Thread, Chain, Step, CallFails, Answered, TimeOut, StepFailed, StartRewire, Rewire,
         Evict, Replay, Run, Finish, ForwardArrives, ForwardFails, ResultReady, ResultLost, Crash,
         OnFailure, vars
<1> QED
  BY <1>1, <1>2

LEMMA NextSolo == TypeInv /\ SoloInv /\ [Next]_vars => SoloInv'
<1> SUFFICES ASSUME TypeInv, SoloInv, [Next]_vars, hasty' = 0 PROVE Solo'
  BY DEF SoloInv
<1>1. Solo
  BY HastyGrows DEF SoloInv
<1>2. CASE Step
  <2>1. Invoke(plan[1], job.pos, job) /\ UNCHANGED <<forwards, results>> /\ ~Calling
    BY <1>2 DEF Step, Calling
  <2> QED
    BY <1>1, <2>1, InvokeSolo
<1>3. CASE Replay
  <2>1. /\ Invoke(IF job.i = 1 THEN plan[1] ELSE job.head, job.i - 1, job)
        /\ UNCHANGED <<forwards, results>> /\ ~Calling
    BY <1>3 DEF Replay, Calling
  <2> QED
    BY <1>1, <2>1, InvokeSolo
<1>4. CASE CallFails \/ Answered \/ TimeOut
  BY <1>1, <1>4, CallOverSolo
<1>5. CASE StepFailed \/ StartRewire \/ Rewire \/ Evict
  BY <1>1, <1>5, RecoverySolo
<1>6. CASE Chain
  BY <1>1, <1>6, RunSolo, FinishSolo, ForwardSolo, ResultSolo DEF Chain
<1>7. ASSUME NEW d \in Device, Crash(d)
      PROVE  Solo'
  BY <1>1, <1>7, CrashSolo
<1>8. ASSUME NEW d \in Device, OnFailure(d)
      PROVE  Solo'
  BY <1>1, <1>8 DEF OnFailure, workers, Solo, Alone, Awaited, OfTheCall, Calling
<1>9. CASE UNCHANGED vars
  BY <1>1, <1>9 DEF vars, workers, gateway, Solo, Alone, Awaited, OfTheCall, Calling
<1> QED
  BY <1>2, <1>3, <1>4, <1>5, <1>6, <1>7, <1>8, <1>9 DEF Next, Thread

-----------------------------------------------------------------------------
(* The lock of the request. *)

\* Who runs under a lock runs alone.
LockExcludes ==
  \A g, h \in handlers :
    /\ g.st = "running" /\ h.st = "running"
    /\ g.dev = h.dev /\ g.lock = h.lock
    => g = h

\* Handlers that only lose or close things keep their places.
LEMMA MappedExcludes ==
  ASSUME LockExcludes, NEW F,
         \A h \in handlers : F[h].st = h.st /\ F[h].dev = h.dev /\ F[h].lock = h.lock,
         handlers' = {F[h] : h \in handlers}
  PROVE  LockExcludes'
<1> SUFFICES ASSUME NEW x \in handlers', NEW y \in handlers', x.st = "running", y.st = "running",
                    x.dev = y.dev, x.lock = y.lock
             PROVE  x = y
  BY DEF LockExcludes
<1>1. PICK g \in handlers : x = F[g]
  OBVIOUS
<1>2. PICK h \in handlers : y = F[h]
  OBVIOUS
<1>3. g = h
  BY <1>1, <1>2 DEF LockExcludes
<1> QED
  BY <1>1, <1>2, <1>3

LEMMA FewerExcludes ==
  ASSUME LockExcludes, handlers' \subseteq handlers
  PROVE  LockExcludes'
  BY DEF LockExcludes

LEMMA EnterExcludes ==
  ASSUME LockExcludes, NEW m, Enter(m)
  PROVE  LockExcludes'
<1>1. PICK g : handlers' = handlers \cup {Handler(m, g)}
  BY DEF Enter
<1>2. Handler(m, g).st # "running"
  BY DEF Handler
<1> QED
  BY <1>1, <1>2 DEF LockExcludes

\* The guard of Run is what excludes.
LEMMA RunExcludes ==
  ASSUME TypeInv, LockExcludes, NEW h \in handlers, Run(h)
  PROVE  LockExcludes'
<1> SUFFICES ASSUME NEW x \in handlers', NEW y \in handlers', x.st = "running", y.st = "running",
                    x.dev = y.dev, x.lock = y.lock
             PROVE  x = y
  BY DEF LockExcludes
<1>1. handlers' = (IF h.at = 0 THEN Detach(handlers \ {h}, h.dev, h.stage) ELSE handlers \ {h})
                  \cup {Started(h)}
  BY DEF Run, Started
<1>2. Started(h).dev = h.dev /\ Started(h).lock = h.lock /\ ~Held(h.dev, h.lock)
  BY StartedFields DEF TypeInv, Run
<1>3. ASSUME NEW z \in handlers', z # Started(h)
      PROVE  \E g \in handlers : g.dev = z.dev /\ g.lock = z.lock /\ g.st = z.st
  BY <1>3, RunKeeps DEF TypeInv
<1>4. ASSUME NEW z \in handlers', z # Started(h), z.st = "running", z.dev = h.dev, z.lock = h.lock
      PROVE  FALSE
  BY <1>2, <1>3, <1>4 DEF Held
<1>5. CASE x = Started(h) \/ y = Started(h)
  BY <1>2, <1>4, <1>5
<1>6. CASE x # Started(h) /\ y # Started(h)
  <2> DEFINE Det(g) == IF g.dev = h.dev /\ g.stage = h.stage THEN [g EXCEPT !.attached = FALSE] ELSE g
  <2>1. CASE h.at = 0
    <3>1. PICK g \in handlers \ {h} : x = Det(g)
      BY <1>1, <1>6, <2>1 DEF Detach
    <3>2. PICK k \in handlers \ {h} : y = Det(k)
      BY <1>1, <1>6, <2>1 DEF Detach
    <3>3. /\ g \in HandlerType /\ k \in HandlerType
      BY DEF TypeInv, WorkerType
    <3>4. x.st = g.st /\ x.dev = g.dev /\ x.lock = g.lock
      BY <3>1, <3>3 DEF HandlerType
    <3>5. y.st = k.st /\ y.dev = k.dev /\ y.lock = k.lock
      BY <3>2, <3>3 DEF HandlerType
    <3>6. g = k
      BY <3>4, <3>5 DEF LockExcludes
    <3> QED
      BY <3>1, <3>2, <3>6
  <2>2. CASE h.at # 0
    BY <1>1, <1>6, <2>2 DEF LockExcludes
  <2> QED
    BY <2>1, <2>2
<1> QED
  BY <1>5, <1>6

LEMMA NextExcludes == TypeInv /\ LockExcludes /\ [Next]_vars => LockExcludes'
<1> SUFFICES ASSUME TypeInv, LockExcludes, [Next]_vars PROVE LockExcludes'
  OBVIOUS
<1>1. CASE handlers' \subseteq handlers
  BY <1>1, FewerExcludes
<1>2. ASSUME NEW m, Enter(m)
      PROVE  LockExcludes'
  BY <1>2, EnterExcludes
<1>3. ASSUME NEW h \in handlers, Run(h)
      PROVE  LockExcludes'
  BY <1>3, RunExcludes
<1>4. CASE Rewire
  <2> DEFINE s == job.i
             d == job.rplan[s]
             F == [h \in handlers |-> IF h.dev = d /\ h.stage = s THEN [h EXCEPT !.open = FALSE] ELSE h]
  <2>1. \/ handlers' = handlers
        \/ handlers' = {IF h.dev = d /\ h.stage = s THEN [h EXCEPT !.open = FALSE] ELSE h : h \in handlers}
    BY <1>4 DEF Rewire
  <2>2. \A h \in handlers : F[h].st = h.st /\ F[h].dev = h.dev /\ F[h].lock = h.lock
    BY DEF TypeInv, WorkerType, HandlerType
  <2>3. handlers' = handlers \/ handlers' = {F[h] : h \in handlers}
    BY <2>1
  <2> HIDE DEF F
  <2> QED
    BY <1>1, <2>2, <2>3, MappedExcludes
<1>5. CASE Evict
  <2> DEFINE d == CHOOSE x \in job.todo : TRUE
             F == [h \in handlers |-> IF h.dev = d /\ h.st = "running" THEN [h EXCEPT !.attached = FALSE] ELSE h]
  <2>1. \/ handlers' = handlers
        \/ handlers' = {IF h.dev = d /\ h.st = "running" THEN [h EXCEPT !.attached = FALSE] ELSE h : h \in handlers}
    BY <1>5 DEF Evict
  <2>2. \A h \in handlers : F[h].st = h.st /\ F[h].dev = h.dev /\ F[h].lock = h.lock
    BY DEF TypeInv, WorkerType, HandlerType
  <2>3. handlers' = handlers \/ handlers' = {F[h] : h \in handlers}
    BY <2>1
  <2> HIDE DEF F
  <2> QED
    BY <1>1, <2>2, <2>3, MappedExcludes
<1>6. CASE Step \/ Replay
  <2>1. handlers' = handlers \/ \E m : Enter(m)
    BY <1>6 DEF Step, Replay, Invoke
  <2> QED
    BY <1>1, <1>2, <2>1
<1>7. CASE CallFails \/ Answered \/ TimeOut \/ StepFailed \/ StartRewire
  BY <1>1, <1>7 DEF CallFails, Answered, TimeOut, StepFailed, StartRewire, workers
<1>8. CASE Chain
  <2>1. ASSUME NEW h \in handlers, Finish(h)
        PROVE  LockExcludes'
    BY <1>1, <2>1 DEF Finish
  <2>2. ASSUME NEW m \in forwards, ForwardArrives(m) \/ ForwardFails(m)
        PROVE  LockExcludes'
    BY <1>1, <1>2, <2>2 DEF ForwardArrives, ForwardFails
  <2>3. ASSUME NEW m \in results, ResultReady(m) \/ ResultLost(m)
        PROVE  LockExcludes'
    BY <1>1, <2>3 DEF ResultReady, ResultLost, workers
  <2> QED
    BY <1>3, <1>8, <2>1, <2>2, <2>3 DEF Chain
<1>9. ASSUME NEW d \in Device, Crash(d) \/ OnFailure(d)
      PROVE  LockExcludes'
  BY <1>1, <1>9 DEF Crash, OnFailure, workers
<1>10. CASE UNCHANGED vars
  BY <1>1, <1>10 DEF vars, workers
<1> QED
  BY <1>4, <1>5, <1>6, <1>7, <1>8, <1>9, <1>10 DEF Next, Thread

LEMMA InitSolo == Init => SoloInv /\ LockExcludes
  BY DEF Init, SoloInv, Solo, Alone, Awaited, LockExcludes

\* Two handlers on one KV cache are of two overlapping steps, so a timeout was
\* hasty; and they hold two locks, so one of them is not the request's any more.
THEOREM CacheWritersAreApart == Spec => []OneWriterPerCache
<1>1. TypeInv /\ SoloInv /\ LockExcludes => OneWriterPerCache
  <2> SUFFICES ASSUME TypeInv, SoloInv, LockExcludes, NEW g \in handlers, NEW h \in handlers,
                      g.st = "running", h.st = "running", g.dev = h.dev, g # h
               PROVE  hasty > 0 /\ (g.lock # lock[g.dev] \/ h.lock # lock[h.dev])
    BY DEF OneWriterPerCache
  <2>1. hasty # 0
    BY DEF SoloInv, Solo, Alone
  <2>2. hasty > 0
    BY <2>1 DEF TypeInv, WorkerType
  <2>3. g.lock # h.lock
    BY DEF LockExcludes
  <2> QED
    BY <2>2, <2>3
<1> QED
  BY <1>1, InitType, InitSolo, NextType, NextSolo, NextExcludes, PTL DEF Spec

-----------------------------------------------------------------------------
(***************************************************************************)
(* The tokens.  Where the head of the placement does not crash, the chain  *)
(* produces no wrong token before its first hasty timeout, for every       *)
(* fleet, placement, recovery table and request, and any number of crashes *)
(* behind the head and of lost results.                                    *)
(*                                                                         *)
(* Without a hasty timeout one step runs at a time (Solo), and it runs     *)
(* along a route: devices, one per stage, each wired to the next, whose KV *)
(* caches hold the position the step is at, or the one after it up to the  *)
(* stage the step has reached.  A recovery replaces the route: it wires    *)
(* the new one completely, evicts every worker of it, and only then does   *)
(* the replay run along it.                                                *)
(***************************************************************************)


\* The request is over, but for evictions that no step follows.
Over == job.pc \in {"done", "failed"} \/ (job.pc = "evict" /\ job.then # "replay")

\* Who serves the first stage: the head until it is blamed, then its backup.
HeadNow == IF Placement[1] \in dead THEN Recovery[Placement[1]] ELSE Placement[1]

\* A head that was blamed serves no other stage either.
Route(c) ==
  /\ c \in [Stage -> Device] /\ c[1] = HeadNow
  /\ Placement[1] \in dead => \A s \in Stage : c[s] # Placement[1]

Succ(c, s) == IF s < N THEN c[s + 1] ELSE NoDevice

\* The stages below k send to the next one.
Wired(c, k) ==
  \A s \in Stage : s < k /\ c[s] \notin crashed => next_hop[c[s]][s] = Succ(c, s)

\* The stages below k have run position p, and the others are to.
Holds(c, k, p) ==
  \A s \in Stage : c[s] \notin crashed => kv[c[s]][s] = IF s < k THEN p + 1 ELSE p

\* A handler or a forward of the step has come to its stage.
OnRoute(c, m) == m.dev = c[m.stage] /\ m.good /\ Holds(c, m.stage, job.at)

HandlerOnRoute(c, h) ==
  /\ OnRoute(c, h) /\ h.hop = Succ(c, h.stage)
  /\ h.st = "running" => h.len = job.at /\ h.attached

\* Who has been blamed: the dead are crashed, but for the head.
HeadInv ==
  /\ dead \subseteq crashed \cup {Placement[1]}
  /\ Placement[1] \notin crashed
  /\ Route(plan)
  /\ job.pc \in {"call", "wait", "error"} \/ (job.pc = "replay" /\ job.i > 1) => job.head = HeadNow

OnCall(c) ==
  /\ pending.answer # None => pending.answer = "good" /\ Holds(c, N + 1, job.at)
  /\ \A h \in handlers : HandlerOnRoute(c, h)
  /\ \A m \in forwards : OnRoute(c, m)
  /\ \A m \in results : m.good /\ Holds(c, N + 1, job.at)

Along(c) ==
  /\ Route(c) /\ Wired(c, N + 1)
  /\ job.pc = "step" => Holds(c, 1, job.pos)
  /\ job.pc = "replay" => Holds(c, 1, job.i - 1)
  /\ Calling => OnCall(c)

RouteInv ==
  job.pc \in {"step", "call", "wait", "replay"} => \E c \in [Stage -> Device] : Along(c)

\* The recovery prepares the next route.
RewireInv ==
  /\ job.pc = "rewire" => Route(job.rplan) /\ Wired(job.rplan, job.i)
  /\ job.pc = "evict" =>
       /\ Route(job.rplan) /\ Wired(job.rplan, N + 1)
       /\ \A s \in Stage : job.rplan[s] \notin crashed =>
            job.rplan[s] \in job.todo \/ kv[job.rplan[s]][s] = 0

Calm == ~job.wrong /\ (~Over => HeadInv /\ RouteInv /\ RewireInv)

CalmInv == hasty = 0 => Calm

-----------------------------------------------------------------------------
(* The plan is a route.                                                    *)

\* Whoever is dead, a plan that build_execution_plan returns is a route.
LEMMA PlanIsRoute ==
  ASSUME dead \subseteq Device, Viable(Placement, Recovery, dead),
         plan = build_execution_plan(Placement, Recovery, dead)
  PROVE  Route(plan)
<1>1. plan \in [Stage -> Device]
  BY Shape, ViablePlanStages DEF Stage, N
<1>2. DOMAIN Placement = Stage /\ 1 \in Stage
  BY Shape
<1>3. plan[1] = HeadNow
  BY <1>2 DEF build_execution_plan, Serving, HeadNow
<1>4. \A s \in Stage : plan[s] \notin dead
  BY <1>2, ViablePlanAvoidsDead
<1> QED
  BY <1>1, <1>3, <1>4 DEF Route

\* The same after a mark.
LEMMA MarkedPlanIsRoute ==
  ASSUME GatewayType, NEW d \in Device, MarkDead(d), Viable(Placement, Recovery, dead')
  PROVE  Route(plan)'
<1>1. dead' \subseteq Device /\ plan' = build_execution_plan(Placement, Recovery, dead')
  BY MarkType DEF MarkDead
<1>2. plan' \in [Stage -> Device]
  BY <1>1, Shape, ViablePlanStages DEF Stage, N
<1>3. DOMAIN Placement = Stage /\ 1 \in Stage
  BY Shape
<1>4. plan'[1] = HeadNow'
  BY <1>1, <1>3 DEF build_execution_plan, Serving, HeadNow
<1>5. \A s \in Stage : plan'[s] \notin dead'
  BY <1>1, <1>3, ViablePlanAvoidsDead
<1> QED
  BY <1>2, <1>4, <1>5 DEF Route

LEMMA InitCalm == Init => Calm
<1> SUFFICES ASSUME Init PROVE Calm
  OBVIOUS
<1>1. Route(plan)
  BY NobodyDead, PlanIsRoute DEF Init
<1>2. plan = Placement
  <2>1. plan = [i \in DOMAIN Placement |-> Placement[i]]
    BY DEF Init, build_execution_plan, Serving
  <2> QED
    BY <2>1, Shape
<1>3. Wired(Placement, N + 1)
  <2>1. ASSUME NEW s \in Stage
        PROVE  next_hop[Placement[s]][s] = Succ(Placement, s)
    BY Shape DEF Init, Succ
  <2> QED
    BY <2>1 DEF Wired
<1>4. Holds(Placement, 1, job.pos)
  <2>1. \A s \in Stage : ~(s < 1) /\ Placement[s] \in Device
    BY Shape DEF Stage
  <2>2. job.pos = 0 /\ \A d \in Device : \A s \in Stage : kv[d][s] = 0
    BY DEF Init
  <2> QED
    BY <2>1, <2>2 DEF Holds
<1>5. job.pc = "step" /\ ~job.wrong
  BY DEF Init
<1>6. HeadInv
  BY <1>1, <1>5 DEF Init, HeadInv
<1>7. Along(Placement)
  BY <1>1, <1>2, <1>3, <1>4, <1>5 DEF Along, Calling
<1>8. RouteInv /\ RewireInv
  BY <1>5, <1>7, Shape DEF RouteInv, RewireInv
<1> QED
  BY <1>5, <1>6, <1>8 DEF Calm

-----------------------------------------------------------------------------
(* The step on its way through the chain.                                  *)

\* Nothing but the chain has moved.
LEMMA ChainCalm ==
  ASSUME Calm, UNCHANGED <<crashed, dead, plan, next_hop>>, Calling, Calling',
         job'.pc = "call" => job.pc = "call",
         job'.head = job.head, job'.wrong = job.wrong,
         \A c \in [Stage -> Device] : Along(c) => OnCall(c)'
  PROVE  Calm'
<1>1. /\ job.pc \in {"call", "wait"} /\ job'.pc \in {"call", "wait"}
      /\ ~job.wrong /\ HeadInv /\ RouteInv /\ job.head = HeadNow
  BY DEF Calling, Calm, Over, HeadInv
<1>2. HeadInv'
  BY <1>1 DEF HeadInv, Route, HeadNow
<1>3. PICK c \in [Stage -> Device] : Along(c)
  BY <1>1 DEF RouteInv
<1>4. Along(c)'
  BY <1>1, <1>3 DEF Along, Route, HeadNow, Wired, Succ
<1>5. RouteInv' /\ RewireInv'
  BY <1>1, <1>3, <1>4 DEF RouteInv, RewireInv
<1> QED
  BY <1>1, <1>2, <1>5 DEF Calm

\* A handler runs on the cache the route promises it.
LEMMA RunCalm ==
  ASSUME TypeInv, Solo, Calm, NEW h \in handlers, Run(h)
  PROVE  Calm'
<1>0. PICK k : k = Started(h)
  OBVIOUS
<1>1. /\ handlers' = {k} /\ forwards = {} /\ results = {} /\ Calling /\ pending.answer = None
  BY <1>0, RunSolo DEF Solo, Alone, Awaited
<1>2. /\ UNCHANGED <<crashed, dead, plan, pending, job, next_hop, forwards, results>>
      /\ kv' = IF h.at = 0 THEN [kv EXCEPT ![h.dev][h.stage] = 0] ELSE kv
  BY DEF Run, gateway
<1>3. /\ h.dev \in Device \ crashed /\ h.stage \in Stage /\ h.at = job.at /\ job.at \in Nat
      /\ kv \in [Device -> [Stage -> CacheLen]]
  BY Shape DEF TypeInv, WorkerType, GatewayType, HandlerType, JobType, HandlerPlace, Solo, Awaited,
     OfTheCall, Position
<1>4. ASSUME NEW c \in [Stage -> Device], Along(c)
      PROVE  OnCall(c)'
  <2>1. HandlerOnRoute(c, h)
    BY <1>1, <1>4 DEF Along, OnCall
  <2>2. h.dev = c[h.stage] /\ h.good /\ Holds(c, h.stage, job.at) /\ h.hop = Succ(c, h.stage)
    BY <2>1 DEF HandlerOnRoute, OnRoute
  <2>3. kv[h.dev][h.stage] = job.at
    <3>1. ~(h.stage < h.stage)
      BY <1>3, Shape DEF Stage
    <3> QED
      BY <1>3, <2>2, <3>1 DEF Holds
  <2>4. kv' = kv
    BY <1>2, <1>3, <2>3
  <2>5. Holds(c, h.stage, job.at)'
    BY <1>2, <2>2, <2>4 DEF Holds
  <2>6. /\ k.dev = h.dev /\ k.good = h.good /\ k.stage = h.stage /\ k.hop = h.hop
        /\ k.attached /\ k.len = job.at
    BY <1>0, <1>3, <2>3, StartedFields DEF TypeInv
  <2>7. HandlerOnRoute(c, k)'
    BY <1>2, <2>2, <2>5, <2>6 DEF HandlerOnRoute, OnRoute, Succ
  <2> QED
    BY <1>1, <1>2, <2>7 DEF OnCall
<1>5. Calling' /\ job'.pc = job.pc /\ job'.head = job.head /\ job'.wrong = job.wrong
  BY <1>1, <1>2 DEF Calling
<1> QED
  BY <1>1, <1>2, <1>4, <1>5, ChainCalm

\* It leaves the cache one position longer, and the step one stage further.
LEMMA FinishCalm ==
  ASSUME TypeInv, Solo, Calm, NEW h \in handlers, Finish(h)
  PROVE  Calm'
<1> DEFINE len == Advance(h.len, h.at, h.good)
           res == [call |-> h.call, at |-> h.at, good |-> len # Bad /\ h.stage = N, from |-> h.dev]
           msg == Message(h.call, h.at, len # Bad, h.hop, h.stage + 1, h.dev)
<1>1. /\ handlers' = {} /\ forwards = {} /\ results = {} /\ Calling /\ pending.answer = None
  BY DEF Solo, Alone, Awaited, Finish
<1>2. /\ UNCHANGED <<crashed, dead, plan, pending, next_hop>>
      /\ h.st = "running"
      /\ kv' = IF h.attached THEN [kv EXCEPT ![h.dev][h.stage] = len] ELSE kv
      /\ IF h.hop = NoDevice THEN results' = {res} /\ forwards' = {}
         ELSE results' = {} /\ (forwards' = {} \/ forwards' = {msg})
      /\ job' = IF job.pc = "call" /\ job.call = h.call /\ h.stage = 1
                THEN [job EXCEPT !.pc = "wait"] ELSE job
  BY <1>1 DEF Finish
<1>3. /\ h.dev \in Device \ crashed /\ h.stage \in Stage /\ h.at = job.at /\ h.at \in Position
      /\ h.good \in BOOLEAN
      /\ kv \in [Device -> [Stage -> CacheLen]] /\ job \in JobType
  BY Shape DEF TypeInv, WorkerType, GatewayType, HandlerType, HandlerPlace, Solo, Awaited,
     OfTheCall
<1>4. /\ Calling' /\ (job'.pc = "call" => job.pc = "call") /\ job'.head = job.head
      /\ job'.wrong = job.wrong /\ job'.at = job.at
  BY <1>1, <1>2, <1>3 DEF Calling, JobType
<1>5. ASSUME NEW c \in [Stage -> Device], Along(c)
      PROVE  OnCall(c)'
  <2>1. /\ HandlerOnRoute(c, h)
    BY <1>1, <1>5 DEF Along, OnCall
  <2>2. /\ h.dev = c[h.stage] /\ h.good /\ Holds(c, h.stage, job.at) /\ h.hop = Succ(c, h.stage)
        /\ h.len = h.at /\ h.attached
    BY <1>2, <1>3, <2>1 DEF HandlerOnRoute, OnRoute
  <2>3. len = job.at + 1 /\ len # Bad
    <3>1. /\ Advance(h.len, h.at, h.good) # Bad <=> h.good /\ h.len = h.at
          /\ h.good /\ h.len = h.at => Advance(h.len, h.at, h.good) = h.at + 1
      BY <1>3, AdvanceType
    <3> QED
      BY <1>3, <2>2, <3>1
  <2> HIDE DEF len
  <2>4. kv' = [kv EXCEPT ![h.dev][h.stage] = job.at + 1]
    BY <1>2, <2>2, <2>3
  <2>5. h.stage \in Nat /\ \A s \in Stage : s \in Nat /\ (s < h.stage + 1 <=> s < h.stage \/ s = h.stage)
    BY <1>3, Shape DEF Stage
  <2>6. Holds(c, h.stage + 1, job.at)'
    <3> SUFFICES ASSUME NEW s \in Stage, c[s] \notin crashed
                 PROVE  kv'[c[s]][s] = IF s < h.stage + 1 THEN job.at + 1 ELSE job.at
      BY <1>2, <1>4 DEF Holds
    <3>1. kv[c[s]][s] = IF s < h.stage THEN job.at + 1 ELSE job.at
      BY <2>2 DEF Holds
    <3>2. CASE s = h.stage
      BY <1>3, <2>2, <2>4, <2>5, <3>2
    <3>3. CASE s # h.stage
      <4>1. kv'[c[s]][s] = kv[c[s]][s]
        BY <1>3, <2>4, <3>3
      <4> QED
        BY <2>5, <3>1, <3>3, <4>1
    <3> QED
      BY <3>2, <3>3
  <2>7. CASE h.stage < N
    <3>1. h.stage + 1 \in Stage /\ h.hop = c[h.stage + 1]
      BY <1>3, <2>2, <2>7, Shape DEF Stage, Succ
    <3>2. h.hop # NoDevice
      BY <3>1, Shape
    <3>3. /\ msg.dev = c[h.stage + 1] /\ msg.stage = h.stage + 1 /\ msg.good
      BY <2>3, <3>1 DEF Message
    <3>4. OnRoute(c, msg)'
      BY <2>6, <3>3 DEF OnRoute
    <3> HIDE DEF msg, res
    <3> QED
      BY <1>1, <1>2, <3>2, <3>4 DEF OnCall
  <2>8. CASE ~(h.stage < N)
    <3>1. h.stage = N /\ h.hop = NoDevice
      BY <1>3, <2>2, <2>8, Shape DEF Stage, Succ
    <3>2. res.good
      BY <2>3, <3>1
    <3> HIDE DEF msg, res
    <3> QED
      BY <1>1, <1>2, <2>6, <3>1, <3>2 DEF OnCall
  <2> QED
    BY <2>7, <2>8
<1> HIDE DEF len
<1>6. QED
  BY <1>1, <1>2, <1>4, <1>5, ChainCalm

\* The next stage reads its next hop as it is entered.
LEMMA ForwardCalm ==
  ASSUME TypeInv, Solo, Calm, NEW m \in forwards, ForwardArrives(m) \/ ForwardFails(m)
  PROVE  Calm'
<1>1. /\ handlers = {} /\ results = {} /\ forwards' = {} /\ Calling /\ pending.answer = None
  BY DEF Solo, Alone, Awaited, ForwardArrives, ForwardFails
<1>2. /\ UNCHANGED <<crashed, dead, plan, pending, job, next_hop, kv, results>>
  BY DEF ForwardArrives, ForwardFails, gateway
<1>3. m \in ForwardType /\ (ForwardArrives(m) => m.dev \notin crashed)
  BY DEF TypeInv, WorkerType, ForwardArrives
<1>4. ASSUME NEW c \in [Stage -> Device], Along(c)
      PROVE  OnCall(c)'
  <2>1. OnRoute(c, m) /\ Wired(c, N + 1)
    BY <1>1, <1>4 DEF Along, OnCall
  <2>2. OnRoute(c, m)'
    BY <1>2, <2>1 DEF OnRoute, Holds
  <2>3. CASE ForwardFails(m)
    <3>1. handlers' = {}
      BY <1>1, <2>3 DEF ForwardFails
    <3> QED
      BY <1>1, <1>2, <3>1 DEF OnCall
  <2>4. CASE ForwardArrives(m)
    <3>1. PICK g : handlers' = {Handler(m, g)}
      BY <1>1, <2>4 DEF ForwardArrives, Enter
    <3>2. PICK k : k = Handler(m, g)
      OBVIOUS
    <3>3. m.stage \in Stage /\ m.stage < N + 1 /\ m.dev = c[m.stage]
      BY <1>3, <2>1, Shape DEF ForwardType, Stage, OnRoute
    <3>4. next_hop[m.dev][m.stage] = Succ(c, m.stage)
      BY <1>3, <2>1, <2>4, <3>3 DEF Wired
    <3>5. /\ k.dev = m.dev /\ k.stage = m.stage /\ k.good = m.good
          /\ k.hop = Succ(c, m.stage) /\ k.st # "running"
      BY <3>2, <3>4 DEF Handler
    <3>6. HandlerOnRoute(c, k)'
      BY <2>2, <3>5 DEF HandlerOnRoute, OnRoute, Succ
    <3> QED
      BY <1>1, <1>2, <3>1, <3>2, <3>6 DEF OnCall
  <2> QED
    BY <2>3, <2>4
<1>5. Calling' /\ job'.pc = job.pc /\ job'.head = job.head /\ job'.wrong = job.wrong
  BY <1>1, <1>2 DEF Calling
<1> QED
  BY <1>1, <1>2, <1>4, <1>5, ChainCalm

\* The tail's token is the right one, whether it is recorded or not.
LEMMA ResultCalm ==
  ASSUME TypeInv, Solo, Calm, NEW m \in results, ResultReady(m) \/ ResultLost(m)
  PROVE  Calm'
<1>1. /\ handlers = {} /\ forwards = {} /\ results' = {} /\ Calling /\ pending.answer = None
  BY DEF Solo, Alone, Awaited, ResultReady, ResultLost
<1>2. /\ UNCHANGED <<crashed, dead, plan, job, next_hop, kv, handlers, forwards>>
  BY DEF ResultReady, ResultLost, gateway, workers
<1>3. /\ pending' = pending
      \/ pending' = [pending EXCEPT !.answer = IF m.good THEN "good" ELSE "bad"]
  BY DEF ResultReady, ResultLost, record_result, gateway
<1>4. ASSUME NEW c \in [Stage -> Device], Along(c)
      PROVE  OnCall(c)'
  <2>1. m.good /\ Holds(c, N + 1, job.at)
    BY <1>1, <1>4 DEF Along, OnCall
  <2>2. Holds(c, N + 1, job.at)'
    BY <1>2, <2>1 DEF Holds
  <2>3. pending'.answer \in {None, "good"}
    BY <1>1, <1>3, <2>1 DEF TypeInv, GatewayType, PendingType
  <2> QED
    BY <1>1, <1>2, <2>2, <2>3 DEF OnCall
<1>5. Calling' /\ job'.pc = job.pc /\ job'.head = job.head /\ job'.wrong = job.wrong
  BY <1>1, <1>2 DEF Calling
<1> QED
  BY <1>1, <1>2, <1>4, <1>5, ChainCalm

\* A crash behind the head takes devices out of every promise.
LEMMA CrashCalm ==
  ASSUME Placement[1] \notin Crashable, Calm, NEW d \in Device, Crash(d)
  PROVE  Calm'
<1>1. /\ crashed' = crashed \cup {d} /\ d # Placement[1] /\ handlers' \subseteq handlers
      /\ UNCHANGED <<dead, plan, pending, job, next_hop, kv, forwards, results>>
  BY DEF Crash, gateway
<1>2. ASSUME HeadInv PROVE HeadInv'
  BY <1>1, <1>2 DEF HeadInv, Route, HeadNow
<1>3. ASSUME NEW c, NEW k, NEW p
      PROVE  (Holds(c, k, p) => Holds(c, k, p)') /\ (Wired(c, k) => Wired(c, k)')
  BY <1>1 DEF Holds, Wired, Succ
<1>4. ASSUME NEW c PROVE Route(c) => Route(c)'
  BY <1>1 DEF Route, HeadNow
<1>5. ASSUME NEW c \in [Stage -> Device], Along(c)
      PROVE  Along(c)'
  <2>1. Calling => OnCall(c)'
    BY <1>1, <1>3, <1>5 DEF Along, OnCall, HandlerOnRoute, OnRoute, Succ
  <2> QED
    BY <1>1, <1>3, <1>4, <1>5, <2>1 DEF Along, Calling
<1>6. ASSUME RouteInv PROVE RouteInv'
  BY <1>1, <1>5, <1>6 DEF RouteInv
<1>7. ASSUME RewireInv PROVE RewireInv'
  BY <1>1, <1>3, <1>4, <1>7 DEF RewireInv
<1> QED
  BY <1>1, <1>2, <1>6, <1>7 DEF Calm, Over

\* The heartbeat marks a worker behind the head: the first stage stays where it is.
LEMMA OnFailureCalm ==
  ASSUME TypeInv, Calm, NEW d \in Device, OnFailure(d)
  PROVE  Calm'
<1>1. /\ d \in crashed /\ MarkDead(d) /\ dead' = dead \cup {d}
      /\ UNCHANGED <<crashed, pending, job, next_hop, kv, handlers, forwards, results>>
  BY DEF OnFailure, MarkDead, workers
<1>2. ASSUME HeadInv PROVE HeadNow' = HeadNow /\ (Placement[1] \in dead' <=> Placement[1] \in dead)
  BY <1>1, <1>2 DEF HeadNow, HeadInv
<1>3. ASSUME HeadInv PROVE HeadInv'
  <2>1. Route(plan)'
    <3>1. CASE Viable(Placement, Recovery, dead')
      BY <1>1, <3>1, MarkedPlanIsRoute DEF TypeInv
    <3>2. CASE ~Viable(Placement, Recovery, dead')
      BY <1>1, <1>2, <1>3, <3>2 DEF MarkDead, HeadInv, Route
    <3> QED
      BY <3>1, <3>2
  <2> QED
    BY <1>1, <1>2, <1>3, <2>1 DEF HeadInv
<1>4. ASSUME HeadInv, NEW c PROVE Route(c) <=> Route(c)'
  BY <1>2, <1>4 DEF Route
<1>5. ASSUME HeadInv, NEW c \in [Stage -> Device], Along(c)
      PROVE  Along(c)'
  BY <1>1, <1>4, <1>5 DEF Along, OnCall, HandlerOnRoute, OnRoute, Holds, Wired, Succ, Calling
<1>6. ASSUME HeadInv, RouteInv PROVE RouteInv'
  BY <1>1, <1>5, <1>6 DEF RouteInv
<1>7. ASSUME HeadInv, RewireInv PROVE RewireInv'
  BY <1>1, <1>4, <1>7 DEF RewireInv, Wired, Succ
<1> QED
  BY <1>1, <1>3, <1>6, <1>7 DEF Calm, Over

-----------------------------------------------------------------------------
(* The request's thread.                                                   *)

\* A call goes to the head of the route.
LEMMA InvokeCalm ==
  ASSUME TypeInv, Solo, Calm, ~Over, job.pc \in {"step", "replay"},
         NEW d \in Device, d = HeadNow, NEW p \in Position, Invoke(d, p, job),
         NEW c \in [Stage -> Device], Along(c), Holds(c, 1, p),
         UNCHANGED <<crashed, dead, plan, next_hop, kv, forwards, results>>
  PROVE  Calm'
<1>1. Quiet /\ job \in JobType /\ HeadInv /\ RewireInv /\ ~job.wrong
  BY QuietBetweenCalls DEF Calling, TypeInv, GatewayType, Calm
<1>2. CASE d \in crashed
  <2>1. job' = [job EXCEPT !.pc = "error", !.head = d]
    BY <1>2 DEF Invoke
  <2>2. job'.pc = "error" /\ job'.head = HeadNow /\ job'.wrong = job.wrong
    BY <1>1, <2>1 DEF JobType
  <2>3. HeadInv' /\ RouteInv' /\ RewireInv'
    BY <1>1, <2>2 DEF HeadInv, Route, HeadNow, RouteInv, RewireInv
  <2> QED
    BY <1>1, <2>2, <2>3 DEF Calm
<1>3. CASE d \notin crashed
  <2> DEFINE m == Message(job.call + 1, p, TRUE, d, 1, NoDevice)
  <2>1. /\ pending' = [on |-> TRUE, at |-> p, answer |-> None] /\ Enter(m)
        /\ job' = [job EXCEPT !.pc = "call", !.head = d, !.at = p, !.call = @ + 1]
    BY <1>3 DEF Invoke
  <2>2. job'.pc = "call" /\ job'.head = HeadNow /\ job'.at = p /\ job'.wrong = job.wrong
    BY <1>1, <2>1 DEF JobType
  <2>3. PICK k : handlers' = {k} /\ \E g : k = Handler(m, g)
    BY <1>1, <2>1 DEF Enter, Quiet
  <2>4. c[1] = d /\ Route(c) /\ Wired(c, N + 1) /\ 1 \in Stage /\ 1 < N + 1
    BY Shape DEF Along, Route
  <2>5. next_hop[d][1] = Succ(c, 1)
    BY <1>3, <2>4 DEF Wired
  <2>6. k.dev = c[1] /\ k.stage = 1 /\ k.good /\ k.hop = Succ(c, 1) /\ k.st # "running"
    BY <2>3, <2>4, <2>5 DEF Handler, Message
  <2>7. Holds(c, 1, job.at)'
    BY <2>2 DEF Holds
  <2>8. HandlerOnRoute(c, k)'
    BY <2>6, <2>7 DEF HandlerOnRoute, OnRoute, Succ
  <2>9. OnCall(c)'
    <3>1. pending'.answer = None /\ forwards' = {} /\ results' = {}
      BY <1>1, <2>1 DEF Quiet
    <3> QED
      BY <2>3, <2>8, <3>1 DEF OnCall
  <2>10. Along(c)'
    BY <2>2, <2>4, <2>9 DEF Along, Route, HeadNow, Wired, Succ
  <2>11. HeadInv' /\ RouteInv' /\ RewireInv'
    BY <1>1, <2>2, <2>10 DEF HeadInv, Route, HeadNow, RouteInv, RewireInv
  <2> QED
    BY <1>1, <2>2, <2>11 DEF Calm
<1> QED
  BY <1>2, <1>3

LEMMA StepCalm ==
  ASSUME TypeInv, Solo, Calm, Step
  PROVE  Calm'
<1>1. /\ job.pc = "step" /\ Invoke(plan[1], job.pos, job)
      /\ UNCHANGED <<crashed, dead, plan, next_hop, kv, forwards, results>>
  BY DEF Step
<1>2. ~Over /\ HeadInv /\ RouteInv
  BY <1>1 DEF Over, Calm
<1>3. plan[1] \in Device /\ plan[1] = HeadNow
  BY <1>2, Shape DEF HeadInv, Route
<1>4. job.pos \in Position
  BY <1>1, Shape DEF TypeInv, GatewayType, JobPlace, JobType, Unfinished, Position
<1>5. PICK c \in [Stage -> Device] : Along(c)
  BY <1>1, <1>2 DEF RouteInv
<1>6. Holds(c, 1, job.pos)
  BY <1>1, <1>5 DEF Along
<1> QED
  BY <1>1, <1>2, <1>3, <1>4, <1>5, <1>6, InvokeCalm

LEMMA ReplayCalm ==
  ASSUME TypeInv, Solo, Calm, Replay
  PROVE  Calm'
<1>1. /\ job.pc = "replay" /\ Invoke(IF job.i = 1 THEN plan[1] ELSE job.head, job.i - 1, job)
      /\ UNCHANGED <<crashed, dead, plan, next_hop, kv, forwards, results>>
  BY DEF Replay
<1>2. ~Over /\ HeadInv /\ RouteInv
  BY <1>1 DEF Over, Calm
<1>3. job.i \in Nat /\ job.i > 0 /\ job.i <= job.pos + 1 /\ job.pos < MaxTokens /\ job.pos \in Nat
  BY <1>1, Shape DEF TypeInv, GatewayType, JobPlace, JobType, Unfinished
<1> DEFINE d == IF job.i = 1 THEN plan[1] ELSE job.head
<1>4. d \in Device /\ d = HeadNow
  <2>1. plan[1] = HeadNow /\ HeadNow \in Device
    BY <1>2, Shape DEF HeadInv, Route
  <2>2. job.i # 1 => job.head = HeadNow
    BY <1>1, <1>2, <1>3 DEF HeadInv
  <2> QED
    BY <2>1, <2>2
<1>5. job.i - 1 \in Position
  BY <1>3, Shape DEF Position
<1>6. PICK c \in [Stage -> Device] : Along(c)
  BY <1>1, <1>2 DEF RouteInv
<1>7. Holds(c, 1, job.i - 1)
  BY <1>1, <1>6 DEF Along
<1> QED
  BY <1>1, <1>2, <1>4, <1>5, <1>6, <1>7, InvokeCalm

\* A call that fails leaves the blame with its head.
LEMMA CallEndsCalm ==
  ASSUME TypeInv, Calm, CallFails \/ TimeOut
  PROVE  Calm'
<1>1. /\ Calling /\ job' = [job EXCEPT !.pc = "error"]
      /\ UNCHANGED <<crashed, dead, plan>>
  BY DEF CallFails, TimeOut, Calling
<1>2. job'.pc = "error" /\ job'.head = job.head /\ job'.wrong = job.wrong
  BY <1>1 DEF TypeInv, GatewayType, JobType
<1>3. ~job.wrong /\ HeadInv /\ job.head = HeadNow
  BY <1>1 DEF Calm, Over, Calling, HeadInv
<1>4. HeadInv' /\ RouteInv' /\ RewireInv'
  BY <1>1, <1>2, <1>3 DEF HeadInv, Route, HeadNow, RouteInv, RewireInv
<1> QED
  BY <1>2, <1>3, <1>4 DEF Calm

\* The answer is the right token, and every stage is one position further.
LEMMA AnsweredCalm ==
  ASSUME TypeInv, Solo, Calm, Answered
  PROVE  Calm'
<1> DEFINE j == [job EXCEPT !.i = 0, !.pos = @ + 1, !.wrong = @ \/ pending.answer = "bad"]
<1>1. /\ job.pc = "wait" /\ pending.answer # None
      /\ job' = IF Replaying /\ job.at < job.pos THEN [job EXCEPT !.pc = "replay", !.i = @ + 1]
                ELSE IF j.pos = MaxTokens THEN StartEvict(j, "done")
                     ELSE [j EXCEPT !.pc = "step"]
      /\ UNCHANGED <<crashed, dead, plan, next_hop, kv>>
  BY DEF Answered, workers
<1>2. /\ ~job.wrong /\ HeadInv /\ RouteInv /\ job.head = HeadNow
  BY <1>1 DEF Calm, Over, HeadInv
<1>3. PICK c \in [Stage -> Device] : Along(c)
  BY <1>1, <1>2 DEF RouteInv
<1>4. pending.answer = "good" /\ Holds(c, N + 1, job.at) /\ Route(c) /\ Wired(c, N + 1)
  BY <1>1, <1>3 DEF Along, OnCall, Calling
<1>5. /\ job \in JobType /\ job.i \in Nat /\ job.at \in Nat /\ job.pos \in Nat
      /\ job.at = IF job.i > 0 THEN job.i - 1 ELSE job.pos
      /\ Calling /\ job.i <= job.pos + 1
  BY <1>1, Shape DEF TypeInv, GatewayType, JobPlace, JobType, Calling, Position
<1>6. Holds(c, 1, job.at + 1)'
  <2>1. \A s \in Stage : s < N + 1 /\ ~(s < 1)
    BY Shape DEF Stage
  <2>2. \A s \in Stage : c[s] \notin crashed => kv[c[s]][s] = job.at + 1
    BY <1>4, <2>1 DEF Holds
  <2>3. \A s \in Stage : c[s] \notin crashed' => kv'[c[s]][s] = job'.at + 1
    <3>1. job'.at = job.at
      <4>1. CASE Replaying /\ job.at < job.pos
        BY <1>1, <1>5, <4>1 DEF JobType
      <4>2. CASE ~(Replaying /\ job.at < job.pos)
        <5>1. j.at = job.at /\ DOMAIN j = DOMAIN job /\ "at" \in DOMAIN job
          BY <1>5 DEF JobType
        <5> HIDE DEF j
        <5> QED
          BY <1>1, <4>2, <5>1 DEF StartEvict
      <4> QED
        BY <4>1, <4>2
    <3> QED
      BY <1>1, <2>2, <3>1
  <2> QED
    BY <2>1, <2>3 DEF Holds
<1>7. HeadInv /\ UNCHANGED <<crashed, dead, plan, next_hop>>
  BY <1>1, <1>2
<1>8. CASE Replaying /\ job.at < job.pos
  <2>1. job'.pc = "replay" /\ job'.i = job.i + 1 /\ job'.head = job.head /\ job'.wrong = job.wrong
        /\ job'.at = job.at
    BY <1>1, <1>5, <1>8 DEF JobType
  <2>2. job'.i - 1 = job'.at + 1
    BY <1>5, <1>8, <2>1 DEF Replaying
  <2>3. Along(c)'
    BY <1>4, <1>6, <1>7, <2>1, <2>2 DEF Along, Route, HeadNow, Wired, Succ, Calling
  <2>4. HeadInv' /\ RouteInv' /\ RewireInv'
    BY <1>2, <1>7, <2>1, <2>3 DEF HeadInv, Route, HeadNow, RouteInv, RewireInv
  <2> QED
    BY <1>2, <2>1, <2>4 DEF Calm
<1>9. CASE ~(Replaying /\ job.at < job.pos)
  <2>1. /\ j.pos = job.at + 1 /\ j.at = job.at /\ ~j.wrong /\ DOMAIN j = DOMAIN job
        /\ {"pos", "at", "wrong", "pc", "todo", "then"} \subseteq DOMAIN job
    BY <1>2, <1>4, <1>5, <1>9 DEF Replaying, JobType
  <2> HIDE DEF j
  <2>2. CASE j.pos = MaxTokens
    <3>1. job' = StartEvict(j, "done")
      BY <1>1, <1>9, <2>2
    <3>2. job'.pc = "evict" /\ job'.then = "done" /\ ~job'.wrong
      BY <2>1, <3>1 DEF StartEvict
    <3> QED
      BY <3>2 DEF Calm, Over
  <2>3. CASE j.pos # MaxTokens
    <3>1. job' = [j EXCEPT !.pc = "step"]
      BY <1>1, <1>9, <2>3
    <3>2. job'.pc = "step" /\ job'.pos = job.at + 1 /\ job'.at = job.at /\ ~job'.wrong
      BY <2>1, <3>1
    <3>3. Along(c)'
      BY <1>4, <1>6, <1>7, <3>2 DEF Along, Route, HeadNow, Wired, Succ, Calling
    <3>4. HeadInv' /\ RouteInv' /\ RewireInv'
      BY <1>2, <1>7, <3>2, <3>3 DEF HeadInv, Route, HeadNow, RouteInv, RewireInv
    <3> QED
      BY <3>2, <3>4 DEF Calm
  <2> QED
    BY <2>2, <2>3
<1> QED
  BY <1>8, <1>9

-----------------------------------------------------------------------------
(* The recovery.                                                           *)

\* The head is blamed.  Its backup has taken the first stage over, or had it and
\* was blamed itself: then there is no plan any more.
LEMMA StepFailedCalm ==
  ASSUME TypeInv, Calm, StepFailed
  PROVE  Calm'
<1> DEFINE d == job.head
<1>1. /\ job.pc = "error" /\ job.wrong \in BOOLEAN /\ job \in JobType /\ d \in Device
      /\ UNCHANGED <<crashed, next_hop, kv>>
  BY DEF StepFailed, TypeInv, GatewayType, JobType, JobPlace, workers
<1>2. /\ ~job.wrong /\ HeadInv /\ d = HeadNow
  BY <1>1 DEF Calm, Over, HeadInv
<1>3. CASE job' = StartEvict(job, "failed")
  <2>1. job'.pc = "evict" /\ job'.then = "failed" /\ job'.wrong = job.wrong
    BY <1>1, <1>3 DEF StartEvict, JobType
  <2> QED
    BY <1>2, <2>1 DEF Calm, Over
<1>4. CASE job' # StartEvict(job, "failed")
  <2>1. /\ job' = [job EXCEPT !.pc = "promoted"]
        /\ IF d \in dead THEN UNCHANGED <<dead, plan>> ELSE MarkDead(d)
        /\ d \in dead \/ Viable(Placement, Recovery, dead \cup {d})
    BY <1>4 DEF StepFailed
  <2>2. job'.pc = "promoted" /\ job'.wrong = job.wrong
    BY <1>1, <2>1 DEF JobType
  <2>3. HeadInv'
    <3>1. CASE d \in dead
      BY <1>1, <1>2, <2>1, <2>2, <3>1 DEF HeadInv, Route, HeadNow
    <3>2. CASE d \notin dead
      <4>1. MarkDead(d) /\ dead' = dead \cup {d} /\ Viable(Placement, Recovery, dead')
        BY <2>1, <3>2 DEF MarkDead
      <4>2. Route(plan)'
        BY <1>1, <4>1, MarkedPlanIsRoute DEF TypeInv
      <4>3. d = Placement[1]
        <5>1. 1 \in DOMAIN Placement
          BY Shape
        <5> QED
          BY <1>2, <4>1, <5>1 DEF HeadNow, Viable
      <4> QED
        BY <1>1, <1>2, <2>2, <4>1, <4>2, <4>3 DEF HeadInv
    <3> QED
      BY <3>1, <3>2
  <2>4. RouteInv' /\ RewireInv'
    BY <2>2 DEF RouteInv, RewireInv
  <2> QED
    BY <1>2, <2>2, <2>3, <2>4 DEF Calm
<1> QED
  BY <1>3, <1>4

LEMMA StartRewireCalm ==
  ASSUME TypeInv, Calm, StartRewire
  PROVE  Calm'
<1>1. /\ job.pc = "promoted" /\ job' = [job EXCEPT !.pc = "rewire", !.i = 1, !.rplan = plan]
      /\ UNCHANGED <<crashed, dead, plan, next_hop, kv>>
  BY DEF StartRewire, workers
<1>2. job'.pc = "rewire" /\ job'.i = 1 /\ job'.rplan = plan /\ job'.wrong = job.wrong
  BY <1>1 DEF TypeInv, GatewayType, JobType
<1>3. ~job.wrong /\ HeadInv
  BY <1>1 DEF Calm, Over
<1>4. HeadInv' /\ RouteInv'
  BY <1>1, <1>2, <1>3 DEF HeadInv, Route, HeadNow, RouteInv
<1>5. RewireInv'
  <2>1. Route(plan)'
    BY <1>4 DEF HeadInv
  <2>2. \A s \in Stage : ~(s < 1)
    BY Shape DEF Stage
  <2> QED
    BY <1>1, <1>2, <2>1, <2>2 DEF RewireInv, Route, HeadNow, Wired
<1> QED
  BY <1>2, <1>3, <1>4, <1>5 DEF Calm

\* One more stage of the new route is wired.
LEMMA RewireCalm ==
  ASSUME TypeInv, Calm, Rewire
  PROVE  Calm'
<1> DEFINE s == job.i
           d == job.rplan[s]
           hop == IF s < N THEN job.rplan[s + 1] ELSE NoDevice
<1>1. /\ job.pc = "rewire"
      /\ IF d \in crashed THEN next_hop' = next_hop
         ELSE next_hop' = [next_hop EXCEPT ![d][s] = hop]
      /\ job' = IF s < N THEN [job EXCEPT !.i = s + 1] ELSE StartEvict(job, "replay")
      /\ UNCHANGED <<crashed, dead, plan, kv>>
  BY DEF Rewire
<1>2. /\ job \in JobType /\ s \in Stage /\ job.rplan \in [Stage -> Device]
      /\ next_hop \in [Device -> [Stage -> MaybeDevice]]
  BY <1>1 DEF TypeInv, GatewayType, JobPlace, WorkerType
<1>3. /\ ~job.wrong /\ HeadInv /\ Route(job.rplan) /\ Wired(job.rplan, s)
  BY <1>1 DEF Calm, Over, RewireInv
<1>4. hop = Succ(job.rplan, s)
  BY DEF Succ
<1> HIDE DEF hop
<1>5. \A t \in Stage : t \in Nat /\ s \in Nat /\ (t < s + 1 <=> t < s \/ t = s)
  BY <1>2, Shape DEF Stage
<1>6. ASSUME NEW t \in Stage, t < s + 1, job.rplan[t] \notin crashed
      PROVE  next_hop'[job.rplan[t]][t] = Succ(job.rplan, t)
  <2>1. CASE t = s
    BY <1>1, <1>2, <1>4, <1>6, <2>1
  <2>2. CASE t # s
    <3>1. next_hop'[job.rplan[t]][t] = next_hop[job.rplan[t]][t]
      BY <1>1, <1>2, <2>2
    <3> QED
      BY <1>3, <1>5, <1>6, <2>2, <3>1 DEF Wired
  <2> QED
    BY <2>1, <2>2
<1>7. CASE s < N
  <2>1. s + 1 \in Nat
    BY <1>2, Shape DEF Stage
  <2>2. job'.pc = "rewire" /\ job'.i = s + 1 /\ job'.rplan = job.rplan /\ job'.wrong = job.wrong
    BY <1>1, <1>2, <1>7, <2>1 DEF JobType
  <2>3. HeadInv' /\ RouteInv'
    BY <1>1, <1>3, <2>2 DEF HeadInv, Route, HeadNow, RouteInv
  <2>4. RewireInv'
    BY <1>1, <1>3, <1>6, <2>2 DEF RewireInv, Route, HeadNow, Wired, Succ
  <2> QED
    BY <1>3, <2>2, <2>3, <2>4 DEF Calm
<1>8. CASE ~(s < N)
  <2>1. s = N
    BY <1>2, <1>8, Shape DEF Stage
  <2>2. /\ job'.pc = "evict" /\ job'.then = "replay" /\ job'.rplan = job.rplan
        /\ job'.wrong = job.wrong /\ job'.todo = Device
    BY <1>1, <1>2, <1>8 DEF StartEvict, JobType
  <2>3. HeadInv' /\ RouteInv'
    BY <1>1, <1>3, <2>2 DEF HeadInv, Route, HeadNow, RouteInv
  <2>4. RewireInv'
    BY <1>1, <1>2, <1>3, <1>6, <2>1, <2>2 DEF RewireInv, Route, HeadNow, Wired, Succ
  <2> QED
    BY <1>3, <2>2, <2>3, <2>4 DEF Calm
<1> QED
  BY <1>7, <1>8

\* Every living worker of the new route is evicted before the replay.
LEMMA EvictCalm ==
  ASSUME TypeInv, Calm, Evict
  PROVE  Calm'
<1> DEFINE d == CHOOSE x \in job.todo : TRUE
<1>1. /\ job.pc = "evict"
      /\ IF d \in dead \cup crashed THEN kv' = kv
         ELSE kv' = [kv EXCEPT ![d] = [s \in Stage |-> 0]]
      /\ job' = IF job.todo = {d}
                THEN [job EXCEPT !.todo = {}, !.pc = job.then, !.i = 1, !.rplan = << >>]
                ELSE [job EXCEPT !.todo = @ \ {d}]
      /\ UNCHANGED <<crashed, dead, plan, next_hop>>
  BY DEF Evict
<1> HIDE DEF d
<1>2. /\ job \in JobType /\ kv \in [Device -> [Stage -> CacheLen]] /\ ~job.wrong
      /\ job.then \in {"replay", "done", "failed"}
  BY <1>1 DEF TypeInv, GatewayType, WorkerType, JobPlace, JobType, Calm
<1>3. job'.wrong = job.wrong
  BY <1>1, <1>2 DEF JobType
<1>4. CASE job.then # "replay"
  <2>1. CASE job.todo = {d}
    <3>1. job'.pc = job.then
      BY <1>1, <1>2, <2>1 DEF JobType
    <3> QED
      BY <1>2, <1>3, <1>4, <3>1 DEF Calm, Over
  <2>2. CASE job.todo # {d}
    <3>1. job'.pc = "evict" /\ job'.then = job.then
      BY <1>1, <1>2, <2>2 DEF JobType
    <3> QED
      BY <1>2, <1>3, <1>4, <3>1 DEF Calm, Over
  <2> QED
    BY <2>1, <2>2
<1>5. CASE job.then = "replay"
  <2>1. /\ HeadInv /\ Route(job.rplan) /\ Wired(job.rplan, N + 1)
        /\ \A s \in Stage : job.rplan[s] \notin crashed =>
             job.rplan[s] \in job.todo \/ kv[job.rplan[s]][s] = 0
    BY <1>1, <1>5 DEF Calm, Over, RewireInv
  <2>2. ASSUME NEW s \in Stage, job.rplan[s] \notin crashed
        PROVE  job.rplan[s] \in job.todo \ {d} \/ kv'[job.rplan[s]][s] = 0
    <3>1. job.rplan[s] \in Device
      BY <2>1 DEF Route
    <3>2. CASE job.rplan[s] = d
      <4>1. d \notin dead
        BY <2>1, <2>2, <3>2 DEF HeadInv, Route
      <4> QED
        BY <1>1, <1>2, <2>2, <3>1, <3>2, <4>1
    <3>3. CASE job.rplan[s] # d
      BY <1>1, <1>2, <2>1, <2>2, <3>1, <3>3
    <3> QED
      BY <3>2, <3>3
  <2>3. CASE job.todo = {d}
    <3> DEFINE c == job.rplan
    <3>1. job'.pc = "replay" /\ job'.i = 1 /\ job'.wrong = job.wrong
      BY <1>1, <1>2, <1>5, <2>3 DEF JobType
    <3>2. PICK r \in [Stage -> Device] : r = job.rplan
      BY <2>1 DEF Route
    <3>3. Holds(r, 1, job.i - 1)'
      <4>1. \A s \in Stage : ~(s < 1)
        BY Shape DEF Stage
      <4>2. \A s \in Stage : r[s] \notin crashed' => kv'[r[s]][s] = 0
        BY <1>1, <2>2, <2>3, <3>2
      <4> QED
        BY <3>1, <4>1, <4>2 DEF Holds
    <3>4. Along(r)'
      BY <1>1, <2>1, <3>1, <3>2, <3>3 DEF Along, Route, HeadNow, Wired, Succ, Calling
    <3>5. HeadInv' /\ RouteInv' /\ RewireInv'
      BY <1>1, <2>1, <3>1, <3>4 DEF HeadInv, Route, HeadNow, RouteInv, RewireInv
    <3> QED
      BY <1>2, <3>1, <3>5 DEF Calm
  <2>4. CASE job.todo # {d}
    <3>1. /\ job'.pc = "evict" /\ job'.then = "replay" /\ job'.todo = job.todo \ {d}
          /\ job'.rplan = job.rplan
      BY <1>1, <1>2, <1>5, <2>4 DEF JobType
    <3>2. RewireInv'
      BY <1>1, <2>1, <2>2, <3>1 DEF RewireInv, Route, HeadNow, Wired, Succ
    <3>3. HeadInv' /\ RouteInv'
      BY <1>1, <2>1, <3>1 DEF HeadInv, Route, HeadNow, RouteInv
    <3> QED
      BY <1>2, <1>3, <3>1, <3>2, <3>3 DEF Calm
  <2> QED
    BY <2>3, <2>4
<1> QED
  BY <1>4, <1>5

-----------------------------------------------------------------------------
LEMMA NextCalm ==
  ASSUME Placement[1] \notin Crashable
  PROVE  TypeInv /\ SoloInv /\ CalmInv /\ [Next]_vars => CalmInv'
<1> SUFFICES ASSUME TypeInv, SoloInv, CalmInv, [Next]_vars, hasty' = 0 PROVE Calm'
  BY DEF CalmInv
<1>1. Solo /\ Calm
  BY HastyGrows DEF SoloInv, CalmInv
<1>2. CASE Thread
  BY <1>1, <1>2, StepCalm, CallEndsCalm, AnsweredCalm, StepFailedCalm, StartRewireCalm,
     RewireCalm, EvictCalm, ReplayCalm DEF Thread
<1>3. CASE Chain
  BY <1>1, <1>3, RunCalm, FinishCalm, ForwardCalm, ResultCalm DEF Chain
<1>4. ASSUME NEW d \in Device, Crash(d) \/ OnFailure(d)
      PROVE  Calm'
  BY <1>1, <1>4, CrashCalm, OnFailureCalm
<1>5. CASE UNCHANGED vars
  BY <1>1, <1>5 DEF vars, workers, gateway, Calm, Over, HeadInv, Route, HeadNow, RouteInv, Along,
     Wired, Holds, Succ, OnCall, OnRoute, HandlerOnRoute, Calling, RewireInv
<1> QED
  BY <1>2, <1>3, <1>4, <1>5 DEF Next

\* A lost ResultReady, a dead worker behind the head, a healthy head blamed for it,
\* a late result: none of them makes a token wrong while no timeout is hasty.  The
\* head itself must not crash: the heartbeat could then promote its backup between
\* two tokens, and the step would go to a chain that nobody has rewired or replayed.
THEOREM NoTokenIsWrong ==
  ASSUME Placement[1] \notin Crashable
  PROVE  Spec => []NoWrongToken
<1>1. TypeInv /\ CalmInv => NoWrongToken
  BY DEF TypeInv, WorkerType, CalmInv, Calm, NoWrongToken
<1>2. Init => TypeInv /\ SoloInv /\ CalmInv
  BY InitType, InitSolo, InitCalm DEF CalmInv
<1>3. TypeInv /\ SoloInv /\ CalmInv /\ [Next]_vars => (TypeInv /\ SoloInv /\ CalmInv)'
  BY NextType, NextSolo, NextCalm
<1> QED
  BY <1>1, <1>2, <1>3, PTL DEF Spec
=============================================================================
