------------------------- MODULE ChainRecoveryProofs -------------------------
(***************************************************************************)
(* Proofs about ChainRecovery, for every placement, recovery table, number *)
(* of tokens and crash pattern: the types of its state, and, for a gateway *)
(* that serves one request at a time, who is declared dead, what one crash *)
(* can do, what it leaves behind, and that the tokens are right.           *)
(***************************************************************************)
EXTENDS ChainRecovery, CommonLemmas, FiniteSetTheorems, NaturalsInduction,
        SequenceTheorems

(***************************************************************************)
(* What the types rest on: the hop a handler is about to call serves a     *)
(* stage of the placement, and a job's fields fit the place its thread is  *)
(* at.                                                                     *)
(***************************************************************************)
JobType ==
  [pc : {"step", "wait", "promote", "rewire", "evict", "replay", "rebuild",
         "done", "failed"},
   pos : Position, out : 0..MaxTokens, wrong : BOOLEAN, attempts : Nat,
   stage : Stage, dev : MaybeDevice, rplan : Seq(Device),
   k : 0..(N + MaxTokens), todo : SUBSET Device,
   then : {"step", "done", "failed", "replay"}]

CallType ==
  [st : {"idle", "running", "ok", "error"}, live : BOOLEAN, at : Position,
   good : BOOLEAN, frames : Seq(FrameType), head : MaybeDevice, blame : 0..N,
   plan : Seq(Device)]

OrphanType ==
  [req : Request, at : Position, good : BOOLEAN, frame : FrameType,
   from : MaybeDevice]

MirrorType == [req : Request, stage : Stage, at : Position, good : BOOLEAN]

KVType == 0..MaxTokens \cup {Bad}

\* A handler that has run its layers and will forward has somewhere to forward.
HopFits(f) == f.st = "ran" => f.hop \in Device /\ f.stage < N

\* A recovery is under way: a device has been attributed.
Recovering(j) ==
  \/ j.pc \in {"promote", "rewire", "replay", "rebuild"}
  \/ j.pc = "evict" /\ j.then = "replay"

\* The last token is out.
Past(j) == j.pc = "done" \/ (j.pc = "evict" /\ j.then = "done")

JobFits(j) ==
  /\ IF j.out = MaxTokens THEN j.pos = 0 /\ Past(j) ELSE j.pos = j.out
  /\ Recovering(j) => j.dev \in Device
  /\ j.pc = "rewire" => j.rplan \in [Stage -> Device] /\ j.k \in Stage
  /\ j.pc \in {"replay", "rebuild"} \/ (j.pc = "evict" /\ j.then = "replay")
       => j.k <= j.pos

\* Every handler but the innermost waits for the next stage.
StackFits(fs) ==
  \A i \in DOMAIN fs :
    /\ HopFits(fs[i])
    /\ fs[i].st = "waiting" <=> i # Len(fs)
    /\ i # 1 => fs[i].stage = fs[i - 1].stage + 1

CallFits(c, j) ==
  /\ c.st = "running" <=> c.frames # << >>
  /\ StackFits(c.frames)
  /\ c.st # "idle" => c.head \in Device /\ j.pc \in {"wait", "replay", "rebuild"}

ChainTypes ==
  /\ crashed \subseteq Device /\ dead \subseteq Device
  /\ plan \in [Stage -> Device]
  /\ next_hop \in [Device -> [Stage -> MaybeDevice]]
  /\ kv \in [Request -> [Device -> [Stage -> KVType]]]
  /\ cache \in [Request -> [Stage -> [Position -> {"none", "good", "bad"}]]]
  /\ mirrors \subseteq MirrorType
  /\ call \in [Request -> CallType]
  /\ orphans \subseteq OrphanType
  /\ job \in [Request -> JobType]

ChainInv ==
  /\ ChainTypes
  /\ \A d \in Device : next_hop[d][N] = NoDevice
  /\ \A r \in Request : JobFits(job[r]) /\ CallFits(call[r], job[r])
  /\ \A o \in orphans : HopFits(o.frame)

-----------------------------------------------------------------------------
(* The constants, and the records the actions build. *)

LEMMA Shape ==
  /\ N \in Nat /\ N >= 1 /\ 1 \in Stage /\ N \in Stage
  /\ Placement \in Placements /\ Placement \in [Stage -> Device]
  /\ Recovery \in RecoveryTable /\ NoDevice \notin Device
  /\ MaxTokens \in Nat /\ MaxTokens >= 1 /\ 0 \in Position
<1>1. Placement \in Seq(Device) /\ Placement # << >>
  BY ChainAssumption DEF Placements
<1>2. Len(Placement) \in Nat /\ Len(Placement) >= 1 /\ Placement \in [1..Len(Placement) -> Device]
  BY <1>1
<1>3. MaxTokens \in Nat /\ MaxTokens >= 1 /\ 0 \in Position
  BY ChainAssumption DEF Position
<1> QED
  BY <1>2, <1>3, ChainAssumption, NoDeviceIsNoDevice DEF N, Stage

\* A run leaves a cache length, and a good one exactly when the input was good
\* and came next.
LEMMA AdvanceType ==
  ASSUME NEW len, NEW p \in Position, NEW good \in BOOLEAN
  PROVE  Advance(len, p, good) \in KVType
<1>1. p + 1 \in 0..MaxTokens /\ 1 \in 0..MaxTokens
  BY Shape DEF Position
<1> QED
  BY <1>1 DEF Advance, KVType

LEMMA FrameIsTyped ==
  ASSUME NEW d \in Device, NEW s \in Stage
  PROVE  Frame(d, s) \in FrameType /\ HopFits(Frame(d, s))
  BY DEF Frame, FrameType, HopFits, MaybeDevice

LEMMA NoCallIsTyped == NoCall \in CallType /\ \A j : CallFits(NoCall, j)
<1>1. << >> \in Seq(FrameType) /\ << >> \in Seq(Device) /\ 0 \in 0..N
      /\ StackFits(<< >>)
  BY Shape DEF StackFits
<1> QED
  BY <1>1, Shape DEF NoCall, CallType, CallFits, MaybeDevice

\* The call Invoke makes.
Calling(d, s, p, live, good) ==
  [NoCall EXCEPT !.st = "running", !.live = live, !.at = p, !.good = good,
                 !.head = d, !.plan = plan, !.frames = <<Frame(d, s)>>]

LEMMA InvokedIsTyped ==
  ASSUME NEW d \in Device, NEW s \in Stage, NEW p \in Position,
         NEW live \in BOOLEAN, NEW good \in BOOLEAN, plan \in [Stage -> Device],
         NEW j, j.pc \in {"wait", "replay", "rebuild"}
  PROVE  /\ Calling(d, s, p, live, good) \in CallType
         /\ CallFits(Calling(d, s, p, live, good), j)
<1> DEFINE c == Calling(d, s, p, live, good)
<1>1. plan \in Seq(Device) /\ <<Frame(d, s)>> \in Seq(FrameType)
  BY FrameIsTyped, Shape DEF Stage
<1>2. /\ c.st = "running" /\ c.live = live /\ c.at = p /\ c.good = good /\ c.head = d
      /\ c.plan = plan /\ c.frames = <<Frame(d, s)>> /\ c.blame = 0
  BY DEF Calling, NoCall
<1>3. c \in CallType
  <2>1. d \in MaybeDevice
    BY DEF MaybeDevice
  <2> QED
    BY <1>1, <2>1, NoCallIsTyped DEF Calling, CallType
<1>4. StackFits(<<Frame(d, s)>>)
  <2>1. Frame(d, s).st = "arriving"
    BY DEF Frame
  <2> QED
    BY <2>1, FrameIsTyped DEF StackFits
<1>5. <<Frame(d, s)>> # << >>
  OBVIOUS
<1> QED
  BY <1>2, <1>3, <1>4, <1>5 DEF CallFits

LEMMA StartEvictType ==
  ASSUME NEW j \in JobType, NEW then \in {"step", "done", "failed", "replay"},
         IF j.out = MaxTokens THEN j.pos = 0 /\ then = "done" ELSE j.pos = j.out,
         then = "replay" => j.dev \in Device /\ j.k <= j.pos
  PROVE  StartEvict(j, then) \in JobType /\ JobFits(StartEvict(j, then))
<1> DEFINE e == StartEvict(j, then)
<1>1. e \in JobType
  BY DEF StartEvict, JobType
<1>2. /\ e.pc = "evict" /\ e.then = then /\ e.pos = j.pos /\ e.out = j.out
      /\ e.dev = j.dev /\ e.k = j.k
  BY DEF StartEvict, JobType
<1> QED
  BY <1>1, <1>2 DEF JobFits, Past, Recovering

\* After a token: the next position, or the evictions of the end.
LEMMA EmitType ==
  ASSUME NEW j \in JobType, JobFits(j), ~Past(j), NEW good \in BOOLEAN
  PROVE  /\ Emit(j, good) \in JobType /\ JobFits(Emit(j, good))
         /\ Emit(j, good).pc \in {"step", "evict"}
<1> DEFINE j2 == [j EXCEPT !.out = @ + 1, !.pos = @ + 1, !.wrong = @ \/ ~good]
           e == [j2 EXCEPT !.pos = 0]
<1>1. j.pos = j.out /\ j.out \in Nat /\ j.out < MaxTokens
  BY Shape DEF JobFits, JobType
<1>2. j.out + 1 \in 0..MaxTokens /\ (j.out + 1 # MaxTokens => j.out + 1 \in Position)
  BY <1>1, Shape DEF Position
<1>3. CASE j.out + 1 = MaxTokens
  <2>1. e \in JobType /\ e.out = MaxTokens /\ e.pos = 0
    BY <1>2, <1>3, Shape DEF JobType
  <2>2. Emit(j, good) = StartEvict(e, "done")
    BY <1>3 DEF Emit, JobType
  <2>3. StartEvict(e, "done").pc = "evict"
    BY <2>1 DEF StartEvict, JobType
  <2> QED
    BY <2>1, <2>2, <2>3, StartEvictType
<1>4. CASE j.out + 1 # MaxTokens
  <2> DEFINE f == [j2 EXCEPT !.pc = "step"]
  <2>1. Emit(j, good) = f
    BY <1>4 DEF Emit, JobType
  <2>2. f \in JobType /\ f.out = j.out + 1 /\ f.pos = j.out + 1 /\ f.pc = "step"
    BY <1>1, <1>2, <1>4 DEF JobType
  <2> QED
    BY <1>4, <2>1, <2>2 DEF JobFits, Past, Recovering
<1> QED
  BY <1>3, <1>4

LEMMA ReprefillType ==
  ASSUME NEW j \in JobType, JobFits(j), ~Past(j)
  PROVE  /\ Reprefill(j) \in JobType /\ JobFits(Reprefill(j))
         /\ Reprefill(j).pc = "evict"
<1>1. j.pos = j.out /\ j.out # MaxTokens
  BY DEF JobFits
<1> DEFINE e == [j EXCEPT !.attempts = @ + 1, !.pos = 0, !.out = 0]
<1>2. CASE Retry /\ j.attempts < N
  <2>1. j.attempts + 1 \in Nat /\ 0 \in 0..MaxTokens
    BY Shape DEF JobType
  <2>2. e \in JobType /\ e.pos = 0 /\ e.out = 0
    BY <2>1, Shape DEF JobType
  <2>3. StartEvict(e, "step").pc = "evict"
    BY <2>2 DEF StartEvict, JobType
  <2>4. Reprefill(j) = StartEvict(e, "step")
    BY <1>2 DEF Reprefill
  <2> HIDE DEF e
  <2>5. e.out # MaxTokens /\ e.pos = e.out
    BY <2>2, Shape
  <2> QED
    BY <2>2, <2>3, <2>4, <2>5, StartEvictType
<1>3. CASE ~(Retry /\ j.attempts < N)
  <2>1. StartEvict(j, "failed").pc = "evict"
    BY DEF StartEvict, JobType
  <2> QED
    BY <1>1, <1>3, <2>1, StartEvictType DEF Reprefill
<1> QED
  BY <1>2, <1>3

\* A step of one thread and its call.
LEMMA ThreadStep ==
  ASSUME ChainInv, NEW r \in Request, NEW j \in JobType, NEW c \in CallType,
         JobFits(j), CallFits(c, j),
         job' = [job EXCEPT ![r] = j], call' = [call EXCEPT ![r] = c]
  PROVE  /\ job' \in [Request -> JobType] /\ call' \in [Request -> CallType]
         /\ \A q \in Request : JobFits(job'[q]) /\ CallFits(call'[q], job'[q])
<1>1. \A q \in Request : job'[q] = (IF q = r THEN j ELSE job[q])
                         /\ call'[q] = (IF q = r THEN c ELSE call[q])
  BY DEF ChainInv, ChainTypes
<1> QED
  BY <1>1 DEF ChainInv, ChainTypes

\* The plan stays a plan whoever is marked.
LEMMA MarkType ==
  ASSUME ChainInv, NEW d \in Device, MarkDead(d)
  PROVE  dead' \subseteq Device /\ plan' \in [Stage -> Device]
<1>1. dead' = dead \cup {d}
  BY DEF MarkDead
<1>2. CASE Viable(Placement, Recovery, dead')
  BY <1>1, <1>2, Shape, ViablePlanStages DEF MarkDead, ChainInv, ChainTypes, Stage, N
<1>3. CASE ~Viable(Placement, Recovery, dead')
  BY <1>1, <1>3 DEF MarkDead, ChainInv, ChainTypes
<1> QED
  BY <1>1, <1>2, <1>3 DEF ChainInv, ChainTypes

-----------------------------------------------------------------------------
(* Every action keeps the types.  First the gateway threads. *)

LEMMA InitType == Init => ChainInv
<1> SUFFICES ASSUME Init PROVE ChainInv
  OBVIOUS
<1>1. plan \in [Stage -> Device]
  BY Shape, NobodyDead, ViablePlanStages DEF Init, Stage, N
<1>2. /\ next_hop \in [Device -> [Stage -> MaybeDevice]]
      /\ \A d \in Device : next_hop[d][N] = NoDevice
  <2>1. \A s \in Stage : s < N => s + 1 \in Stage
    BY Shape DEF Stage
  <2>2. \A d \in Device, s \in Stage :
          (IF s < N /\ Placement[s] = d THEN Placement[s + 1] ELSE NoDevice) \in MaybeDevice
    BY <2>1, Shape DEF MaybeDevice
  <2>3. ~(N < N)
    BY Shape
  <2> QED
    BY <2>2, <2>3, Shape DEF Init
<1>3. kv \in [Request -> [Device -> [Stage -> KVType]]]
  <2>1. 0 \in KVType
    BY Shape DEF KVType
  <2> QED
    BY <2>1 DEF Init, NoKV
<1>4. cache \in [Request -> [Stage -> [Position -> {"none", "good", "bad"}]]]
  BY DEF Init, NoHistory
<1>5. /\ job \in [Request -> JobType]
      /\ \A r \in Request : JobFits(job[r])
  <2> DEFINE j == [pc |-> "step", pos |-> 0, out |-> 0, wrong |-> FALSE,
                   attempts |-> 0, stage |-> 1, dev |-> NoDevice, rplan |-> << >>,
                   k |-> 0, todo |-> {}, then |-> "step"]
  <2>1. j \in JobType
    <3>1. 0 \in 0..MaxTokens /\ 0 \in 0..(N + MaxTokens) /\ << >> \in Seq(Device)
      BY Shape
    <3> QED
      BY <3>1, Shape DEF JobType, MaybeDevice
  <2>2. JobFits(j)
    BY Shape DEF JobFits, Recovering, Past
  <2> QED
    BY <2>1, <2>2 DEF Init
<1> QED
  BY <1>1, <1>2, <1>3, <1>4, <1>5, NoCallIsTyped DEF Init, ChainInv, ChainTypes

LEMMA StepType == ASSUME ChainInv, NEW r \in Request, Step(r) PROVE ChainInv'
<1> DEFINE j == [job[r] EXCEPT !.pc = "wait"]
           c == Calling(plan[1], 1, job[r].pos, TRUE, TRUE)
<1>1. job[r] \in JobType /\ JobFits(job[r]) /\ job[r].pc = "step" /\ plan \in [Stage -> Device]
  BY DEF Step, ChainInv, ChainTypes
<1>2. j \in JobType /\ JobFits(j) /\ j.pc = "wait"
  BY <1>1 DEF JobType, JobFits, Recovering, Past
<1>3. c \in CallType /\ CallFits(c, j)
  <2>1. plan[1] \in Device /\ job[r].pos \in Position
    BY <1>1, Shape DEF JobType
  <2>2. 1 \in Stage /\ TRUE \in BOOLEAN /\ j.pc \in {"wait", "replay", "rebuild"}
    BY <1>2, Shape
  <2> HIDE DEF j
  <2>3. \A live, good \in BOOLEAN :
          /\ Calling(plan[1], 1, job[r].pos, live, good) \in CallType
          /\ CallFits(Calling(plan[1], 1, job[r].pos, live, good), j)
    BY <1>1, <2>1, <2>2, InvokedIsTyped
  <2> QED
    BY <2>3
<1>4. job' = [job EXCEPT ![r] = j] /\ call' = [call EXCEPT ![r] = c]
  BY DEF Step, Invoke, Calling, ChainInv, ChainTypes
<1>5. cache' \in [Request -> [Stage -> [Position -> {"none", "good", "bad"}]]]
  <2>1. job[r].pos \in Position /\ 1 \in Stage
    BY <1>1, Shape DEF JobType
  <2> QED
    BY <2>1 DEF Step, ChainInv, ChainTypes
<1> HIDE DEF j, c
<1> QED
  BY <1>2, <1>3, <1>4, <1>5, ThreadStep DEF Step, ChainInv, ChainTypes, workerVars

LEMMA StepDoneType == ASSUME ChainInv, NEW r \in Request, StepDone(r) PROVE ChainInv'
<1> DEFINE j == Emit(job[r], call[r].good)
<1>1. /\ job[r] \in JobType /\ JobFits(job[r]) /\ ~Past(job[r])
      /\ call[r].good \in BOOLEAN
  BY DEF StepDone, ChainInv, ChainTypes, CallType, Past
<1>2. j \in JobType /\ JobFits(j)
  BY <1>1, EmitType
<1>3. job' = [job EXCEPT ![r] = j] /\ call' = [call EXCEPT ![r] = NoCall]
  BY DEF StepDone, ChainInv, ChainTypes
<1> HIDE DEF j
<1> QED
  BY <1>2, <1>3, ThreadStep, NoCallIsTyped
     DEF StepDone, ChainInv, ChainTypes, workerVars, gatewayVars

\* The blamed device and stage are of the placement.
LEMMA BlameType ==
  ASSUME ChainInv, NEW r \in Request, call[r].st = "error"
  PROVE  DeadDevice(r) \in Device /\ DeadStage(r) \in Stage
<1>1. call[r] \in CallType /\ call[r].head \in Device
  BY DEF ChainInv, ChainTypes, CallFits
<1>2. call[r].blame \in 0..N /\ (call[r].blame # 0 => call[r].blame \in Stage)
  BY <1>1, Shape DEF CallType, Stage
<1> QED
  BY <1>1, <1>2, Shape DEF DeadDevice, DeadStage

LEMMA StepFailedType == ASSUME ChainInv, NEW r \in Request, StepFailed(r) PROVE ChainInv'
<1> DEFINE d == DeadDevice(r)
           gone == d \notin dead /\ ~Viable(Placement, Recovery, dead \cup {d})
           p == [job[r] EXCEPT !.pc = "promote", !.stage = DeadStage(r), !.dev = d]
           j == IF gone THEN StartEvict(job[r], "failed") ELSE p
<1>1. /\ job[r] \in JobType /\ JobFits(job[r]) /\ job[r].pc = "wait"
      /\ d \in Device /\ DeadStage(r) \in Stage
  BY BlameType DEF StepFailed, ChainInv, ChainTypes
<1>2. job[r].pos = job[r].out /\ job[r].out # MaxTokens
  BY <1>1 DEF JobFits, Past
<1>3. j \in JobType /\ JobFits(j)
  <2>1. p \in JobType /\ JobFits(p)
    <3>1. p \in JobType
      BY <1>1 DEF JobType, MaybeDevice
    <3>2. p.pc = "promote" /\ p.dev = d /\ p.pos = job[r].pos /\ p.out = job[r].out
      BY <1>1 DEF JobType
    <3> HIDE DEF p
    <3> QED
      BY <1>1, <1>2, <3>1, <3>2 DEF JobFits, Past, Recovering
  <2> QED
    BY <1>1, <1>2, <2>1, StartEvictType
<1>4. job' = [job EXCEPT ![r] = j] /\ call' = [call EXCEPT ![r] = NoCall]
  BY DEF StepFailed, ChainInv, ChainTypes
<1>5. dead' \subseteq Device /\ plan' \in [Stage -> Device]
  <2>1. CASE d \in dead
    BY <2>1 DEF StepFailed, ChainInv, ChainTypes
  <2>2. CASE d \notin dead
    BY <1>1, <2>2, MarkType DEF StepFailed
  <2> QED
    BY <2>1, <2>2
<1> HIDE DEF j
<1> QED
  BY <1>3, <1>4, <1>5, ThreadStep, NoCallIsTyped
     DEF StepFailed, ChainInv, ChainTypes, workerVars

LEMMA PromoteType == ASSUME ChainInv, NEW r \in Request, Promote(r) PROVE ChainInv'
<1> DEFINE k == Recovery[job[r].dev]
           w == [job[r] EXCEPT !.pc = "rewire", !.k = 1, !.rplan = plan]
           j == CASE k = NoDevice -> StartEvict(job[r], "failed")
                  [] k \in crashed -> Reprefill(job[r])
                  [] OTHER -> w
<1>1. /\ job[r] \in JobType /\ JobFits(job[r]) /\ job[r].pc = "promote"
      /\ plan \in [Stage -> Device] /\ call[r] \in CallType /\ CallFits(call[r], job[r])
      /\ crashed \subseteq Device
  BY DEF Promote, ChainInv, ChainTypes
<1>2. ~Past(job[r]) /\ job[r].pos = job[r].out /\ job[r].out # MaxTokens
  BY <1>1 DEF JobFits, Past
<1>3. w \in JobType /\ JobFits(w)
  <2>1. plan \in Seq(Device) /\ 1 \in 0..(N + MaxTokens)
    BY <1>1, Shape DEF Stage
  <2>2. w \in JobType
    BY <1>1, <2>1 DEF JobType
  <2>3. /\ w.pc = "rewire" /\ w.k = 1 /\ w.rplan = plan /\ w.pos = job[r].pos
        /\ w.out = job[r].out /\ w.dev = job[r].dev
    BY <1>1 DEF JobType
  <2> HIDE DEF w
  <2> QED
    BY <1>1, <1>2, <2>2, <2>3, Shape DEF JobFits, Past, Recovering
<1>4. StartEvict(job[r], "failed") \in JobType /\ JobFits(StartEvict(job[r], "failed"))
  BY <1>1, <1>2, StartEvictType
<1>5. j \in JobType /\ JobFits(j)
  <2>1. NoDevice \notin crashed
    BY <1>1, Shape
  <2> HIDE DEF k, w
  <2> QED
    BY <1>1, <1>2, <1>3, <1>4, <2>1, ReprefillType
<1>6. job' = [job EXCEPT ![r] = j] /\ call' = [call EXCEPT ![r] = call[r]]
  BY DEF Promote, ChainInv, ChainTypes
<1>7. CallFits(call[r], j)
  BY <1>1 DEF CallFits
<1> HIDE DEF j
<1> QED
  BY <1>1, <1>5, <1>6, <1>7, ThreadStep
     DEF Promote, ChainInv, ChainTypes, workerVars, gatewayVars

\* What a rewiring step leaves to do: another stage, the surgical rebuild, or
\* the evictions before a full replay.
LEMMA AfterRewireType ==
  ASSUME ChainInv, NEW r \in Request, job[r].pc = "rewire"
  PROVE  /\ AfterRewire(r) \in JobType /\ JobFits(AfterRewire(r))
         /\ AfterRewire(r).pc \in {"rebuild", "evict"}
<1> DEFINE z == [job[r] EXCEPT !.k = 0]
           b == [job[r] EXCEPT !.pc = "rebuild", !.k = 0]
<1>1. /\ job[r] \in JobType /\ JobFits(job[r]) /\ job[r].dev \in Device
      /\ job[r].pos = job[r].out /\ job[r].out # MaxTokens
  BY DEF ChainInv, ChainTypes, JobFits, Past, Recovering
<1>2. 0 \in 0..(N + MaxTokens) /\ job[r].pos \in Nat
  BY <1>1, Shape DEF JobType, Position
<1>3. b \in JobType /\ JobFits(b) /\ b.pc = "rebuild"
  <2>1. b \in JobType
    BY <1>1, <1>2 DEF JobType
  <2>2. /\ b.pc = "rebuild" /\ b.k = 0 /\ b.pos = job[r].pos /\ b.out = job[r].out
        /\ b.dev = job[r].dev
    BY <1>1 DEF JobType
  <2> HIDE DEF b
  <2> QED
    BY <1>1, <1>2, <2>1, <2>2 DEF JobFits, Past, Recovering
<1>4. /\ StartEvict(z, "replay") \in JobType /\ JobFits(StartEvict(z, "replay"))
      /\ StartEvict(z, "replay").pc = "evict"
  <2>1. z \in JobType
    BY <1>1, <1>2 DEF JobType
  <2>2. z.k = 0 /\ z.pos = job[r].pos /\ z.out = job[r].out /\ z.dev = job[r].dev
    BY <1>1 DEF JobType
  <2>3. StartEvict(z, "replay").pc = "evict"
    BY <2>1 DEF StartEvict, JobType
  <2> HIDE DEF z
  <2>4. z.k <= z.pos
    BY <1>2, <2>2
  <2> QED
    BY <1>1, <2>1, <2>2, <2>3, <2>4, StartEvictType
<1> QED
  BY <1>3, <1>4 DEF AfterRewire

\* SetNextHop changes no field of a handler but the state of its channel.
LEMMA ChannelType ==
  ASSUME ChainInv, NEW d \in Device, NEW s \in Stage, CloseChannel(d, s)
  PROVE  /\ call' \in [Request -> CallType] /\ orphans' \subseteq OrphanType
         /\ \A q \in Request : \A j : CallFits(call[q], j) => CallFits(call'[q], j)
         /\ \A o \in orphans' : HopFits(o.frame)
<1> DEFINE Shut(f) == IF f.dev = d /\ f.stage = s THEN [f EXCEPT !.open = FALSE] ELSE f
<1>1. \A f \in FrameType : /\ Shut(f) \in FrameType /\ (HopFits(f) => HopFits(Shut(f)))
                           /\ Shut(f).st = f.st /\ Shut(f).stage = f.stage
  <2> SUFFICES ASSUME NEW f \in FrameType
               PROVE  /\ Shut(f) \in FrameType /\ (HopFits(f) => HopFits(Shut(f)))
                      /\ Shut(f).st = f.st /\ Shut(f).stage = f.stage
    OBVIOUS
  <2> DEFINE g == [f EXCEPT !.open = FALSE]
  <2>1. /\ g \in FrameType /\ g.st = f.st /\ g.hop = f.hop /\ g.stage = f.stage
    BY DEF FrameType
  <2> QED
    BY <2>1 DEF HopFits
<1> DEFINE F(q) == [i \in DOMAIN call[q].frames |-> Shut(call[q].frames[i])]
<1>2. \A q \in Request : /\ F(q) \in Seq(FrameType)
                         /\ (F(q) = << >> <=> call[q].frames = << >>)
                         /\ \A i \in DOMAIN F(q) : F(q)[i] = Shut(call[q].frames[i])
                         /\ DOMAIN F(q) = 1..Len(F(q)) /\ Len(F(q)) = Len(call[q].frames)
                         /\ DOMAIN F(q) = DOMAIN call[q].frames
  <2> SUFFICES ASSUME NEW q \in Request
               PROVE  /\ F(q) \in Seq(FrameType)
                      /\ (F(q) = << >> <=> call[q].frames = << >>)
                      /\ \A i \in DOMAIN F(q) : F(q)[i] = Shut(call[q].frames[i])
                      /\ DOMAIN F(q) = 1..Len(F(q)) /\ Len(F(q)) = Len(call[q].frames)
                      /\ DOMAIN F(q) = DOMAIN call[q].frames
    OBVIOUS
  <2>1. call[q].frames \in Seq(FrameType)
    BY DEF ChainInv, ChainTypes, CallType
  <2> HIDE DEF Shut
  <2>2. F(q) = [i \in 1..Len(call[q].frames) |-> Shut(call[q].frames[i])]
    BY <2>1
  <2>3. \A i \in 1..Len(call[q].frames) : Shut(call[q].frames[i]) \in FrameType
    BY <1>1, <2>1
  <2> QED
    BY <2>1, <2>2, <2>3
<1>3. \A q \in Request : call'[q] = [call[q] EXCEPT !.frames = F(q)]
  BY DEF CloseChannel, ChainInv, ChainTypes, CallType
<1>4. DOMAIN call' = Request /\ call' = [q \in Request |-> call'[q]]
  BY DEF CloseChannel
<1> HIDE DEF F, Shut
<1>5. \A q \in Request : /\ call'[q] \in CallType
                         /\ call'[q].frames = F(q) /\ call'[q].st = call[q].st
                         /\ call'[q].head = call[q].head
  <2> SUFFICES ASSUME NEW q \in Request
               PROVE  /\ call'[q] \in CallType
                      /\ call'[q].frames = F(q) /\ call'[q].st = call[q].st
                      /\ call'[q].head = call[q].head
    OBVIOUS
  <2>1. call[q] \in CallType /\ F(q) \in Seq(FrameType)
    BY <1>2 DEF ChainInv, ChainTypes
  <2> QED
    BY <1>3, <2>1 DEF CallType
<1>6. call' \in [Request -> CallType]
  BY <1>4, <1>5
<1>7. ASSUME NEW q \in Request, NEW j, CallFits(call[q], j)
      PROVE  CallFits(call'[q], j)
  <2>1. \A i \in DOMAIN call[q].frames : call[q].frames[i] \in FrameType
    BY DEF ChainInv, ChainTypes, CallType
  <2>2. \A i \in 1..Len(F(q)) : i # 1 => i - 1 \in 1..Len(F(q))
    BY <1>2
  <2>3. StackFits(F(q))
    BY <1>1, <1>2, <1>7, <2>1, <2>2 DEF CallFits, StackFits
  <2> QED
    BY <1>2, <1>5, <1>7, <2>3 DEF CallFits
<1>8. \A o \in orphans' : o \in OrphanType /\ HopFits(o.frame)
  <2> SUFFICES ASSUME NEW o \in orphans' PROVE o \in OrphanType /\ HopFits(o.frame)
    OBVIOUS
  <2>1. PICK u \in orphans :
          o = [u EXCEPT !.frame = Shut(@),
                        !.from = IF @ = d /\ u.frame.stage = s + 1 THEN NoDevice ELSE @]
    BY DEF CloseChannel, Shut
  <2>2. u \in OrphanType /\ HopFits(u.frame) /\ u.frame \in FrameType
    BY DEF ChainInv, ChainTypes, OrphanType
  <2>3. o \in OrphanType /\ o.frame = Shut(u.frame)
    BY <1>1, <2>1, <2>2 DEF OrphanType, MaybeDevice
  <2> QED
    BY <1>1, <2>2, <2>3
<1> QED
  BY <1>6, <1>7, <1>8

LEMMA RewireType == ASSUME ChainInv, NEW r \in Request, Rewire(r) PROVE ChainInv'
<1> DEFINE s == job[r].k
           d == job[r].rplan[s]
           succ == IF s < N THEN job[r].rplan[s + 1] ELSE NoDevice
           m == [job[r] EXCEPT !.k = s + 1]
           j == IF s < N THEN m ELSE AfterRewire(r)
<1>1. /\ job[r] \in JobType /\ JobFits(job[r]) /\ job[r].pc = "rewire"
      /\ CallFits(call[r], job[r])
  BY DEF Rewire, ChainInv, ChainTypes
<1>2. s \in Stage /\ s \in Nat /\ job[r].rplan \in [Stage -> Device] /\ d \in Device
      /\ succ \in MaybeDevice /\ (s = N => succ = NoDevice)
  <2>1. s \in Stage /\ job[r].rplan \in [Stage -> Device]
    BY <1>1 DEF JobFits
  <2>2. s \in Nat /\ (s < N => s + 1 \in Stage) /\ ~(N < N)
    BY <2>1, Shape DEF Stage
  <2> HIDE DEF s
  <2> QED
    BY <2>1, <2>2 DEF MaybeDevice
<1>3. j \in JobType /\ JobFits(j)
  <2>1. CASE s < N
    <3>1. s + 1 \in 0..(N + MaxTokens) /\ s + 1 \in Stage
      BY <1>2, <2>1, Shape DEF Stage
    <3>2. m \in JobType
      BY <1>1, <3>1 DEF JobType
    <3>3. /\ m.pc = "rewire" /\ m.k = s + 1 /\ m.pos = job[r].pos /\ m.out = job[r].out
          /\ m.dev = job[r].dev /\ m.rplan = job[r].rplan
      BY <1>1 DEF JobType
    <3> HIDE DEF m
    <3>4. JobFits(m)
      BY <1>1, <1>2, <3>1, <3>2, <3>3 DEF JobFits, Past, Recovering
    <3> QED
      BY <2>1, <3>2, <3>4
  <2>2. CASE ~(s < N)
    BY <1>1, <2>2, AfterRewireType
  <2> QED
    BY <2>1, <2>2
<1>4. job' = [job EXCEPT ![r] = j]
  BY DEF Rewire, ChainInv, ChainTypes
<1>5. /\ next_hop' \in [Device -> [Stage -> MaybeDevice]]
      /\ \A x \in Device : next_hop'[x][N] = NoDevice
  <2>1. CASE d \in crashed
    BY <2>1 DEF Rewire, ChainInv, ChainTypes
  <2>2. CASE d \notin crashed
    <3>1. next_hop' = [next_hop EXCEPT ![d][s] = succ]
      BY <2>2 DEF Rewire
    <3> HIDE DEF d, s, succ
    <3> QED
      BY <1>2, <3>1, Shape DEF ChainInv, ChainTypes
  <2> QED
    BY <2>1, <2>2
<1>6. /\ call' \in [Request -> CallType] /\ orphans' \subseteq OrphanType
      /\ \A q \in Request : \A x : CallFits(call[q], x) => CallFits(call'[q], x)
      /\ \A o \in orphans' : HopFits(o.frame)
  <2>1. CASE d \in crashed
    BY <2>1 DEF Rewire, ChainInv, ChainTypes
  <2>2. CASE d \notin crashed
    <3>1. CloseChannel(d, s)
      BY <2>2 DEF Rewire
    <3> HIDE DEF d, s
    <3> QED
      BY <1>2, <3>1, ChannelType
  <2> QED
    BY <2>1, <2>2
<1>7. \A x : CallFits(call[r], x)
  BY <1>1 DEF CallFits
<1> HIDE DEF j
<1>8. /\ job' \in [Request -> JobType]
      /\ \A q \in Request : job'[q] = (IF q = r THEN j ELSE job[q])
  BY <1>3, <1>4 DEF ChainInv, ChainTypes
<1>9. \A q \in Request : JobFits(job'[q]) /\ CallFits(call'[q], job'[q])
  BY <1>3, <1>6, <1>7, <1>8 DEF ChainInv, ChainTypes
<1> QED
  BY <1>5, <1>6, <1>8, <1>9 DEF Rewire, ChainInv, ChainTypes, gatewayVars

LEMMA EvictType == ASSUME ChainInv, NEW r \in Request, Evict(r) PROVE ChainInv'
<1> DEFINE j == [job[r] EXCEPT !.todo = @ \ {CHOOSE x \in job[r].todo : TRUE},
                               !.pc = IF job[r].todo = {CHOOSE x \in job[r].todo : TRUE}
                                      THEN job[r].then ELSE @]
<1>1. /\ job[r] \in JobType /\ JobFits(job[r]) /\ job[r].pc = "evict"
      /\ call[r] \in CallType /\ CallFits(call[r], job[r])
  BY DEF Evict, ChainInv, ChainTypes
<1>2. PICK d \in job[r].todo : d = CHOOSE x \in job[r].todo : TRUE
  BY DEF Evict
<1>3. d \in Device
  BY <1>1, <1>2 DEF JobType
<1>4. j \in JobType /\ JobFits(j)
  <2>1. j \in JobType
    BY <1>1 DEF JobType
  <2>2. /\ j.pos = job[r].pos /\ j.out = job[r].out /\ j.dev = job[r].dev
        /\ j.k = job[r].k /\ j.rplan = job[r].rplan /\ j.then = job[r].then
        /\ j.pc \in {"evict", job[r].then}
    BY <1>1 DEF JobType
  <2>3. job[r].then \in {"step", "done", "failed", "replay"}
    BY <1>1 DEF JobType
  <2> HIDE DEF j
  <2> QED
    BY <1>1, <2>1, <2>2, <2>3 DEF JobFits, Past, Recovering
<1>5. job' = [job EXCEPT ![r] = j] /\ call' = [call EXCEPT ![r] = call[r]]
  BY DEF Evict, ChainInv, ChainTypes
<1>6. CallFits(call[r], j)
  BY <1>1 DEF CallFits
<1>7. kv' \in [Request -> [Device -> [Stage -> KVType]]]
  <2>1. CASE d \in dead \cup crashed
    BY <1>2, <2>1 DEF Evict, ChainInv, ChainTypes
  <2>2. CASE d \notin dead \cup crashed
    <3>1. kv' = [kv EXCEPT ![r][d] = [s \in Stage |-> 0]]
      BY <1>2, <2>2 DEF Evict
    <3>2. 0 \in KVType
      BY Shape DEF KVType
    <3> QED
      BY <1>3, <3>1, <3>2 DEF ChainInv, ChainTypes
  <2> QED
    BY <2>1, <2>2
<1>8. orphans' \subseteq orphans
  BY DEF Evict
<1>9. cache' \in [Request -> [Stage -> [Position -> {"none", "good", "bad"}]]]
  <2>1. NoHistory \in [Stage -> [Position -> {"none", "good", "bad"}]]
    BY DEF NoHistory
  <2> QED
    BY <2>1 DEF Evict, ChainInv, ChainTypes
<1> HIDE DEF j
<1> QED
  BY <1>1, <1>4, <1>5, <1>6, <1>7, <1>8, <1>9, ThreadStep DEF Evict, ChainInv, ChainTypes

\* The calls of a recovery: the position is one that was fed before.
LEMMA RecoveryCall ==
  ASSUME ChainInv, NEW r \in Request, NEW d \in Device, NEW c \in CallType,
         job[r].pc \in {"replay", "rebuild"},
         \A j : j.pc \in {"wait", "replay", "rebuild"} => CallFits(c, j),
         job' = [job EXCEPT ![r].dev = d], call' = [call EXCEPT ![r] = c],
         UNCHANGED <<crashed, gatewayVars, workerVars>>
  PROVE  ChainInv'
<1> DEFINE j == [job[r] EXCEPT !.dev = d]
<1>1. job[r] \in JobType /\ JobFits(job[r])
  BY DEF ChainInv, ChainTypes
<1>2. j \in JobType /\ JobFits(j) /\ j.pc \in {"wait", "replay", "rebuild"}
  <2>1. j \in JobType
    BY <1>1 DEF JobType, MaybeDevice
  <2>2. /\ j.pc = job[r].pc /\ j.k = job[r].k /\ j.pos = job[r].pos /\ j.out = job[r].out
        /\ j.dev = d
    BY <1>1 DEF JobType
  <2> HIDE DEF j
  <2> QED
    BY <1>1, <2>1, <2>2 DEF JobFits, Past, Recovering
<1>3. job' = [job EXCEPT ![r] = j]
  BY DEF ChainInv, ChainTypes
<1> HIDE DEF j
<1>4. CallFits(c, j)
  BY <1>2
<1> QED
  BY <1>2, <1>3, <1>4, ThreadStep DEF ChainInv, ChainTypes, workerVars, gatewayVars

\* The device a recovery calls: the plan's at its first call, then the same.
LEMMA RecoveryDevice ==
  ASSUME ChainInv, NEW r \in Request, NEW s \in Stage,
         job[r].pc \in {"replay", "rebuild"},
         job' = [job EXCEPT ![r].dev = IF job[r].k = 0 THEN plan[s] ELSE @]
  PROVE  job'[r].dev \in Device /\ job' = [job EXCEPT ![r].dev = job'[r].dev]
         /\ job'[r].dev = (IF job[r].k = 0 THEN plan[s] ELSE job[r].dev)
<1>1. job[r].dev \in Device /\ plan[s] \in Device /\ job[r] \in JobType
      /\ job \in [Request -> JobType]
  BY DEF ChainInv, ChainTypes, JobFits, Recovering
<1>2. job'[r].dev = (IF job[r].k = 0 THEN plan[s] ELSE job[r].dev)
  BY <1>1 DEF JobType
<1> QED
  BY <1>1, <1>2

\* The position a recovery feeds has been fed before.
LEMMA RecoveryPosition ==
  ASSUME ChainInv, NEW r \in Request, job[r].pc \in {"replay", "rebuild"}
  PROVE  job[r].k \in Position /\ plan \in [Stage -> Device]
  BY Shape DEF ChainInv, ChainTypes, JobType, JobFits, Position

LEMMA ReplayType == ASSUME ChainInv, NEW r \in Request, Replay(r) PROVE ChainInv'
<1> DEFINE e == job'[r].dev
           c == Calling(e, 1, job[r].k, TRUE, TRUE)
<1>1. /\ job[r].pc \in {"replay", "rebuild"} /\ 1 \in Stage
      /\ job' = [job EXCEPT ![r].dev = IF job[r].k = 0 THEN plan[1] ELSE @]
  BY Shape DEF Replay
<1>2. e \in Device /\ job' = [job EXCEPT ![r].dev = e]
  BY <1>1, RecoveryDevice
<1>3. call' = [call EXCEPT ![r] = c] /\ UNCHANGED <<crashed, gatewayVars, workerVars>>
  BY DEF Replay, Invoke, Calling
<1> HIDE DEF e
<1>4. \A live, good \in BOOLEAN : \A j : j.pc \in {"wait", "replay", "rebuild"} =>
        /\ Calling(e, 1, job[r].k, live, good) \in CallType
        /\ CallFits(Calling(e, 1, job[r].k, live, good), j)
  BY <1>1, <1>2, RecoveryPosition, InvokedIsTyped
<1>5. c \in CallType /\ \A j : j.pc \in {"wait", "replay", "rebuild"} => CallFits(c, j)
  <2>1. \A j : j.pc \in {"wait", "replay", "rebuild"} => c \in CallType /\ CallFits(c, j)
    BY <1>4
  <2> HIDE DEF c
  <2> QED
    BY <1>1, <2>1
<1> HIDE DEF c
<1> QED
  BY <1>1, <1>2, <1>3, <1>5, RecoveryCall

LEMMA RebuildType == ASSUME ChainInv, NEW r \in Request, Rebuild(r) PROVE ChainInv'
<1> DEFINE e == job'[r].dev
           s == job[r].stage
           c == Calling(e, s, job[r].k, job[r].k = job[r].pos, cache[r][s][job[r].k] = "good")
<1>1. /\ job[r].pc \in {"replay", "rebuild"} /\ s \in Stage
      /\ job' = [job EXCEPT ![r].dev = IF job[r].k = 0 THEN plan[s] ELSE @]
  BY DEF Rebuild, ChainInv, ChainTypes, JobType
<1>2. e \in Device /\ job' = [job EXCEPT ![r].dev = e]
  <2> HIDE DEF s
  <2> QED
    BY <1>1, RecoveryDevice
<1>3. call' = [call EXCEPT ![r] = c] /\ UNCHANGED <<crashed, gatewayVars, workerVars>>
  BY DEF Rebuild, Invoke, Calling
<1>4. \A live, good \in BOOLEAN : \A j : j.pc \in {"wait", "replay", "rebuild"} =>
        /\ Calling(e, s, job[r].k, live, good) \in CallType
        /\ CallFits(Calling(e, s, job[r].k, live, good), j)
  <2> HIDE DEF e, s
  <2> QED
    BY <1>1, <1>2, RecoveryPosition, InvokedIsTyped
<1>5. c \in CallType /\ \A j : j.pc \in {"wait", "replay", "rebuild"} => CallFits(c, j)
  <2>1. \A j : j.pc \in {"wait", "replay", "rebuild"} => c \in CallType /\ CallFits(c, j)
    <3>1. /\ (job[r].k = job[r].pos) \in BOOLEAN
          /\ (cache[r][s][job[r].k] = "good") \in BOOLEAN
      OBVIOUS
    <3> QED
      BY <1>4, <3>1, Zenon
  <2> HIDE DEF c
  <2> QED
    BY <1>1, <2>1
<1> HIDE DEF c, e
<1> QED
  BY <1>1, <1>2, <1>3, <1>5, RecoveryCall

LEMMA RecoveryAnswerType ==
  ASSUME ChainInv, NEW r \in Request, RecoveryAnswer(r) PROVE ChainInv'
<1> DEFINE m == [job[r] EXCEPT !.k = @ + 1]
           j == CASE call[r].st = "error" -> Reprefill(job[r])
                  [] call[r].st = "ok" /\ job[r].k < job[r].pos -> m
                  [] call[r].st = "ok" /\ job[r].k = job[r].pos -> Emit(job[r], call[r].good)
<1>1. /\ job[r] \in JobType /\ JobFits(job[r]) /\ call[r] \in CallType
      /\ job[r].pc \in {"replay", "rebuild"} /\ call[r].st \in {"ok", "error"}
      /\ call[r].good \in BOOLEAN
  BY DEF RecoveryAnswer, ChainInv, ChainTypes, CallType
<1>2. ~Past(job[r]) /\ job[r].k <= job[r].pos /\ job[r].k \in Nat /\ job[r].pos \in Nat
  BY <1>1, Shape DEF JobFits, Past, JobType, Position
<1>3. j \in JobType /\ JobFits(j)
  <2>1. CASE call[r].st = "ok" /\ job[r].k < job[r].pos
    <3>1. job[r].k + 1 \in 0..(N + MaxTokens) /\ job[r].k + 1 <= job[r].pos
      BY <1>1, <1>2, <2>1, Shape DEF JobType, Position
    <3>2. m \in JobType
      BY <1>1, <3>1 DEF JobType
    <3>3. /\ m.pc = job[r].pc /\ m.k = job[r].k + 1 /\ m.pos = job[r].pos
          /\ m.out = job[r].out /\ m.dev = job[r].dev
      BY <1>1 DEF JobType
    <3>4. j = m
      BY <1>1, <1>2, <2>1
    <3> HIDE DEF m
    <3>5. JobFits(m)
      BY <1>1, <3>1, <3>2, <3>3 DEF JobFits, Past, Recovering
    <3> QED
      BY <3>2, <3>4, <3>5
  <2>2. CASE call[r].st = "ok" /\ ~(job[r].k < job[r].pos)
    <3>1. job[r].k = job[r].pos
      BY <1>2, <2>2
    <3>2. j = Emit(job[r], call[r].good)
      BY <1>2, <2>2, <3>1
    <3> QED
      BY <1>1, <1>2, <3>2, EmitType
  <2>3. CASE call[r].st = "error"
    <3>1. j = Reprefill(job[r])
      BY <2>3
    <3> QED
      BY <1>1, <1>2, <3>1, ReprefillType
  <2> QED
    BY <1>1, <2>1, <2>2, <2>3
<1>4. job' = [job EXCEPT ![r] = j] /\ call' = [call EXCEPT ![r] = NoCall]
  BY DEF RecoveryAnswer, ChainInv, ChainTypes
<1> HIDE DEF j
<1> QED
  BY <1>3, <1>4, ThreadStep, NoCallIsTyped
     DEF RecoveryAnswer, ChainInv, ChainTypes, workerVars, gatewayVars

-----------------------------------------------------------------------------
(* The handlers, their orphans, the mirrors and the failures. *)

\* The innermost frame of a call that is under way.
LEMMA LastFrame ==
  ASSUME ChainInv, NEW r \in Request, Running(r)
  PROVE  /\ call[r] \in CallType /\ call[r].frames \in Seq(FrameType)
         /\ Top(r) \in Nat /\ Top(r) >= 1 /\ Top(r) \in DOMAIN call[r].frames
         /\ Last(call[r].frames) = call[r].frames[Top(r)]
         /\ Last(call[r].frames) \in FrameType /\ HopFits(Last(call[r].frames))
         /\ DOMAIN call[r].frames = 1..Top(r) /\ StackFits(call[r].frames)
         /\ \A i \in DOMAIN call[r].frames : call[r].frames[i] \in FrameType
         /\ job[r].pc \in {"wait", "replay", "rebuild"} /\ call[r].head \in Device
<1>1. call[r] \in CallType /\ CallFits(call[r], job[r]) /\ call[r].st = "running"
  BY DEF Running, ChainInv, ChainTypes
<1>2. call[r].frames \in Seq(FrameType) /\ call[r].frames # << >>
  BY <1>1 DEF CallType, CallFits
<1>3. /\ Len(call[r].frames) \in Nat /\ Len(call[r].frames) >= 1
      /\ Len(call[r].frames) \in DOMAIN call[r].frames
      /\ DOMAIN call[r].frames = 1..Len(call[r].frames)
      /\ \A i \in DOMAIN call[r].frames : call[r].frames[i] \in FrameType
  BY <1>2
<1> QED
  BY <1>1, <1>2, <1>3 DEF Top, Last, CallFits, StackFits

LEMMA HopType ==
  ASSUME ChainInv, NEW d \in Device, NEW s \in Stage, NEW live
  PROVE  /\ HopOf(d, s, live) \in MaybeDevice
         /\ HopOf(d, s, live) # NoDevice => HopOf(d, s, live) \in Device /\ s < N
<1>1. next_hop[d][s] \in MaybeDevice /\ (s = N => next_hop[d][s] = NoDevice)
  BY DEF ChainInv, ChainTypes
<1>2. s # N => s < N
  BY Shape DEF Stage
<1> QED
  BY <1>1, <1>2 DEF HopOf, MaybeDevice

LEMMA RunLocalType ==
  ASSUME ChainInv, NEW r \in Request, NEW d \in Device, NEW s \in Stage,
         NEW p \in Position, NEW live, NEW good \in BOOLEAN,
         RunLocal(r, d, s, p, live, good)
  PROVE  /\ kv' \in [Request -> [Device -> [Stage -> KVType]]]
         /\ mirrors' \subseteq MirrorType
<1>1. kv' \in [Request -> [Device -> [Stage -> KVType]]]
  <2>1. kv' = [kv EXCEPT ![r][d][s] = Advance(kv[r][d][s], p, good)]
    BY DEF RunLocal, ChainInv, ChainTypes
  <2>2. Advance(kv[r][d][s], p, good) \in KVType
    BY AdvanceType
  <2> QED
    BY <2>1, <2>2 DEF ChainInv, ChainTypes
<1>2. mirrors' \subseteq MirrorType
  BY DEF RunLocal, ChainInv, ChainTypes, MirrorType
<1> QED
  BY <1>1, <1>2

\* What RunStage leaves of the innermost frame.
LEMMA RanType ==
  ASSUME ChainInv, NEW f \in FrameType, NEW live, NEW st,
         st = IF HopOf(f.dev, f.stage, live) = NoDevice THEN "done" ELSE "ran"
  PROVE  LET g == [f EXCEPT !.hop = HopOf(f.dev, f.stage, live), !.st = st]
         IN g \in FrameType /\ HopFits(g)
<1> DEFINE hop == HopOf(f.dev, f.stage, live)
           g == [f EXCEPT !.hop = hop, !.st = st]
<1>1. f.dev \in Device /\ f.stage \in Stage
  BY DEF FrameType
<1>2. hop \in MaybeDevice /\ (hop # NoDevice => hop \in Device /\ f.stage < N)
  BY <1>1, HopType
<1>3. st \in {"done", "ran"} /\ (st = "ran" => hop # NoDevice)
  OBVIOUS
<1> HIDE DEF hop
<1>4. g \in FrameType /\ g.hop = hop /\ g.st = st /\ g.stage = f.stage
  BY <1>2, <1>3 DEF FrameType
<1> HIDE DEF g
<1>5. HopFits(g)
  BY <1>2, <1>3, <1>4 DEF HopFits
<1> QED
  BY <1>4, <1>5 DEF g, hop

\* RunStage moves its call's innermost handler on and leaves the others alone.
LEMMA RunStageCall ==
  ASSUME ChainInv, NEW r \in Request, RunStage(r)
  PROVE  LET f == Last(call[r].frames)
             g == call'[r].frames[Top(r)]
         IN /\ call'[r] \in CallType /\ call' = [call EXCEPT ![r] = call'[r]]
            /\ call'[r].st = "running" /\ call'[r].head = call[r].head
            /\ call'[r].plan = call[r].plan
            /\ call'[r].frames # << >> /\ StackFits(call'[r].frames)
            /\ DOMAIN call'[r].frames = 1..Top(r)
            /\ \A i \in 1..Top(r) : i # Top(r) => call'[r].frames[i] = call[r].frames[i]
            /\ g.dev = f.dev /\ g.stage = f.stage /\ g.open = f.open
            /\ g.hop = HopOf(f.dev, f.stage, call[r].live)
            /\ g.st = IF g.hop = NoDevice THEN "done" ELSE "ran"
            /\ call'[r].at = call[r].at /\ call'[r].live = call[r].live
            /\ call'[r].good = (Advance(kv[r][f.dev][f.stage], call[r].at, call[r].good) # Bad)
<1> DEFINE f == Last(call[r].frames)
           hop == HopOf(f.dev, f.stage, call[r].live)
           good == Advance(kv[r][f.dev][f.stage], call[r].at, call[r].good) # Bad
           g == [f EXCEPT !.hop = hop, !.st = IF hop = NoDevice THEN "done" ELSE "ran"]
           fs == [call[r].frames EXCEPT ![Top(r)] = g]
           c == [call[r] EXCEPT !.good = good, !.frames = fs]
<1>1. Running(r)
  BY DEF RunStage
<1>2. /\ call[r] \in CallType /\ call[r].frames \in Seq(FrameType) /\ Top(r) \in Nat
      /\ Top(r) \in DOMAIN call[r].frames /\ f = call[r].frames[Top(r)] /\ f \in FrameType
  BY <1>1, LastFrame
<1>3. g \in FrameType /\ HopFits(g)
  <2> HIDE DEF f
  <2> QED
    BY <1>2, RanType
<1>4. /\ g.dev = f.dev /\ g.stage = f.stage /\ g.open = f.open /\ g.hop = hop
      /\ g.st = IF hop = NoDevice THEN "done" ELSE "ran"
      /\ g.st \in {"done", "ran"}
  <2> HIDE DEF hop, f
  <2> QED
    BY <1>2 DEF FrameType
<1>5. call' = [call EXCEPT ![r] = c]
  <2>1. call \in [Request -> CallType]
    BY DEF ChainInv, ChainTypes
  <2> DEFINE st == IF hop = NoDevice THEN "done" ELSE "ran"
             n == Top(r)
             c1 == [call EXCEPT ![r].good = good]
             c2 == [c1 EXCEPT ![r].frames[n].hop = hop]
  <2>2. call' = [c2 EXCEPT ![r].frames[n].st = st]
    BY DEF RunStage
  <2> HIDE DEF good, hop, st, n, f
  <2> DEFINE x == [call[r] EXCEPT !.good = good]
             h == [f EXCEPT !.hop = hop]
             hs == [call[r].frames EXCEPT ![n] = h]
             y == [x EXCEPT !.frames = hs]
  <2>3. c1 = [call EXCEPT ![r] = x] /\ c1 \in [Request -> {c1[q] : q \in Request}]
    BY <2>1
  <2>4. c1[r] = x /\ x.frames = call[r].frames
    BY <1>2, <2>1, <2>3 DEF CallType
  <2>5. c2 = [c1 EXCEPT ![r] = [x EXCEPT !.frames = [call[r].frames EXCEPT ![n] = [f EXCEPT !.hop = hop]]]]
    BY <1>2, <2>3, <2>4 DEF n
  <2> HIDE DEF c1, c2, h, x
  <2>6. c2 = [call EXCEPT ![r] = y] /\ c2[r] = y
    BY <2>1, <2>3, <2>5 DEF h
  <2>7. y.frames = hs /\ hs[n] = h
    BY <1>2 DEF n, x, CallType
  <2> HIDE DEF hs, y
  <2>8. call' = [c2 EXCEPT ![r] = [y EXCEPT !.frames = [hs EXCEPT ![n] = [h EXCEPT !.st = st]]]]
    BY <2>2, <2>6, <2>7
  <2>9. [hs EXCEPT ![n] = [h EXCEPT !.st = st]] = fs
    BY <1>2 DEF hs, h, n, st
  <2> HIDE DEF fs
  <2>10. [y EXCEPT !.frames = fs] = c
    BY <1>2 DEF y, x, CallType
  <2> QED
    BY <2>1, <2>6, <2>8, <2>9, <2>10
<1> HIDE DEF g
<1>6. fs \in Seq(FrameType) /\ DOMAIN fs = 1..Top(r) /\ Len(fs) = Top(r)
      /\ \A i \in DOMAIN fs : fs[i] = (IF i = Top(r) THEN g ELSE call[r].frames[i])
  <2>1. call[r].frames \in [1..Top(r) -> FrameType] /\ Len(call[r].frames) = Top(r)
    BY <1>2 DEF Top
  <2> QED
    BY <1>2, <1>3, <2>1
<1>7. fs # << >> /\ StackFits(fs)
  <2>1. g.stage = f.stage /\ g.st # "waiting"
    BY <1>4
  <2>2. \A i \in 1..Top(r) : i # 1 => i - 1 \in 1..Top(r) /\ i - 1 # Top(r)
    BY <1>2
  <2>3. StackFits(call[r].frames) /\ DOMAIN call[r].frames = 1..Top(r)
        /\ Len(call[r].frames) = Top(r)
    BY <1>1, LastFrame DEF Top
  <2> HIDE DEF f
  <2>4. ASSUME NEW i \in 1..Top(r)
        PROVE  /\ HopFits(fs[i]) /\ (fs[i].st = "waiting" <=> i # Top(r))
               /\ i # 1 => fs[i].stage = fs[i - 1].stage + 1
    <3>1. fs[i].stage = call[r].frames[i].stage
      BY <1>2, <1>6, <2>1
    <3>2. i # 1 => fs[i - 1] = call[r].frames[i - 1]
      BY <1>6, <2>2
    <3>3. i # 1 => call[r].frames[i].stage = call[r].frames[i - 1].stage + 1
      BY <2>3 DEF StackFits
    <3>4. HopFits(fs[i]) /\ (fs[i].st = "waiting" <=> i # Top(r))
      BY <1>3, <1>6, <2>1, <2>3 DEF StackFits
    <3> QED
      BY <3>1, <3>2, <3>3, <3>4
  <2> QED
    BY <1>2, <1>6, <2>4 DEF StackFits
<1> HIDE DEF fs, good
<1>8. c \in CallType /\ c.frames = fs /\ c.st = call[r].st /\ c.head = call[r].head
      /\ c.plan = call[r].plan /\ c.at = call[r].at /\ c.live = call[r].live /\ c.good = good
  <2>1. good \in BOOLEAN
    BY DEF good
  <2> QED
    BY <1>2, <1>6, <2>1 DEF CallType
<1> HIDE DEF c
<1>9. call'[r] = c /\ call[r].st = "running"
  BY <1>1, <1>5 DEF Running, ChainInv, ChainTypes
<1>10. fs[Top(r)] = g
  BY <1>2, <1>6
<1>11. call'[r].good = (Advance(kv[r][f.dev][f.stage], call[r].at, call[r].good) # Bad)
  BY <1>8, <1>9 DEF good
<1> HIDE DEF f, hop
<1> QED
  BY <1>2, <1>4, <1>5, <1>6, <1>7, <1>8, <1>9, <1>10, <1>11 DEF f, hop

LEMMA RunStageType == ASSUME ChainInv, NEW r \in Request, RunStage(r) PROVE ChainInv'
<1> DEFINE f == Last(call[r].frames)
<1>1. Running(r)
  BY DEF RunStage
<1>2. PICK c \in CallType :
        /\ call' = [call EXCEPT ![r] = c] /\ c.st = "running" /\ c.head = call[r].head
        /\ c.frames # << >> /\ StackFits(c.frames)
  BY RunStageCall
<1>3. CallFits(c, job[r]) /\ job[r] \in JobType /\ JobFits(job[r])
  <2>1. CallFits(call[r], job[r]) /\ call[r].st = "running"
    BY <1>1 DEF Running, ChainInv
  <2> QED
    BY <1>2, <2>1 DEF CallFits, ChainInv, ChainTypes
<1>4. /\ kv' \in [Request -> [Device -> [Stage -> KVType]]]
      /\ mirrors' \subseteq MirrorType
  <2>1. RunLocal(r, f.dev, f.stage, call[r].at, call[r].live, call[r].good)
    BY DEF RunStage
  <2>2. f.dev \in Device /\ f.stage \in Stage /\ call[r].at \in Position
        /\ call[r].good \in BOOLEAN
    BY <1>1, LastFrame DEF FrameType, CallType
  <2> HIDE DEF f
  <2> QED
    BY <2>1, <2>2, RunLocalType
<1>5. job' = [job EXCEPT ![r] = job[r]]
  BY DEF RunStage, ChainInv, ChainTypes
<1> QED
  BY <1>2, <1>3, <1>4, <1>5, ThreadStep DEF RunStage, ChainInv, ChainTypes, gatewayVars

\* Forward adds a handler to its call and leaves the others' places alone.
LEMMA ForwardCall ==
  ASSUME ChainInv, NEW r \in Request, Forward(r)
  PROVE  LET f == Last(call[r].frames)
             g == call'[r].frames[Top(r)]
         IN /\ call'[r] \in CallType /\ call' = [call EXCEPT ![r] = call'[r]]
            /\ call'[r].st = "running" /\ call'[r].head = call[r].head
            /\ call'[r].plan = call[r].plan
            /\ call'[r].frames # << >> /\ StackFits(call'[r].frames)
            /\ DOMAIN call'[r].frames = 1..(Top(r) + 1)
            /\ \A i \in 1..Top(r) : i # Top(r) => call'[r].frames[i] = call[r].frames[i]
            /\ g.dev = f.dev /\ g.stage = f.stage /\ g.open = f.open /\ g.st = "waiting"
            /\ call'[r].frames[Top(r) + 1] = Frame(f.hop, f.stage + 1)
            /\ call'[r].at = call[r].at /\ call'[r].live = call[r].live
            /\ call'[r].good = call[r].good
<1> DEFINE f == Last(call[r].frames)
           g == [f EXCEPT !.st = "waiting"]
           fs == [call[r].frames EXCEPT ![Top(r)] = g]
           n == Frame(f.hop, f.stage + 1)
           c == [call[r] EXCEPT !.frames = Append(fs, n)]
<1>1. Running(r)
  BY DEF Forward
<1>2. /\ call[r] \in CallType /\ call[r].frames \in Seq(FrameType) /\ Top(r) \in Nat
      /\ Top(r) \in DOMAIN call[r].frames /\ f = call[r].frames[Top(r)] /\ f \in FrameType
      /\ HopFits(f)
  BY <1>1, LastFrame
<1>3. g \in FrameType /\ HopFits(g) /\ g.st = "waiting" /\ g.stage = f.stage
      /\ g.dev = f.dev /\ g.open = f.open
  BY <1>2 DEF FrameType, HopFits
<1>4. n \in FrameType /\ HopFits(n) /\ n.st = "arriving" /\ n.stage = f.stage + 1
  <2>1. f.hop \in Device /\ f.stage < N /\ f.stage \in Stage
    BY <1>2 DEF Forward, HopFits, FrameType
  <2>2. f.stage + 1 \in Stage
    BY <2>1, Shape DEF Stage
  <2> HIDE DEF f
  <2> QED
    BY <2>1, <2>2, FrameIsTyped DEF Frame
<1>5. call' = [call EXCEPT ![r] = c]
  BY <1>2 DEF Forward, ChainInv, ChainTypes, CallType, FrameType
<1> HIDE DEF g, n
<1>6. fs \in Seq(FrameType) /\ DOMAIN fs = 1..Top(r) /\ Len(fs) = Top(r)
      /\ \A i \in DOMAIN fs : fs[i] = (IF i = Top(r) THEN g ELSE call[r].frames[i])
  <2>1. call[r].frames \in [1..Top(r) -> FrameType] /\ Len(call[r].frames) = Top(r)
    BY <1>2 DEF Top
  <2> QED
    BY <1>2, <1>3, <2>1
<1> HIDE DEF fs
<1>7. /\ Append(fs, n) \in Seq(FrameType) /\ Append(fs, n) # << >>
      /\ StackFits(Append(fs, n)) /\ DOMAIN Append(fs, n) = 1..(Top(r) + 1)
      /\ Append(fs, n)[Top(r) + 1] = n
      /\ \A i \in 1..Top(r) : Append(fs, n)[i] = fs[i]
  <2>1. /\ Append(fs, n) \in Seq(FrameType) /\ Append(fs, n) # << >>
        /\ Len(Append(fs, n)) = Top(r) + 1 /\ DOMAIN Append(fs, n) = 1..(Top(r) + 1)
        /\ Append(fs, n)[Top(r) + 1] = n
        /\ \A i \in 1..Top(r) : Append(fs, n)[i] = fs[i]
    BY <1>2, <1>4, <1>6
  <2>2. StackFits(call[r].frames) /\ DOMAIN call[r].frames = 1..Top(r)
        /\ Len(call[r].frames) = Top(r) /\ Top(r) >= 1
    BY <1>1, LastFrame DEF Top
  <2>3. f = call[r].frames[Top(r)]
    BY <1>2
  <2> HIDE DEF f
  <2>4. ASSUME NEW i \in 1..(Top(r) + 1), i # Top(r) + 1
        PROVE  /\ HopFits(fs[i]) /\ fs[i].st = "waiting" /\ i \in 1..Top(r)
               /\ i # 1 => i - 1 \in 1..Top(r) /\ fs[i].stage = fs[i - 1].stage + 1
    <3>1. i \in 1..Top(r) /\ (i # 1 => i - 1 \in 1..Top(r) /\ i - 1 # Top(r))
      BY <1>2, <2>4
    <3>2. /\ HopFits(call[r].frames[i]) /\ (i # Top(r) => call[r].frames[i].st = "waiting")
          /\ i # 1 => call[r].frames[i].stage = call[r].frames[i - 1].stage + 1
      BY <2>2, <3>1 DEF StackFits
    <3>3. fs[i].stage = call[r].frames[i].stage /\ HopFits(fs[i]) /\ fs[i].st = "waiting"
      BY <1>3, <1>6, <2>3, <3>1, <3>2
    <3>4. i # 1 => fs[i - 1] = call[r].frames[i - 1]
      BY <1>6, <3>1
    <3> QED
      BY <3>1, <3>2, <3>3, <3>4
  <2>5. Top(r) + 1 # 1 /\ (Top(r) + 1) - 1 = Top(r) /\ Top(r) \in 1..Top(r)
    BY <1>2, <2>2
  <2>6. fs[Top(r)].stage = f.stage
    BY <1>3, <1>6, <2>5
  <2> DEFINE a == Append(fs, n)
  <2> HIDE DEF a
  <2>7. ASSUME NEW i \in 1..(Top(r) + 1)
        PROVE  /\ HopFits(a[i]) /\ (a[i].st = "waiting" <=> i # Top(r) + 1)
               /\ i # 1 => a[i].stage = a[i - 1].stage + 1
    <3>1. CASE i = Top(r) + 1
      BY <1>4, <2>1, <2>5, <2>6, <3>1 DEF a
    <3>2. CASE i # Top(r) + 1
      BY <2>1, <2>4, <3>2 DEF a
    <3> QED
      BY <3>1, <3>2
  <2>8. StackFits(a)
    BY <2>1, <2>7 DEF StackFits, a
  <2> QED
    BY <2>1, <2>8 DEF a
<1>8. c \in CallType /\ c.frames = Append(fs, n) /\ c.st = call[r].st /\ c.head = call[r].head
      /\ c.plan = call[r].plan /\ c.at = call[r].at /\ c.live = call[r].live
      /\ c.good = call[r].good
  BY <1>2, <1>7 DEF CallType
<1> HIDE DEF c
<1>9. call'[r] = c /\ call[r].st = "running"
  BY <1>1, <1>5 DEF Running, ChainInv, ChainTypes
<1>10. Append(fs, n)[Top(r)] = g /\ \A i \in 1..Top(r) : i # Top(r) => Append(fs, n)[i] = call[r].frames[i]
  BY <1>1, <1>6, <1>7, LastFrame
<1> HIDE DEF f
<1> QED
  BY <1>3, <1>5, <1>7, <1>8, <1>9, <1>10 DEF f, n

LEMMA ForwardType == ASSUME ChainInv, NEW r \in Request, Forward(r) PROVE ChainInv'
<1>1. PICK c \in CallType :
        /\ call' = [call EXCEPT ![r] = c] /\ c.st = "running" /\ c.head = call[r].head
        /\ c.frames # << >> /\ StackFits(c.frames)
  BY ForwardCall
<1>2. CallFits(c, job[r]) /\ job[r] \in JobType /\ JobFits(job[r])
  <2>1. CallFits(call[r], job[r]) /\ call[r].st = "running"
    BY DEF Forward, Running, ChainInv
  <2> QED
    BY <1>1, <2>1 DEF CallFits, ChainInv, ChainTypes
<1>3. job' = [job EXCEPT ![r] = job[r]]
  BY DEF Forward, ChainInv, ChainTypes
<1> QED
  BY <1>1, <1>2, <1>3, ThreadStep
     DEF Forward, ChainInv, ChainTypes, gatewayVars, workerVars

LEMMA ReturnType == ASSUME ChainInv, NEW r \in Request, Return(r) PROVE ChainInv'
<1> DEFINE good == call[r].good /\ Last(call[r].frames).stage = N
           c == [call[r] EXCEPT !.st = "ok", !.good = good, !.frames = << >>]
<1>1. Running(r) /\ call[r] \in CallType /\ CallFits(call[r], job[r])
  BY DEF Return, ChainInv, ChainTypes
<1>2. call' = [call EXCEPT ![r] = c]
  BY DEF Return, ChainInv, ChainTypes, CallType
<1>3. good \in BOOLEAN
  OBVIOUS
<1> HIDE DEF good
<1>4. << >> \in Seq(FrameType) /\ StackFits(<< >>)
  BY DEF StackFits
<1>5. c \in CallType /\ c.frames = << >> /\ c.st = "ok" /\ c.head = call[r].head
  BY <1>1, <1>3, <1>4 DEF CallType
<1> HIDE DEF c
<1>6. CallFits(c, job[r]) /\ job[r] \in JobType /\ JobFits(job[r])
  BY <1>1, <1>4, <1>5, LastFrame DEF CallFits, ChainInv, ChainTypes
<1>7. job' = [job EXCEPT ![r] = job[r]]
  BY DEF Return, ChainInv, ChainTypes
<1> QED
  BY <1>2, <1>5, <1>6, <1>7, ThreadStep
     DEF Return, ChainInv, ChainTypes, gatewayVars, workerVars

\* A non-empty set of positive numbers has a least element: Min names it.
LEMMA MinIsIn ==
  ASSUME NEW S, S \subseteq Nat, S # {}
  PROVE  Min(S) \in S /\ \A x \in S : Min(S) <= x
<1>1. \E m \in S : \A x \in S : m <= x
  <2>1. PICK m \in S : \A x \in S : <<x, m>> \notin OpToRel(<, Nat)
    BY NatLessThanWellFounded, WFMin
  <2>2. \A x, y \in Nat : x < y => <<x, y>> \in OpToRel(<, Nat)
    BY DEF OpToRel
  <2>3. \A x \in S : x \in Nat /\ ~(x < m)
    BY <2>1, <2>2
  <2> QED
    BY <2>3
<1> QED
  BY <1>1 DEF Min

\* The first broken handler of a call, and the frame it has.
LEMMA FirstBroken ==
  ASSUME ChainInv, NEW r \in Request, Running(r), Broken(r) # {}
  PROVE  /\ Min(Broken(r)) \in Broken(r) /\ Min(Broken(r)) \in DOMAIN call[r].frames
         /\ Min(Broken(r)) \in Nat /\ 1 <= Min(Broken(r)) /\ Min(Broken(r)) <= Top(r)
         /\ \A i \in Broken(r) : Min(Broken(r)) <= i
<1>1. Broken(r) \subseteq DOMAIN call[r].frames
  BY DEF Broken
<1>2. DOMAIN call[r].frames = 1..Top(r) /\ Top(r) \in Nat
  BY LastFrame DEF Top
<1>3. Broken(r) \subseteq Nat
  BY <1>1, <1>2
<1>4. Min(Broken(r)) \in Broken(r) /\ \A i \in Broken(r) : Min(Broken(r)) <= i
  BY <1>3, MinIsIn
<1> QED
  BY <1>1, <1>2, <1>4

\* What is left running below a broken handler.
LEMMA RemainderType ==
  ASSUME ChainInv, NEW r \in Request, Running(r), NEW i \in DOMAIN call[r].frames
  PROVE  \A o \in Remainder(r, i) : o \in OrphanType /\ HopFits(o.frame)
<1> SUFFICES ASSUME NEW o \in Remainder(r, i) PROVE o \in OrphanType /\ HopFits(o.frame)
  OBVIOUS
<1> DEFINE f == Last(call[r].frames)
           from == IF Top(r) = i + 1 THEN NoDevice ELSE call[r].frames[Top(r) - 1].dev
<1>1. /\ Top(r) > i
      /\ o = [req |-> r, at |-> call[r].at, good |-> call[r].good, frame |-> f, from |-> from]
  BY DEF Remainder
<1>2. /\ call[r] \in CallType /\ call[r].frames \in Seq(FrameType) /\ Top(r) \in Nat
      /\ DOMAIN call[r].frames = 1..Top(r)
      /\ f \in FrameType /\ HopFits(f)
      /\ \A k \in DOMAIN call[r].frames : call[r].frames[k] \in FrameType
  BY LastFrame DEF Top
<1>3. from \in MaybeDevice
  <2>1. CASE Top(r) = i + 1
    BY <2>1 DEF MaybeDevice
  <2>2. CASE Top(r) # i + 1
    <3>1. Top(r) - 1 \in DOMAIN call[r].frames
      BY <1>1, <1>2, <2>2
    <3> QED
      BY <1>2, <2>2, <3>1 DEF FrameType, MaybeDevice
  <2> QED
    BY <2>1, <2>2
<1> HIDE DEF f, from
<1> QED
  BY <1>1, <1>2, <1>3 DEF OrphanType, CallType

\* The failed handler is blamed: the first broken one, or the one it waits for.
LEMMA CallFailsCall ==
  ASSUME ChainInv, NEW r \in Request, CallFails(r)
  PROVE  LET i == Min(Broken(r))
             failed == IF call[r].frames[i].dev \notin crashed /\ call[r].frames[i].st = "waiting"
                       THEN i + 1 ELSE i
         IN /\ call'[r] \in CallType /\ call' = [call EXCEPT ![r] = call'[r]]
            /\ call'[r].st = "error" /\ call'[r].head = call[r].head
            /\ call'[r].frames = << >>
            /\ call'[r].blame = IF failed = 1 THEN 0 ELSE call[r].frames[failed].stage
<1> DEFINE i == Min(Broken(r))
           failed == IF call[r].frames[i].dev \notin crashed /\ call[r].frames[i].st = "waiting"
                     THEN i + 1 ELSE i
           blame == IF failed = 1 THEN 0 ELSE call[r].frames[failed].stage
           c == [call[r] EXCEPT !.st = "error", !.blame = blame, !.frames = << >>]
<1>1. Running(r) /\ Broken(r) # {} /\ call[r] \in CallType /\ CallFits(call[r], job[r])
  BY DEF CallFails, ChainInv, ChainTypes
<1>2. i \in DOMAIN call[r].frames /\ i \in Nat
  BY <1>1, FirstBroken
<1>3. call' = [call EXCEPT ![r] = c]
  BY DEF CallFails, ChainInv, ChainTypes, CallType
<1>4. c \in CallType /\ c.frames = << >> /\ c.st = "error" /\ c.head = call[r].head
      /\ c.blame = blame
  <2>1. failed \in DOMAIN call[r].frames
    BY <1>1, <1>2, LastFrame DEF StackFits, Top
  <2>2. blame \in 0..N
    <3> HIDE DEF failed
    <3> QED
      BY <1>1, <2>1, LastFrame, Shape DEF FrameType, Stage
  <2>3. << >> \in Seq(FrameType)
    OBVIOUS
  <2> HIDE DEF blame
  <2> QED
    BY <1>1, <2>2, <2>3 DEF CallType
<1>5. call'[r] = c
  BY <1>3 DEF ChainInv, ChainTypes
<1> HIDE DEF c, blame
<1> QED
  BY <1>3, <1>4, <1>5 DEF blame

LEMMA CallFailsType == ASSUME ChainInv, NEW r \in Request, CallFails(r) PROVE ChainInv'
<1> DEFINE i == Min(Broken(r))
<1>1. Running(r) /\ Broken(r) # {} /\ CallFits(call[r], job[r])
  BY DEF CallFails, ChainInv
<1>2. i \in DOMAIN call[r].frames
  BY <1>1, FirstBroken
<1>3. PICK c \in CallType :
        /\ call' = [call EXCEPT ![r] = c] /\ c.st = "error" /\ c.head = call[r].head
        /\ c.frames = << >>
  BY CallFailsCall
<1>4. CallFits(c, job[r]) /\ job[r] \in JobType /\ JobFits(job[r])
  <2>1. StackFits(<< >>)
    BY DEF StackFits
  <2> QED
    BY <1>1, <1>3, <2>1, LastFrame DEF CallFits, ChainInv, ChainTypes
<1>5. job' = [job EXCEPT ![r] = job[r]]
  BY DEF CallFails, ChainInv, ChainTypes
<1>6. \A o \in orphans' : o \in OrphanType /\ HopFits(o.frame)
  <2>1. orphans' = orphans \cup Remainder(r, i)
    BY DEF CallFails
  <2> QED
    BY <1>1, <1>2, <2>1, RemainderType DEF ChainInv, ChainTypes
<1> QED
  BY <1>3, <1>4, <1>5, <1>6, ThreadStep
     DEF CallFails, ChainInv, ChainTypes, gatewayVars

LEMMA OrphanRunsType ==
  ASSUME ChainInv, NEW o \in orphans, OrphanRuns(o) PROVE ChainInv'
<1> DEFINE f == o.frame
           hop == HopOf(f.dev, f.stage, TRUE)
           good == Advance(kv[o.req][f.dev][f.stage], o.at, o.good) # Bad
           g == [f EXCEPT !.hop = hop, !.st = "ran"]
           u == [o EXCEPT !.good = good, !.frame = g]
<1>1. o \in OrphanType /\ f \in FrameType
  BY DEF ChainInv, ChainTypes, OrphanType
<1>2. hop # NoDevice => g \in FrameType /\ HopFits(g)
  <2>1. ASSUME NEW st, st = IF hop = NoDevice THEN "done" ELSE "ran"
        PROVE  LET h == [f EXCEPT !.hop = hop, !.st = st] IN h \in FrameType /\ HopFits(h)
    <3> HIDE DEF f
    <3> QED
      BY <1>1, <2>1, RanType
  <2> QED
    BY <2>1
<1>3. orphans' = (orphans \ {o}) \cup (IF hop = NoDevice THEN {} ELSE {u})
  <2>1. u = [o EXCEPT !.good = good, !.frame.hop = hop, !.frame.st = "ran"]
    <3> HIDE DEF good, hop
    <3> QED
      BY <1>1 DEF OrphanType, FrameType
  <2> QED
    BY <2>1 DEF OrphanRuns
<1>4. hop # NoDevice => u \in OrphanType /\ HopFits(u.frame)
  <2>1. good \in BOOLEAN
    OBVIOUS
  <2> HIDE DEF good, g
  <2> QED
    BY <1>1, <1>2, <2>1 DEF OrphanType
<1>5. \A x \in orphans' : x \in OrphanType /\ HopFits(x.frame)
  <2> HIDE DEF u, hop
  <2> QED
    BY <1>3, <1>4 DEF ChainInv, ChainTypes
<1>6. /\ kv' \in [Request -> [Device -> [Stage -> KVType]]]
      /\ mirrors' \subseteq MirrorType
  <2>1. RunLocal(o.req, f.dev, f.stage, o.at, TRUE, o.good)
    BY DEF OrphanRuns
  <2>2. o.req \in Request /\ f.dev \in Device /\ f.stage \in Stage /\ o.at \in Position
        /\ o.good \in BOOLEAN
    BY <1>1 DEF OrphanType, FrameType
  <2> HIDE DEF f
  <2> QED
    BY <2>1, <2>2, RunLocalType
<1> QED
  BY <1>5, <1>6 DEF OrphanRuns, ChainInv, ChainTypes, gatewayVars

LEMMA OrphanForwardsType ==
  ASSUME ChainInv, NEW o \in orphans, OrphanForwards(o) PROVE ChainInv'
<1> DEFINE f == o.frame
           n == Frame(f.hop, f.stage + 1)
           u == [o EXCEPT !.frame = n, !.from = f.dev]
<1>1. o \in OrphanType /\ f \in FrameType /\ HopFits(f) /\ f.st = "ran"
  BY DEF OrphanForwards, ChainInv, ChainTypes, OrphanType
<1>2. n \in FrameType /\ HopFits(n)
  <2>1. f.hop \in Device /\ f.stage < N /\ f.stage \in Stage
    BY <1>1 DEF HopFits, FrameType
  <2>2. f.stage + 1 \in Stage
    BY <2>1, Shape DEF Stage
  <2> HIDE DEF f
  <2> QED
    BY <2>1, <2>2, FrameIsTyped
<1>3. u \in OrphanType /\ HopFits(u.frame)
  <2> HIDE DEF n
  <2>1. f.dev \in MaybeDevice
    BY <1>1 DEF FrameType, MaybeDevice
  <2> QED
    BY <1>1, <1>2, <2>1 DEF OrphanType
<1>4. orphans' = (orphans \ {o}) \cup (IF f.open THEN {u} ELSE {})
  BY DEF OrphanForwards
<1>5. \A x \in orphans' : x \in OrphanType /\ HopFits(x.frame)
  <2> HIDE DEF u
  <2> QED
    BY <1>3, <1>4 DEF ChainInv, ChainTypes
<1> QED
  BY <1>5 DEF OrphanForwards, ChainInv, ChainTypes, gatewayVars

LEMMA OrphanVanishesType ==
  ASSUME ChainInv, NEW o \in orphans, OrphanVanishes(o) PROVE ChainInv'
  BY DEF OrphanVanishes, ChainInv, ChainTypes, gatewayVars

LEMMA DeliverMirrorType ==
  ASSUME ChainInv, NEW m \in mirrors, DeliverMirror(m) PROVE ChainInv'
<1>1. m \in MirrorType
  BY DEF ChainInv, ChainTypes
<1>2. m.req \in Request /\ m.stage \in Stage /\ m.at \in Position
  BY <1>1 DEF MirrorType
<1>3. cache' \in [Request -> [Stage -> [Position -> {"none", "good", "bad"}]]]
  BY <1>2 DEF DeliverMirror, ChainInv, ChainTypes
<1> QED
  BY <1>3 DEF DeliverMirror, ChainInv, ChainTypes

LEMMA CrashType == ASSUME ChainInv, NEW d \in Device, Crash(d) PROVE ChainInv'
  BY DEF Crash, ChainInv, ChainTypes, gatewayVars, workerVars

LEMMA MarkedType ==
  ASSUME ChainInv, NEW d \in Device, MarkedFromOutside(d) PROVE ChainInv'
<1>1. dead' \subseteq Device /\ plan' \in [Stage -> Device]
  BY MarkType DEF MarkedFromOutside
<1> QED
  BY <1>1 DEF MarkedFromOutside, ChainInv, ChainTypes, workerVars

LEMMA StutterType == ASSUME ChainInv, UNCHANGED vars PROVE ChainInv'
  BY DEF ChainInv, ChainTypes, vars, workerVars, gatewayVars

LEMMA NextType == ChainInv /\ [Next]_vars => ChainInv'
<1> SUFFICES ASSUME ChainInv, [Next]_vars PROVE ChainInv'
  OBVIOUS
<1>1. ASSUME NEW r \in Request, Gateway(r) PROVE ChainInv'
  BY <1>1, StepType, StepDoneType, StepFailedType, PromoteType, RewireType, EvictType,
     ReplayType, RebuildType, RecoveryAnswerType DEF Gateway
<1>2. ASSUME NEW r \in Request, Chain(r) PROVE ChainInv'
  BY <1>2, RunStageType, ForwardType, ReturnType, CallFailsType DEF Chain
<1>3. CASE Orphan
  BY <1>3, OrphanRunsType, OrphanForwardsType, OrphanVanishesType DEF Orphan
<1>4. ASSUME NEW m \in mirrors, DeliverMirror(m) PROVE ChainInv'
  BY <1>4, DeliverMirrorType
<1>5. ASSUME NEW d \in Device, Crash(d) \/ MarkedFromOutside(d) PROVE ChainInv'
  BY <1>5, CrashType, MarkedType
<1>6. CASE Finished \/ UNCHANGED vars
  BY <1>6, StutterType DEF Finished
<1> QED
  BY <1>1, <1>2, <1>3, <1>4, <1>5, <1>6 DEF Next

LEMMA TypesFollow == ChainInv => TypeOK
<1> SUFFICES ASSUME ChainInv PROVE TypeOK
  OBVIOUS
<1>1. ASSUME NEW r \in Request
      PROVE  /\ call[r].st \in {"idle", "running", "ok", "error"}
             /\ call[r].at \in Position /\ call[r].blame \in 0..N
             /\ (call[r].st = "running") = (call[r].frames # << >>)
             /\ \A i \in DOMAIN call[r].frames : call[r].frames[i] \in FrameType
             /\ job[r].pos \in Position /\ job[r].out \in 0..MaxTokens
             /\ job[r].k \in 0..(N + MaxTokens)
  <2>1. call[r] \in CallType /\ job[r] \in JobType /\ CallFits(call[r], job[r])
    BY DEF ChainInv, ChainTypes
  <2>2. (call[r].st = "running") <=> (call[r].frames # << >>)
    BY <2>1 DEF CallFits
  <2> QED
    BY <2>1, <2>2 DEF CallType, JobType
<1>2. \A o \in orphans : o.req \in Request /\ o.frame \in FrameType
  BY DEF ChainInv, ChainTypes, OrphanType
<1> QED
  BY <1>1, <1>2 DEF TypeOK, ChainInv, ChainTypes, MirrorType, KVType

\* The state of the gateway, the workers and the calls keeps its types, for every
\* placement, table, mode and number of requests and whatever crashes or is
\* marked: among them that no position runs past max_tokens, in a recovery either.
THEOREM TypesHold == Spec => []TypeOK
<1>1. Init => ChainInv
  BY InitType
<1>2. ChainInv /\ [Next]_vars => ChainInv'
  BY NextType
<1>3. ChainInv => TypeOK
  BY TypesFollow
<1> QED
  BY <1>1, <1>2, <1>3, PTL DEF Spec

-----------------------------------------------------------------------------
(***************************************************************************)
(* Who is declared dead.  With one request at a time no other thread       *)
(* rewires the chain under a call, so only a crash breaks one; the device  *)
(* that is blamed is the one the placement names for the failed stage,     *)
(* which crashed unless it was declared dead before and its backup failed. *)
(***************************************************************************)
OneRequest == \A q, r \in Request : q = r

\* d is the device of the stage's range, or serves for one that is dead.
Serves(d, s) == d = Placement[s] \/ Placement[s] \in dead

Suspect(d) == d \in crashed \cup Markable

BlameFits(c) ==
  /\ c.st = "running" => c.head = c.frames[1].dev
  /\ \A i \in DOMAIN c.frames :
       LET f == c.frames[i]
       IN /\ f.open /\ Serves(f.dev, f.stage)
          /\ f.st = "ran" => Serves(f.hop, f.stage + 1)
  /\ c.st = "error" => Suspect(IF c.blame = 0 THEN c.head ELSE Placement[c.blame])

\* The stage a recovery feeds.
Fed(j) == IF j.pc = "replay" THEN 1 ELSE j.stage

RecoveryFits(j, c) ==
  /\ j.pc = "rewire" => \A s \in Stage : Serves(j.rplan[s], s)
  /\ j.pc = "evict" /\ j.then = "replay" => j.k = 0
  /\ j.pc \in {"replay", "rebuild"} /\ (j.k > 0 \/ c.st # "idle")
       => Serves(j.dev, Fed(j))

BlameInv ==
  /\ \A d \in dead : Suspect(d)
  /\ \A s \in Stage : Serves(plan[s], s)
  /\ \A d \in Device, s \in Stage :
       next_hop[d][s] # NoDevice => Serves(next_hop[d][s], s + 1)
  /\ \A r \in Request : BlameFits(call[r]) /\ RecoveryFits(job[r], call[r])

\* A plan made from the dead set, or from an earlier one, serves every stage.
LEMMA PlanServes ==
  ASSUME NEW D, D \subseteq dead, NEW s \in Stage
  PROVE  Serves(build_execution_plan(Placement, Recovery, D)[s], s)
<1>1. s \in DOMAIN Placement
  BY Shape
<1> QED
  BY <1>1 DEF Serves, build_execution_plan, Serving

\* Nothing is taken back: crashed workers stay gone, dead ones stay marked.
LEMMA Monotone ==
  ASSUME Next \/ UNCHANGED vars
  PROVE  crashed \subseteq crashed' /\ dead \subseteq dead'
<1>1. ASSUME NEW d, MarkDead(d) PROVE dead \subseteq dead'
  BY <1>1 DEF MarkDead
<1>2. ASSUME NEW r \in Request, Gateway(r) PROVE crashed' = crashed /\ dead \subseteq dead'
  <2>1. CASE StepFailed(r)
    BY <2>1, <1>1 DEF StepFailed
  <2> QED
    BY <1>2, <2>1 DEF Gateway, Step, StepDone, Promote, Rewire, Evict, Replay, Rebuild,
       RecoveryAnswer, gatewayVars
<1>3. ASSUME NEW r \in Request, Chain(r) PROVE crashed' = crashed /\ dead' = dead
  BY <1>3 DEF Chain, RunStage, Forward, Return, CallFails, gatewayVars
<1>4. CASE Orphan
  BY <1>4 DEF Orphan, OrphanRuns, OrphanForwards, OrphanVanishes, gatewayVars
<1>5. ASSUME NEW m \in mirrors, DeliverMirror(m) PROVE crashed' = crashed /\ dead' = dead
  BY <1>5 DEF DeliverMirror
<1>6. ASSUME NEW d \in Device, Crash(d) PROVE crashed \subseteq crashed' /\ dead' = dead
  BY <1>6 DEF Crash, gatewayVars
<1>7. ASSUME NEW d \in Device, MarkedFromOutside(d) PROVE crashed' = crashed /\ dead \subseteq dead'
  BY <1>1, <1>7 DEF MarkedFromOutside
<1>8. CASE Finished \/ UNCHANGED vars
  BY <1>8 DEF Finished, vars
<1> QED
  BY <1>2, <1>3, <1>4, <1>5, <1>6, <1>7, <1>8 DEF Next

\* What served and what was suspect does so for good.
LEMMA ServesOn ==
  ASSUME dead \subseteq dead', crashed \subseteq crashed'
  PROVE  /\ \A d, s : Serves(d, s) => Serves(d, s)'
         /\ \A d : Suspect(d) => Suspect(d)'
  BY DEF Serves, Suspect

\* A step of the one request, whatever it does to the gateway and the wiring.
LEMMA BlameStep ==
  ASSUME BlameInv, OneRequest, NEW r \in Request,
         dead \subseteq dead', crashed \subseteq crashed',
         \A d \in dead' : Suspect(d)',
         plan' = plan \/ \A s \in Stage : Serves(plan[s], s)',
         next_hop' = next_hop \/
           \A d \in Device, s \in Stage :
             next_hop'[d][s] # NoDevice => Serves(next_hop[d][s], s + 1)',
         BlameFits(call[r])', RecoveryFits(job[r], call[r])'
  PROVE  BlameInv'
<1>1. \A d, s : Serves(d, s) => Serves(d, s)'
  BY ServesOn
<1>2. \A s \in Stage : Serves(plan[s], s)'
  BY <1>1 DEF BlameInv, Serves
<1>3. \A d \in Device, s \in Stage :
        next_hop'[d][s] # NoDevice => Serves(next_hop[d][s], s + 1)'
  BY <1>1 DEF BlameInv, Serves
<1> QED
  BY <1>2, <1>3 DEF BlameInv, OneRequest

LEMMA InitBlame == Init => BlameInv
<1> SUFFICES ASSUME Init PROVE BlameInv
  OBVIOUS
<1>1. \A s \in Stage : Serves(plan[s], s)
  BY PlanServes DEF Init
<1>2. \A d \in Device, s \in Stage :
        next_hop[d][s] # NoDevice => Serves(next_hop[d][s], s + 1)
  BY DEF Init, Serves
<1>3. \A r \in Request : BlameFits(call[r]) /\ RecoveryFits(job[r], call[r])
  BY DEF Init, BlameFits, RecoveryFits, NoCall
<1> QED
  BY <1>1, <1>2, <1>3 DEF Init, BlameInv

\* Where a thread goes on after the evictions that end an attempt.
LEMMA EmitThen ==
  ASSUME NEW j \in JobType, NEW good \in BOOLEAN
  PROVE  Emit(j, good).pc = "step" \/ (Emit(j, good).pc = "evict" /\ Emit(j, good).then = "done")
<1> DEFINE j2 == [j EXCEPT !.out = @ + 1, !.pos = @ + 1, !.wrong = @ \/ ~good]
           e == StartEvict([j2 EXCEPT !.pos = 0], "done")
           f == [j2 EXCEPT !.pc = "step"]
<1>1. e.pc = "evict" /\ e.then = "done" /\ f.pc = "step"
  BY DEF StartEvict, JobType
<1>2. Emit(j, good) \in {e, f}
  BY DEF Emit
<1> HIDE DEF e, f
<1> QED
  BY <1>1, <1>2

LEMMA ReprefillThen ==
  ASSUME NEW j \in JobType
  PROVE  Reprefill(j).pc = "evict" /\ Reprefill(j).then \in {"step", "failed"}
<1> DEFINE a == StartEvict([j EXCEPT !.attempts = @ + 1, !.pos = 0, !.out = 0], "step")
           b == StartEvict(j, "failed")
<1>1. a.pc = "evict" /\ a.then = "step" /\ b.pc = "evict" /\ b.then = "failed"
  BY DEF StartEvict, JobType
<1>2. Reprefill(j) \in {a, b}
  BY DEF Reprefill
<1> HIDE DEF a, b
<1> QED
  BY <1>1, <1>2

\* A call starts with one open handler and nobody to blame.
LEMMA CalledBlame ==
  ASSUME NEW d, NEW s, NEW c, Serves(d, s),
         c.st = "running", c.head = d, c.frames = <<Frame(d, s)>>
  PROVE  BlameFits(c)
<1>1. /\ Frame(d, s).dev = d /\ Frame(d, s).stage = s /\ Frame(d, s).open
      /\ Frame(d, s).st = "arriving"
  BY DEF Frame
<1>2. DOMAIN <<Frame(d, s)>> = {1} /\ <<Frame(d, s)>>[1] = Frame(d, s)
  OBVIOUS
<1> QED
  BY <1>1, <1>2 DEF BlameFits

LEMMA NoCallBlame == BlameFits(NoCall)
  BY DEF BlameFits, NoCall

\* Invoke, seen at its caller.
InvokedAt(r, d, s) ==
  /\ call'[r].st = "running" /\ call'[r].head = d /\ call'[r].plan = plan
  /\ call'[r].frames = <<Frame(d, s)>>

LEMMA StepInvokes ==
  ASSUME ChainInv, NEW r \in Request, Step(r)
  PROVE  InvokedAt(r, plan[1], 1)
<1>1. call'[r] = [NoCall EXCEPT !.st = "running", !.live = TRUE, !.at = job[r].pos,
                                !.good = TRUE, !.head = plan[1], !.plan = plan,
                                !.frames = <<Frame(plan[1], 1)>>]
  BY DEF Step, Invoke, ChainInv, ChainTypes
<1> QED
  BY <1>1, NoCallIsTyped DEF CallType, InvokedAt

LEMMA StepBlame ==
  ASSUME ChainInv, BlameInv, OneRequest, NEW r \in Request, Step(r) PROVE BlameInv'
<1>1. InvokedAt(r, plan[1], 1)
  BY StepInvokes
<1>2. job'[r].pc = "wait"
  BY DEF Step, ChainInv, ChainTypes, JobType
<1>3. UNCHANGED <<crashed, dead, plan, next_hop>>
  BY DEF Step, workerVars
<1>4. Serves(plan[1], 1)
  BY Shape DEF BlameInv
<1>5. BlameFits(call'[r])
  BY <1>1, <1>4, CalledBlame DEF InvokedAt
<1>6. BlameFits(call[r])' /\ RecoveryFits(job[r], call[r])'
  BY <1>2, <1>3, <1>5 DEF BlameFits, Serves, Suspect, RecoveryFits
<1> QED
  BY <1>3, <1>6 DEF BlameInv, OneRequest, Serves, Suspect

LEMMA StepDoneBlame ==
  ASSUME ChainInv, BlameInv, OneRequest, NEW r \in Request, StepDone(r) PROVE BlameInv'
<1>1. job'[r] = Emit(job[r], call[r].good) /\ call'[r] = NoCall
  BY DEF StepDone, ChainInv, ChainTypes
<1>2. UNCHANGED <<crashed, dead, plan, next_hop>>
  BY DEF StepDone, workerVars, gatewayVars
<1>3. job'[r].pc = "step" \/ (job'[r].pc = "evict" /\ job'[r].then = "done")
  BY <1>1, EmitThen DEF ChainInv, ChainTypes, CallType
<1>4. BlameFits(call[r])' /\ RecoveryFits(job[r], call[r])'
  BY <1>1, <1>2, <1>3, NoCallBlame DEF BlameFits, Serves, Suspect, RecoveryFits
<1> QED
  BY <1>2, <1>4 DEF BlameInv, OneRequest, Serves, Suspect

\* The device a failed step blames crashed, or may be marked anyway.
LEMMA BlamedIsSuspect ==
  ASSUME ChainInv, BlameInv, NEW r \in Request, call[r].st = "error"
  PROVE  Suspect(DeadDevice(r))
  BY DEF BlameInv, BlameFits, DeadDevice

\* Marking a device puts its backup, or nobody, in its place.
LEMMA MarkServes ==
  ASSUME BlameInv, NEW d, MarkDead(d)
  PROVE  /\ dead' = dead \cup {d}
         /\ \A s \in Stage : Serves(plan[s], s)'
<1>1. dead' = dead \cup {d}
  BY DEF MarkDead
<1>2. ASSUME NEW s \in Stage PROVE Serves(plan[s], s)'
  <2>1. CASE plan' = plan
    BY <1>1, <2>1 DEF BlameInv, Serves
  <2>2. CASE plan' = build_execution_plan(Placement, Recovery, dead')
    BY <2>2, Shape DEF Serves, build_execution_plan, Serving
  <2> QED
    BY <2>1, <2>2 DEF MarkDead
<1> QED
  BY <1>1, <1>2

LEMMA StepFailedBlame ==
  ASSUME ChainInv, BlameInv, OneRequest, NEW r \in Request, StepFailed(r) PROVE BlameInv'
<1> DEFINE d == DeadDevice(r)
<1>1. Suspect(d)
  BY BlamedIsSuspect DEF StepFailed
<1>2. crashed' = crashed /\ next_hop' = next_hop
  BY DEF StepFailed, workerVars
<1>3. dead \subseteq dead' /\ dead' \subseteq dead \cup {d}
      /\ \A s \in Stage : Serves(plan[s], s)'
  <2>1. CASE d \in dead
    <3>1. dead' = dead /\ plan' = plan
      BY <2>1 DEF StepFailed
    <3> QED
      BY <3>1 DEF BlameInv, Serves
  <2>2. CASE d \notin dead
    <3>1. MarkDead(d)
      BY <2>2 DEF StepFailed
    <3> QED
      BY <3>1, MarkServes
  <2> QED
    BY <2>1, <2>2
<1>4. call'[r] = NoCall
  BY DEF StepFailed, ChainInv, ChainTypes
<1>5. job'[r].pc = "promote" \/ (job'[r].pc = "evict" /\ job'[r].then = "failed")
  BY DEF StepFailed, ChainInv, ChainTypes, JobType, StartEvict
<1>6. BlameFits(call[r])' /\ RecoveryFits(job[r], call[r])'
  BY <1>4, <1>5 DEF BlameFits, RecoveryFits, NoCall
<1>7. \A e \in dead' : Suspect(e)'
  BY <1>1, <1>2, <1>3 DEF BlameInv, Suspect
<1> HIDE DEF d
<1> QED
  BY <1>2, <1>3, <1>6, <1>7, BlameStep

LEMMA PromoteBlame ==
  ASSUME ChainInv, BlameInv, OneRequest, NEW r \in Request, Promote(r) PROVE BlameInv'
<1>1. UNCHANGED <<crashed, dead, plan, next_hop, call>>
  BY DEF Promote, workerVars, gatewayVars
<1>2. \/ job'[r].pc = "evict" /\ job'[r].then \in {"step", "failed"}
      \/ job'[r].pc = "rewire" /\ job'[r].rplan = plan
  <2> DEFINE k == Recovery[job[r].dev]
             w == [job[r] EXCEPT !.pc = "rewire", !.k = 1, !.rplan = plan]
             a == StartEvict(job[r], "failed")
             b == Reprefill(job[r])
  <2>1. job[r] \in JobType
    BY DEF ChainInv, ChainTypes
  <2>2. /\ w.pc = "rewire" /\ w.rplan = plan /\ a.pc = "evict" /\ a.then = "failed"
        /\ b.pc = "evict" /\ b.then \in {"step", "failed"}
    BY <2>1, ReprefillThen DEF JobType, StartEvict
  <2>3. job'[r] = CASE k = NoDevice -> a [] k \in crashed -> b [] OTHER -> w
    BY DEF Promote, ChainInv, ChainTypes
  <2>4. NoDevice \notin crashed
    BY Shape DEF ChainInv, ChainTypes
  <2> HIDE DEF k, w, a, b
  <2> QED
    BY <2>2, <2>3, <2>4
<1>3. BlameFits(call[r])' /\ RecoveryFits(job[r], call[r])'
  BY <1>1, <1>2 DEF BlameFits, RecoveryFits, BlameInv, Serves, Suspect
<1> QED
  BY <1>1, <1>3 DEF BlameInv, OneRequest, Serves, Suspect

\* What the last rewiring step makes of its job.
LEMMA AfterRewireJob ==
  ASSUME ChainInv, NEW r \in Request
  PROVE  LET j == AfterRewire(r)
         IN /\ j.pc = "rebuild" \/ (j.pc = "evict" /\ j.then = "replay")
            /\ j.k = 0 /\ j.rplan = job[r].rplan /\ j.dev = job[r].dev
            /\ j.todo = IF j.pc = "evict" THEN Device ELSE job[r].todo
<1>1. job[r] \in JobType
  BY DEF ChainInv, ChainTypes
<1> DEFINE b == [job[r] EXCEPT !.pc = "rebuild", !.k = 0]
           e == StartEvict([job[r] EXCEPT !.k = 0], "replay")
<1>2. /\ b.pc = "rebuild" /\ b.k = 0 /\ b.rplan = job[r].rplan /\ b.dev = job[r].dev
      /\ b.todo = job[r].todo
      /\ e.pc = "evict" /\ e.then = "replay" /\ e.k = 0 /\ e.rplan = job[r].rplan
      /\ e.dev = job[r].dev /\ e.todo = Device
  BY <1>1 DEF JobType, StartEvict
<1>3. AfterRewire(r) \in {b, e}
  BY DEF AfterRewire
<1> HIDE DEF b, e
<1> QED
  BY <1>2, <1>3

\* A rewiring thread has no call under way.
LEMMA IdleCall ==
  ASSUME ChainInv, NEW r \in Request, job[r].pc \notin {"wait", "replay", "rebuild"}
  PROVE  call[r].st = "idle" /\ call[r].frames = << >>
  BY DEF ChainInv, ChainTypes, CallType, CallFits

LEMMA IdleRewired ==
  ASSUME ChainInv, NEW r \in Request, Rewire(r)
  PROVE  call'[r].st = "idle" /\ call'[r].frames = << >>
<1>1. call[r].st = "idle" /\ call[r].frames = << >> /\ call[r] \in CallType
  BY IdleCall DEF Rewire, ChainInv, ChainTypes
<1>2. CASE job[r].rplan[job[r].k] \in crashed
  BY <1>1, <1>2 DEF Rewire
<1>3. CASE job[r].rplan[job[r].k] \notin crashed
  <2>1. PICK d, s : CloseChannel(d, s)
    BY <1>3 DEF Rewire
  <2> DEFINE Shut(f) == IF f.dev = d /\ f.stage = s THEN [f EXCEPT !.open = FALSE] ELSE f
             fs == [i \in DOMAIN call[r].frames |-> Shut(call[r].frames[i])]
  <2>2. call'[r] = [call[r] EXCEPT !.frames = fs]
    BY <1>1, <2>1 DEF CloseChannel, CallType
  <2> HIDE DEF Shut
  <2>3. fs = << >>
    BY <1>1
  <2> HIDE DEF fs
  <2> QED
    BY <1>1, <2>2, <2>3 DEF CallType
<1> QED
  BY <1>2, <1>3

\* One SetNextHop, and the step of the thread that makes it.
LEMMA RewireStep ==
  ASSUME ChainInv, NEW r \in Request, Rewire(r)
  PROVE  LET s == job[r].k
             p == job[r].rplan
         IN /\ s \in Stage /\ s \in Nat /\ p \in [Stage -> Device]
            /\ (s < N => s + 1 \in Stage) /\ (s # N => s < N)
            /\ next_hop' = IF p[s] \in crashed THEN next_hop
                           ELSE [next_hop EXCEPT ![p[s]][s] = IF s < N THEN p[s + 1] ELSE NoDevice]
            /\ \/ s < N /\ job'[r].pc = "rewire" /\ job'[r].k = s + 1 /\ job'[r].rplan = p
               \/ s = N /\ job'[r] = AfterRewire(r)
<1>1. job[r] \in JobType /\ JobFits(job[r]) /\ job[r].pc = "rewire"
  BY DEF Rewire, ChainInv, ChainTypes
<1>2. job[r].k \in Stage /\ job[r].rplan \in [Stage -> Device]
  BY <1>1 DEF JobFits
<1>3. job[r].k \in Nat /\ (job[r].k < N => job[r].k + 1 \in Stage) /\ (job[r].k # N => job[r].k < N)
      /\ (job[r].k = N => ~(job[r].k < N))
  BY <1>2, Shape DEF Stage
<1>4. next_hop' = IF job[r].rplan[job[r].k] \in crashed THEN next_hop
                  ELSE [next_hop EXCEPT ![job[r].rplan[job[r].k]][job[r].k] =
                          IF job[r].k < N THEN job[r].rplan[job[r].k + 1] ELSE NoDevice]
  BY DEF Rewire
<1>5. job'[r] = IF job[r].k < N THEN [job[r] EXCEPT !.k = job[r].k + 1] ELSE AfterRewire(r)
  BY DEF Rewire, ChainInv, ChainTypes
<1>6. job[r].k < N => job'[r].pc = "rewire" /\ job'[r].k = job[r].k + 1 /\ job'[r].rplan = job[r].rplan
  BY <1>1, <1>5 DEF JobType
<1> QED
  BY <1>2, <1>3, <1>4, <1>5, <1>6

LEMMA RewireBlame ==
  ASSUME ChainInv, BlameInv, OneRequest, NEW r \in Request, Rewire(r) PROVE BlameInv'
<1> DEFINE s == job[r].k
           p == job[r].rplan
<1>1. UNCHANGED <<crashed, dead, plan>>
  BY DEF Rewire, gatewayVars
<1>2. \A t \in Stage : Serves(p[t], t)
  BY DEF Rewire, BlameInv, RecoveryFits
<1>3. /\ s \in Stage /\ p \in [Stage -> Device] /\ (s < N => s + 1 \in Stage)
      /\ next_hop' = IF p[s] \in crashed THEN next_hop
                     ELSE [next_hop EXCEPT ![p[s]][s] = IF s < N THEN p[s + 1] ELSE NoDevice]
      /\ \/ s < N /\ job'[r].pc = "rewire" /\ job'[r].rplan = p
         \/ s = N /\ job'[r] = AfterRewire(r)
  BY RewireStep
<1> HIDE DEF s, p
<1>4. ASSUME NEW d \in Device, NEW t \in Stage, next_hop'[d][t] # NoDevice
      PROVE  Serves(next_hop'[d][t], t + 1)
  <2>1. CASE next_hop'[d][t] = next_hop[d][t]
    BY <1>4, <2>1 DEF BlameInv
  <2>2. CASE next_hop'[d][t] # next_hop[d][t]
    <3>1. t = s /\ s < N /\ next_hop'[d][t] = p[s + 1]
      BY <1>3, <1>4, <2>2 DEF ChainInv, ChainTypes
    <3> QED
      BY <1>2, <1>3, <3>1
  <2> QED
    BY <2>1, <2>2
<1>5. BlameFits(call[r])'
  BY IdleRewired DEF BlameFits
<1>6. RecoveryFits(job[r], call[r])'
  BY <1>1, <1>2, <1>3, AfterRewireJob, IdleRewired DEF RecoveryFits, Serves
<1> QED
  BY <1>1, <1>4, <1>5, <1>6 DEF BlameInv, OneRequest, Serves, Suspect

\* Where an evicting thread is after one EvictRequest.
LEMMA EvictJob ==
  ASSUME ChainInv, NEW r \in Request, Evict(r)
  PROVE  \E d \in job[r].todo :
           /\ d = CHOOSE x \in job[r].todo : TRUE
           /\ d \in Device
           /\ job'[r].todo = job[r].todo \ {d}
           /\ job'[r].pc = IF job[r].todo = {d} THEN job[r].then ELSE "evict"
           /\ job'[r].then = job[r].then /\ job'[r].k = job[r].k
           /\ job'[r].dev = job[r].dev /\ job'[r].rplan = job[r].rplan
           /\ job[r].then \in {"step", "done", "failed", "replay"}
<1>1. PICK d \in job[r].todo : d = CHOOSE x \in job[r].todo : TRUE
  BY DEF Evict
<1>2. job[r] \in JobType /\ job[r].pc = "evict"
  BY DEF Evict, ChainInv, ChainTypes
<1>3. job'[r] = [job[r] EXCEPT !.todo = @ \ {d},
                               !.pc = IF job[r].todo = {d} THEN job[r].then ELSE @]
  BY <1>1 DEF Evict, ChainInv, ChainTypes
<1> QED
  BY <1>1, <1>2, <1>3 DEF JobType

LEMMA EvictBlame ==
  ASSUME ChainInv, BlameInv, OneRequest, NEW r \in Request, Evict(r) PROVE BlameInv'
<1>1. UNCHANGED <<crashed, dead, plan, next_hop, call>>
  BY DEF Evict
<1>2. call[r].st = "idle"
  BY IdleCall DEF Evict
<1>3. RecoveryFits(job[r], call[r])'
  <2>1. PICK d \in job[r].todo :
          /\ job'[r].pc = IF job[r].todo = {d} THEN job[r].then ELSE "evict"
          /\ job'[r].then = job[r].then /\ job'[r].k = job[r].k
          /\ job[r].then \in {"step", "done", "failed", "replay"}
    BY EvictJob
  <2>2. job[r].then = "replay" => job[r].k = 0
    BY DEF Evict, BlameInv, RecoveryFits
  <2>3. ~(0 > 0)
    OBVIOUS
  <2> QED
    BY <1>1, <1>2, <2>1, <2>2, <2>3 DEF RecoveryFits
<1>4. BlameFits(call[r])'
  BY <1>1 DEF BlameFits, BlameInv, Serves, Suspect
<1> QED
  BY <1>1, <1>3, <1>4 DEF BlameInv, OneRequest, Serves, Suspect

\* A call a recovery makes, seen at its caller.
RecoveryInvokes(r, s) ==
  LET d == IF job[r].k = 0 THEN plan[s] ELSE job[r].dev
  IN /\ InvokedAt(r, d, s) /\ s \in Stage
     /\ job'[r].dev = d /\ job'[r].pc = job[r].pc /\ job'[r].k = job[r].k
     /\ job'[r].stage = job[r].stage
     /\ UNCHANGED <<crashed, dead, plan, next_hop>>

LEMMA ReplayInvokes ==
  ASSUME ChainInv, NEW r \in Request, Replay(r)
  PROVE  RecoveryInvokes(r, 1)
<1> DEFINE d == IF job[r].k = 0 THEN plan[1] ELSE job[r].dev
<1>1. job'[r] = [job[r] EXCEPT !.dev = d] /\ job[r] \in JobType
  BY DEF Replay, ChainInv, ChainTypes
<1>2. job'[r].dev = d /\ job'[r].pc = job[r].pc /\ job'[r].k = job[r].k
      /\ job'[r].stage = job[r].stage
  BY <1>1 DEF JobType
<1>3. call'[r] = [NoCall EXCEPT !.st = "running", !.live = TRUE, !.at = job[r].k,
                                !.good = TRUE, !.head = job'[r].dev, !.plan = plan,
                                !.frames = <<Frame(job'[r].dev, 1)>>]
  BY DEF Replay, Invoke, ChainInv, ChainTypes
<1>4. InvokedAt(r, d, 1)
  BY <1>2, <1>3, NoCallIsTyped DEF CallType, InvokedAt
<1> QED
  BY <1>2, <1>4, Shape DEF RecoveryInvokes, Replay, workerVars, gatewayVars

LEMMA RebuildInvokes ==
  ASSUME ChainInv, NEW r \in Request, Rebuild(r)
  PROVE  RecoveryInvokes(r, job[r].stage)
<1> DEFINE s == job[r].stage
           d == IF job[r].k = 0 THEN plan[s] ELSE job[r].dev
<1>1. job'[r] = [job[r] EXCEPT !.dev = d] /\ job[r] \in JobType /\ s \in Stage
  BY DEF Rebuild, ChainInv, ChainTypes, JobType
<1>2. job'[r].dev = d /\ job'[r].pc = job[r].pc /\ job'[r].k = job[r].k
      /\ job'[r].stage = job[r].stage
  BY <1>1 DEF JobType
<1>3. call'[r] = [NoCall EXCEPT !.st = "running", !.live = (job[r].k = job[r].pos),
                                !.at = job[r].k, !.good = (cache[r][s][job[r].k] = "good"),
                                !.head = job'[r].dev, !.plan = plan,
                                !.frames = <<Frame(job'[r].dev, s)>>]
  BY DEF Rebuild, Invoke, ChainInv, ChainTypes
<1>4. InvokedAt(r, d, s)
  BY <1>2, <1>3, NoCallIsTyped DEF CallType, InvokedAt
<1> QED
  BY <1>1, <1>2, <1>4 DEF RecoveryInvokes, Rebuild, workerVars, gatewayVars

LEMMA RecoveryCallBlame ==
  ASSUME ChainInv, BlameInv, OneRequest, NEW r \in Request,
         job[r].pc \in {"replay", "rebuild"}, RecoveryInvokes(r, Fed(job[r]))
  PROVE  BlameInv'
<1> DEFINE d == IF job[r].k = 0 THEN plan[Fed(job[r])] ELSE job[r].dev
<1>1. /\ InvokedAt(r, d, Fed(job[r])) /\ Fed(job[r]) \in Stage /\ Fed(job'[r]) = Fed(job[r])
      /\ job'[r].dev = d /\ job'[r].pc = job[r].pc
      /\ UNCHANGED <<crashed, dead, plan, next_hop>>
  BY DEF RecoveryInvokes, Fed
<1>2. job[r].k \in Nat
  BY Shape DEF ChainInv, ChainTypes, JobType
<1>3. Serves(d, Fed(job[r]))
  BY <1>1, <1>2 DEF BlameInv, RecoveryFits
<1> HIDE DEF d
<1>4. BlameFits(call'[r])
  BY <1>1, <1>3, CalledBlame DEF InvokedAt
<1>5. BlameFits(call[r])' /\ RecoveryFits(job[r], call[r])'
  BY <1>1, <1>3, <1>4 DEF BlameFits, Serves, Suspect, RecoveryFits
<1> QED
  BY <1>1, <1>5 DEF BlameInv, OneRequest, Serves, Suspect

\* An answer ends the attempt, feeds the next position or is a token.
LEMMA RecoveryAnswerJob ==
  ASSUME ChainInv, NEW r \in Request, RecoveryAnswer(r)
  PROVE  /\ call'[r] = NoCall /\ UNCHANGED <<crashed, dead, plan, next_hop>>
         /\ \/ /\ job'[r].pc = "evict" /\ job'[r].then \in {"step", "failed"}
               /\ call[r].st = "error"
            \/ job'[r].pc = "step" \/ (job'[r].pc = "evict" /\ job'[r].then = "done")
            \/ /\ job'[r].pc = job[r].pc /\ job'[r].dev = job[r].dev
               /\ job'[r].stage = job[r].stage
<1> DEFINE m == [job[r] EXCEPT !.k = @ + 1]
           a == Reprefill(job[r])
           b == Emit(job[r], call[r].good)
<1>1. /\ job[r] \in JobType /\ JobFits(job[r]) /\ call[r].st \in {"ok", "error"}
      /\ job[r].pc \in {"replay", "rebuild"} /\ call[r].good \in BOOLEAN
  BY DEF RecoveryAnswer, ChainInv, ChainTypes, CallType
<1>2. job[r].k <= job[r].pos /\ job[r].k \in Nat /\ job[r].pos \in Nat
  BY <1>1, Shape DEF JobFits, JobType, Position
<1>3. job'[r] = CASE call[r].st = "error" -> a
                  [] call[r].st = "ok" /\ job[r].k < job[r].pos -> m
                  [] call[r].st = "ok" /\ job[r].k = job[r].pos -> b
  <2> DEFINE j == CASE call[r].st = "error" -> a
                    [] call[r].st = "ok" /\ job[r].k < job[r].pos -> m
                    [] call[r].st = "ok" /\ job[r].k = job[r].pos -> b
  <2>1. job' = [job EXCEPT ![r] = j]
    BY DEF RecoveryAnswer, ChainInv, ChainTypes
  <2> HIDE DEF j
  <2>2. job'[r] = j
    BY <2>1 DEF ChainInv, ChainTypes
  <2> QED
    BY <2>2 DEF j
<1>4. m.pc = job[r].pc /\ m.dev = job[r].dev /\ m.stage = job[r].stage
  BY <1>1 DEF JobType
<1>5. a.pc = "evict" /\ a.then \in {"step", "failed"}
  BY <1>1, ReprefillThen
<1>6. b.pc = "step" \/ (b.pc = "evict" /\ b.then = "done")
  BY <1>1, EmitThen
<1>7. call'[r] = NoCall /\ UNCHANGED <<crashed, dead, plan, next_hop>>
  BY DEF RecoveryAnswer, ChainInv, ChainTypes, gatewayVars, workerVars
<1> HIDE DEF m, a, b
<1>8. CASE call[r].st = "error"
  <2>1. job'[r] = a
    BY <1>3, <1>8
  <2> QED
    BY <1>5, <1>7, <1>8, <2>1
<1>9. CASE call[r].st = "ok"
  <2>1. job'[r] = m \/ job'[r] = b
    BY <1>2, <1>3, <1>9
  <2> QED
    BY <1>4, <1>6, <1>7, <2>1
<1> QED
  BY <1>1, <1>8, <1>9

LEMMA RecoveryAnswerBlame ==
  ASSUME ChainInv, BlameInv, OneRequest, NEW r \in Request, RecoveryAnswer(r)
  PROVE  BlameInv'
<1>1. /\ call'[r] = NoCall /\ UNCHANGED <<crashed, dead, plan, next_hop>>
      /\ \/ job'[r].pc = "evict" /\ job'[r].then # "replay"
         \/ job'[r].pc = "step"
         \/ /\ job'[r].pc = job[r].pc /\ job'[r].dev = job[r].dev
            /\ job'[r].stage = job[r].stage
  BY RecoveryAnswerJob
<1>2. call[r].st # "idle" /\ job[r].pc \in {"replay", "rebuild"}
  BY DEF RecoveryAnswer
<1>3. BlameFits(call[r])'
  BY <1>1, NoCallBlame DEF BlameFits, Serves, Suspect
<1>4. RecoveryFits(job[r], call[r])'
  BY <1>1, <1>2 DEF RecoveryFits, BlameInv, Serves, Fed
<1> QED
  BY <1>1, <1>3, <1>4 DEF BlameInv, OneRequest, Serves, Suspect

\* A step of the call alone.
LEMMA CallStep ==
  ASSUME BlameInv, OneRequest, NEW r \in Request, BlameFits(call'[r]),
         call[r].st # "idle", UNCHANGED <<crashed, dead, plan, next_hop, job>>
  PROVE  BlameInv'
<1>1. BlameFits(call[r])' /\ RecoveryFits(job[r], call[r])'
  BY DEF BlameFits, RecoveryFits, BlameInv, Serves, Suspect
<1> QED
  BY <1>1 DEF BlameInv, OneRequest, Serves, Suspect

LEMMA RunStageBlame ==
  ASSUME ChainInv, BlameInv, OneRequest, NEW r \in Request, RunStage(r) PROVE BlameInv'
<1> DEFINE f == Last(call[r].frames)
           g == call'[r].frames[Top(r)]
<1>1. UNCHANGED <<crashed, dead, plan, next_hop, job>> /\ Running(r)
  BY DEF RunStage, gatewayVars
<1>2. /\ call'[r].st = "running" /\ call'[r].head = call[r].head
      /\ DOMAIN call'[r].frames = 1..Top(r)
      /\ \A i \in 1..Top(r) : i # Top(r) => call'[r].frames[i] = call[r].frames[i]
      /\ g.dev = f.dev /\ g.stage = f.stage /\ g.open = f.open
      /\ g.hop = HopOf(f.dev, f.stage, call[r].live)
      /\ g.st = IF g.hop = NoDevice THEN "done" ELSE "ran"
  BY RunStageCall
<1>3. /\ f = call[r].frames[Top(r)] /\ f \in FrameType /\ DOMAIN call[r].frames = 1..Top(r)
      /\ Top(r) \in 1..Top(r) /\ Top(r) \in Nat /\ 1 \in 1..Top(r)
  BY <1>1, LastFrame
<1>4. g.st = "ran" => Serves(g.hop, g.stage + 1)
  BY <1>2, <1>3 DEF HopOf, BlameInv, FrameType
<1>5. \A i \in 1..Top(r) :
        LET h == call[r].frames[i]
        IN h.open /\ Serves(h.dev, h.stage) /\ (h.st = "ran" => Serves(h.hop, h.stage + 1))
  BY <1>3 DEF BlameInv, BlameFits
<1>6. call[r].head = call[r].frames[1].dev
  BY <1>1 DEF Running, BlameInv, BlameFits
<1> HIDE DEF f
<1>7. g.open /\ Serves(g.dev, g.stage)
  BY <1>2, <1>3, <1>5
<1>8. call'[r].head = call'[r].frames[1].dev
  BY <1>2, <1>3, <1>6
<1> HIDE DEF g
<1>9. BlameFits(call'[r])
  BY <1>2, <1>3, <1>4, <1>5, <1>7, <1>8 DEF BlameFits, g
<1> QED
  BY <1>1, <1>9, CallStep DEF Running

LEMMA ForwardBlame ==
  ASSUME ChainInv, BlameInv, OneRequest, NEW r \in Request, Forward(r) PROVE BlameInv'
<1> DEFINE f == Last(call[r].frames)
           g == call'[r].frames[Top(r)]
           n == call'[r].frames[Top(r) + 1]
<1>1. UNCHANGED <<crashed, dead, plan, next_hop, job>> /\ Running(r) /\ f.st = "ran"
  BY DEF Forward, gatewayVars, workerVars
<1>2. /\ call'[r].st = "running" /\ call'[r].head = call[r].head
      /\ DOMAIN call'[r].frames = 1..(Top(r) + 1)
      /\ \A i \in 1..Top(r) : i # Top(r) => call'[r].frames[i] = call[r].frames[i]
      /\ g.dev = f.dev /\ g.stage = f.stage /\ g.open = f.open /\ g.st = "waiting"
      /\ n = Frame(f.hop, f.stage + 1)
  BY ForwardCall
<1>3. /\ f = call[r].frames[Top(r)] /\ f \in FrameType /\ DOMAIN call[r].frames = 1..Top(r)
      /\ Top(r) \in 1..Top(r) /\ Top(r) \in Nat /\ 1 \in 1..Top(r)
  BY <1>1, LastFrame
<1>5. \A i \in 1..Top(r) :
        LET h == call[r].frames[i]
        IN h.open /\ Serves(h.dev, h.stage) /\ (h.st = "ran" => Serves(h.hop, h.stage + 1))
  BY <1>3 DEF BlameInv, BlameFits
<1>4. n.open /\ Serves(n.dev, n.stage) /\ n.st = "arriving"
  BY <1>1, <1>2, <1>3, <1>5 DEF Frame
<1>6. call[r].head = call[r].frames[1].dev
  BY <1>1 DEF Running, BlameInv, BlameFits
<1> HIDE DEF f
<1>7. g.open /\ Serves(g.dev, g.stage)
  BY <1>2, <1>3, <1>5
<1>8. call'[r].head = call'[r].frames[1].dev
  BY <1>2, <1>3, <1>6
<1> HIDE DEF g, n
<1>9. ASSUME NEW i \in 1..(Top(r) + 1)
      PROVE  LET h == call'[r].frames[i]
             IN h.open /\ Serves(h.dev, h.stage) /\ (h.st = "ran" => Serves(h.hop, h.stage + 1))
  <2>1. CASE i = Top(r) + 1
    BY <1>4, <2>1 DEF n
  <2>2. CASE i = Top(r)
    BY <1>2, <1>7, <2>2 DEF g
  <2>3. CASE i # Top(r) /\ i # Top(r) + 1
    <3>1. i \in 1..Top(r)
      BY <1>3, <2>3
    <3> QED
      BY <1>2, <1>5, <2>3, <3>1
  <2> QED
    BY <2>1, <2>2, <2>3
<1>10. BlameFits(call'[r])
  BY <1>2, <1>8, <1>9 DEF BlameFits
<1> QED
  BY <1>1, <1>10, CallStep DEF Running

LEMMA ReturnBlame ==
  ASSUME ChainInv, BlameInv, OneRequest, NEW r \in Request, Return(r) PROVE BlameInv'
<1>1. UNCHANGED <<crashed, dead, plan, next_hop, job>> /\ Running(r)
  BY DEF Return, gatewayVars, workerVars
<1>2. call'[r].st = "ok" /\ call'[r].frames = << >>
  BY DEF Return, ChainInv, ChainTypes, CallType
<1>3. BlameFits(call'[r])
  BY <1>2 DEF BlameFits
<1> QED
  BY <1>1, <1>3, CallStep DEF Running

\* While nobody else rewires the chain, only a crash breaks a call: the blamed
\* stage's device of the placement has crashed, or was declared dead before.
LEMMA CallFailsBlame ==
  ASSUME ChainInv, BlameInv, OneRequest, NEW r \in Request, CallFails(r) PROVE BlameInv'
<1> DEFINE i == Min(Broken(r))
           f == call[r].frames[i]
<1>1. UNCHANGED <<crashed, dead, plan, next_hop, job>> /\ Running(r) /\ Broken(r) # {}
  BY DEF CallFails, gatewayVars
<1>2. i \in Broken(r) /\ i \in DOMAIN call[r].frames
  BY <1>1, FirstBroken
<1>3. f.open /\ Serves(f.dev, f.stage) /\ f \in FrameType
  BY <1>1, <1>2, LastFrame DEF BlameInv, BlameFits
<1>4. f.dev \in crashed
  BY <1>2, <1>3 DEF Broken
<1>5. /\ call'[r].st = "error" /\ call'[r].frames = << >> /\ call'[r].head = call[r].head
      /\ call'[r].blame = IF i = 1 THEN 0 ELSE f.stage
  BY <1>4, CallFailsCall
<1>6. f.stage # 0 /\ (i = 1 => call[r].head = f.dev)
  BY <1>1, <1>3, Shape DEF FrameType, Stage, Running, BlameInv, BlameFits
<1>7. Suspect(f.dev) /\ Suspect(Placement[f.stage])
  BY <1>3, <1>4 DEF Suspect, Serves, BlameInv
<1> HIDE DEF i, f
<1>8. BlameFits(call'[r])
  BY <1>5, <1>6, <1>7 DEF BlameFits
<1> QED
  BY <1>1, <1>8, CallStep DEF Running

LEMMA NextBlame == ChainInv /\ BlameInv /\ OneRequest /\ [Next]_vars => BlameInv'
<1> SUFFICES ASSUME ChainInv, BlameInv, OneRequest, [Next]_vars PROVE BlameInv'
  OBVIOUS
<1>1. ASSUME NEW r \in Request, Gateway(r) PROVE BlameInv'
  <2>1. CASE Replay(r)
    BY <2>1, ReplayInvokes, RecoveryCallBlame DEF Replay, Fed
  <2>2. CASE Rebuild(r)
    BY <2>2, RebuildInvokes, RecoveryCallBlame DEF Rebuild, Fed
  <2> QED
    BY <1>1, <2>1, <2>2, StepBlame, StepDoneBlame, StepFailedBlame, PromoteBlame, RewireBlame,
       EvictBlame, RecoveryAnswerBlame DEF Gateway
<1>2. ASSUME NEW r \in Request, Chain(r) PROVE BlameInv'
  BY <1>2, RunStageBlame, ForwardBlame, ReturnBlame, CallFailsBlame DEF Chain
<1>3. CASE UNCHANGED <<dead, crashed, plan, next_hop, call, job>>
  BY <1>3 DEF BlameInv, BlameFits, RecoveryFits, Serves, Suspect
<1>4. CASE Orphan
  BY <1>3, <1>4 DEF Orphan, OrphanRuns, OrphanForwards, OrphanVanishes, gatewayVars
<1>5. ASSUME NEW m \in mirrors, DeliverMirror(m) PROVE BlameInv'
  BY <1>3, <1>5 DEF DeliverMirror
<1>6. CASE Finished \/ UNCHANGED vars
  BY <1>3, <1>6 DEF Finished, vars
<1>7. ASSUME NEW d \in Device, Crash(d) PROVE BlameInv'
  <2>1. /\ UNCHANGED <<dead, plan, next_hop, call, job>>
        /\ crashed \subseteq crashed'
    BY <1>7 DEF Crash, gatewayVars, workerVars
  <2> QED
    BY <2>1 DEF BlameInv, BlameFits, RecoveryFits, Serves, Suspect
<1>8. ASSUME NEW d \in Device, MarkedFromOutside(d) PROVE BlameInv'
  <2>1. /\ UNCHANGED <<crashed, next_hop, call, job>> /\ MarkDead(d) /\ Suspect(d)
    BY <1>8 DEF MarkedFromOutside, workerVars, Suspect
  <2>2. dead' = dead \cup {d} /\ \A s \in Stage : Serves(plan[s], s)'
    BY <2>1, MarkServes
  <2>3. ASSUME NEW r \in Request PROVE BlameFits(call[r])' /\ RecoveryFits(job[r], call[r])'
    BY <2>1, <2>2 DEF BlameInv, BlameFits, RecoveryFits, Serves, Suspect
  <2> QED
    BY <2>1, <2>2, <2>3 DEF BlameInv, Serves, Suspect
<1> QED
  BY <1>1, <1>2, <1>4, <1>5, <1>6, <1>7, <1>8 DEF Next

LEMMA BlameHolds == OneRequest => (Spec => [](ChainInv /\ BlameInv))
<1> SUFFICES ASSUME OneRequest PROVE Spec => [](ChainInv /\ BlameInv)
  OBVIOUS
<1>1. Init => ChainInv /\ BlameInv
  BY InitType, InitBlame
<1>2. ChainInv /\ BlameInv /\ [Next]_vars => ChainInv' /\ BlameInv'
  BY NextType, NextBlame
<1> QED
  BY <1>1, <1>2, PTL DEF Spec

\* A recovery never declares a healthy worker dead: _attribute_chain_failure,
\* the trailers the workers relay and heartbeats that only report crashes name a
\* device that crashed, whatever the placement, the number of crashes, and the
\* recoveries already under way.  The gateway serves one request at a time and
\* nobody injects a failure: another thread's SetNextHop closes channels under a
\* call and gets its live caller blamed.
THEOREM TheBlamedHaveCrashed ==
  ASSUME OneRequest, Markable = {}
  PROVE  Spec => []OnlyCrashedAreDead
<1>1. ChainInv /\ BlameInv => OnlyCrashedAreDead
  BY DEF BlameInv, Suspect, OnlyCrashedAreDead
<1> QED
  BY <1>1, BlameHolds, PTL

-----------------------------------------------------------------------------
(***************************************************************************)
(* One crash.  R covers every device with another one, a single worker may *)
(* crash at any point, and heartbeats may report it before the chain does. *)
(* Then a recovery finds the backup alive, rewires along a plan that has   *)
(* no crashed worker left in it, and its own calls cannot fail.            *)
(***************************************************************************)
OneFault ==
  /\ OneRequest /\ Markable = {} /\ MaxCrashes <= 1
  /\ \A d \in Device : Recovery[d] \in Device \ {d}

Succ(p, s) == IF s < N THEN p[s + 1] ELSE NoDevice

\* The workers that the plan's stages up to n are on, and that are there,
\* forward along it.
WiredTo(n) ==
  \A s \in Stage : s <= n => plan[s] \in crashed \/ next_hop[plan[s]][s] = Succ(plan, s)

\* Past the rewiring.
Replaying(j) ==
  j.pc \in {"replay", "rebuild"} \/ (j.pc = "evict" /\ j.then = "replay")

FollowsPlan(c) ==
  c.st = "running" =>
    /\ c.plan = plan
    /\ \A i \in DOMAIN c.frames :
         LET f == c.frames[i]
         IN /\ f.dev = plan[f.stage]
            /\ f.st = "ran" => f.hop = plan[f.stage + 1]

\* The thread is not giving up.
Going(j) == j.pc # "failed" /\ (j.pc = "evict" => j.then # "failed")

FaultFits(j, c) ==
  /\ Going(j)
  /\ Recovering(j) => dead = crashed /\ crashed # {}
  /\ j.pc = "promote" => j.dev \in crashed
  /\ j.pc = "rewire" => j.rplan = plan /\ WiredTo(j.k - 1)
  /\ j.pc \in {"replay", "rebuild"} => c.st # "error"
  /\ j.pc \in {"replay", "rebuild"} /\ (j.k > 0 \/ c.st # "idle")
       => j.dev = plan[Fed(j)]
  /\ Replaying(j) => WiredTo(N) /\ FollowsPlan(c)

\* Without heartbeats only the chain changes the plan, and rewires at once.
ChainFits(j, c) ==
  /\ j.pc \notin {"promote", "rewire"} => WiredTo(N)
  /\ FollowsPlan(c)
  /\ c.st = "error" => dead = {}

FaultInv ==
  /\ \A d, e \in crashed : d = e
  /\ dead \subseteq crashed
  /\ plan = build_execution_plan(Placement, Recovery, dead)
  /\ \A r \in Request : /\ FaultFits(job[r], call[r])
                        /\ ~Heartbeats => ChainFits(job[r], call[r])

\* What the steps of the proof may use.
SoFar == ChainInv /\ BlameInv /\ FaultInv /\ OneFault

\* One device down never makes a plan infeasible: its backup is another one.
LEMMA AlwaysViable ==
  ASSUME OneFault, NEW D, D \subseteq Device, \A d, e \in D : d = e
  PROVE  Viable(Placement, Recovery, D)
<1> SUFFICES ASSUME NEW i \in DOMAIN Placement, Placement[i] \in D
             PROVE  Recovery[Placement[i]] # NoDevice /\ Recovery[Placement[i]] \notin D
  BY DEF Viable
<1>1. Placement[i] \in Device /\ Recovery[Placement[i]] \in Device \ {Placement[i]}
  BY DEF OneFault
<1> QED
  BY <1>1, Shape

\* Once the crash has been marked the plan is without it.
LEMMA PlanIsAlive ==
  ASSUME ChainInv, FaultInv, OneFault, dead = crashed, NEW s \in Stage
  PROVE  plan[s] \notin crashed
<1>1. Viable(Placement, Recovery, dead)
  BY AlwaysViable DEF ChainInv, ChainTypes, FaultInv
<1>2. s \in DOMAIN Placement
  BY Shape
<1> QED
  BY <1>1, <1>2, ViablePlanAvoidsDead DEF FaultInv

LEMMA SingleMark ==
  ASSUME ChainInv, FaultInv, OneFault, NEW d \in crashed, MarkDead(d)
  PROVE  /\ dead' = crashed /\ crashed = {d}
         /\ plan' = build_execution_plan(Placement, Recovery, dead')
<1>1. crashed = {d} /\ dead' = {d}
  BY DEF FaultInv, MarkDead
<1>2. Viable(Placement, Recovery, dead')
  BY <1>1, AlwaysViable DEF ChainInv, ChainTypes
<1> QED
  BY <1>1, <1>2 DEF MarkDead

\* Only one worker crashes.
LEMMA FirstCrash ==
  ASSUME ChainInv, FaultInv, OneFault, NEW d \in Device, Crash(d)
  PROVE  crashed = {}
<1>1. Cardinality(crashed) < MaxCrashes /\ MaxCrashes <= 1 /\ MaxCrashes \in Nat
  BY ChainAssumption DEF Crash, OneFault
<1>2. ASSUME NEW e \in crashed PROVE FALSE
  <2>1. crashed = {e}
    BY DEF FaultInv
  <2>2. Cardinality(crashed) = 1
    BY <2>1, FS_Singleton
  <2> QED
    BY <1>1, <2>2
<1> QED
  BY <1>2

LEMMA InitFault == Init /\ OneFault => FaultInv
<1> SUFFICES ASSUME Init, OneFault PROVE FaultInv
  OBVIOUS
<1>1. plan = Placement
  <2>1. DOMAIN Placement = Stage /\ plan = [i \in DOMAIN Placement |-> Placement[i]]
    BY Shape DEF Init, build_execution_plan, Serving
  <2> QED
    BY <2>1, Shape
<1>2. WiredTo(N)
  <2> SUFFICES ASSUME NEW s \in Stage PROVE next_hop[plan[s]][s] = Succ(plan, s)
    BY DEF WiredTo
  <2>1. Placement[s] \in Device
    BY Shape
  <2> QED
    BY <1>1, <2>1 DEF Init, Succ
<1>3. ASSUME NEW r \in Request
      PROVE  /\ FaultFits(job[r], call[r]) /\ ChainFits(job[r], call[r])
  BY <1>2 DEF Init, FaultFits, ChainFits, NoCall, Going, Recovering, Replaying, FollowsPlan
<1> QED
  BY <1>3 DEF FaultInv, Init

\* A step of the one request that marks nobody.
LEMMA FaultStep ==
  ASSUME FaultInv, OneFault, NEW r \in Request, UNCHANGED <<crashed, dead, plan>>,
         FaultFits(job[r], call[r])', ~Heartbeats => ChainFits(job[r], call[r])'
  PROVE  FaultInv'
  BY DEF FaultInv, OneFault, OneRequest

LEMMA StepFault == ASSUME SoFar, NEW r \in Request, Step(r) PROVE FaultInv'
<1>1. InvokedAt(r, plan[1], 1)
  BY StepInvokes DEF SoFar
<1>2. job'[r].pc = "wait" /\ job[r].pc = "step"
  BY DEF Step, SoFar, ChainInv, ChainTypes, JobType
<1>3. UNCHANGED <<crashed, dead, plan, next_hop>>
  BY DEF Step, workerVars
<1>4. FollowsPlan(call[r])'
  BY <1>1, <1>3 DEF FollowsPlan, InvokedAt, Frame
<1>5. FaultFits(job[r], call[r])'
  BY <1>2 DEF FaultFits, Going, Recovering, Replaying
<1>6. ~Heartbeats => ChainFits(job[r], call[r])'
  BY <1>1, <1>2, <1>3, <1>4 DEF ChainFits, InvokedAt, WiredTo, SoFar, FaultInv
<1> QED
  BY <1>3, <1>5, <1>6, FaultStep DEF SoFar

LEMMA StepDoneFault == ASSUME SoFar, NEW r \in Request, StepDone(r) PROVE FaultInv'
<1>1. job'[r] = Emit(job[r], call[r].good) /\ call'[r] = NoCall /\ job[r].pc = "wait"
  BY DEF StepDone, SoFar, ChainInv, ChainTypes
<1>2. UNCHANGED <<crashed, dead, plan, next_hop>>
  BY DEF StepDone, workerVars, gatewayVars
<1>3. job'[r].pc = "step" \/ (job'[r].pc = "evict" /\ job'[r].then = "done")
  BY <1>1, EmitThen DEF SoFar, ChainInv, ChainTypes, CallType
<1>4. FaultFits(job[r], call[r])'
  BY <1>3 DEF FaultFits, Going, Recovering, Replaying
<1>5. ~Heartbeats => ChainFits(job[r], call[r])'
  BY <1>1, <1>2, <1>3 DEF ChainFits, NoCall, FollowsPlan, WiredTo, SoFar, FaultInv
<1> QED
  BY <1>2, <1>4, <1>5, FaultStep DEF SoFar

\* A failed step marks the worker that crashed and goes on to its backup.
LEMMA StepFailedJob ==
  ASSUME SoFar, NEW r \in Request, StepFailed(r)
  PROVE  LET d == DeadDevice(r)
         IN /\ d \in crashed /\ crashed' = crashed /\ UNCHANGED <<next_hop, orphans>>
            /\ dead' = crashed /\ plan' = build_execution_plan(Placement, Recovery, dead')
            /\ job'[r] = [job[r] EXCEPT !.pc = "promote", !.stage = DeadStage(r), !.dev = d]
            /\ call'[r] = NoCall
<1> DEFINE d == DeadDevice(r)
           p == [job[r] EXCEPT !.pc = "promote", !.stage = DeadStage(r), !.dev = d]
<1>1. d \in crashed
  BY BlamedIsSuspect DEF StepFailed, SoFar, Suspect, OneFault
<1>2. crashed' = crashed /\ UNCHANGED <<next_hop, orphans>>
  BY DEF StepFailed, workerVars
<1>3. dead' = crashed /\ plan' = build_execution_plan(Placement, Recovery, dead')
  <2>1. CASE d \in dead
    <3>1. dead' = dead /\ plan' = plan
      BY <2>1 DEF StepFailed
    <3> QED
      BY <1>1, <2>1, <3>1 DEF SoFar, FaultInv
  <2>2. CASE d \notin dead
    <3>1. MarkDead(d)
      BY <2>2 DEF StepFailed
    <3> QED
      BY <1>1, <3>1, SingleMark DEF SoFar
  <2> QED
    BY <2>1, <2>2
<1>4. d \notin dead => Viable(Placement, Recovery, dead \cup {d})
  <2>1. \A e \in dead \cup {d} : e \in crashed
    BY <1>1 DEF SoFar, FaultInv
  <2> HIDE DEF d
  <2> QED
    BY <2>1, AlwaysViable DEF SoFar, FaultInv, ChainInv, ChainTypes
<1>5. job'[r] = p /\ call'[r] = NoCall
  BY <1>4 DEF StepFailed, SoFar, ChainInv, ChainTypes
<1> QED
  BY <1>1, <1>2, <1>3, <1>5

LEMMA StepFailedFault == ASSUME SoFar, NEW r \in Request, StepFailed(r) PROVE FaultInv'
<1> DEFINE d == DeadDevice(r)
<1>1. /\ d \in crashed /\ crashed' = crashed /\ dead' = crashed
      /\ plan' = build_execution_plan(Placement, Recovery, dead')
      /\ call'[r] = NoCall
      /\ job'[r] = [job[r] EXCEPT !.pc = "promote", !.stage = DeadStage(r), !.dev = d]
  BY StepFailedJob
<1> HIDE DEF d
<1>2. job'[r].pc = "promote" /\ job'[r].dev = d
  BY <1>1 DEF SoFar, ChainInv, ChainTypes, JobType
<1>3. FaultFits(job[r], call[r])' /\ ChainFits(job[r], call[r])'
  BY <1>1, <1>2 DEF FaultFits, ChainFits, Going, Recovering, Replaying, NoCall, FollowsPlan
<1> QED
  BY <1>1, <1>3 DEF SoFar, FaultInv, OneFault, OneRequest

\* The backup is there, so the chain is rewired along the plan.
LEMMA PromoteJob ==
  ASSUME SoFar, NEW r \in Request, Promote(r)
  PROVE  /\ UNCHANGED <<crashed, dead, plan, next_hop, orphans, call>> /\ job[r].pc = "promote"
         /\ job'[r] = [job[r] EXCEPT !.pc = "rewire", !.k = 1, !.rplan = plan]
         /\ job'[r].pc = "rewire" /\ job'[r].rplan = plan /\ job'[r].k = 1
<1> DEFINE k == Recovery[job[r].dev]
           w == [job[r] EXCEPT !.pc = "rewire", !.k = 1, !.rplan = plan]
<1>1. UNCHANGED <<crashed, dead, plan, next_hop, orphans, call>> /\ job[r].pc = "promote"
  BY DEF Promote, workerVars, gatewayVars
<1>2. job[r].dev \in crashed /\ crashed \subseteq Device
  BY <1>1 DEF SoFar, FaultInv, FaultFits, ChainInv, ChainTypes
<1>3. k # NoDevice /\ k \notin crashed
  BY <1>2, Shape DEF SoFar, OneFault, FaultInv
<1>4. job'[r] = w
  BY <1>3 DEF Promote, SoFar, ChainInv, ChainTypes
<1>5. job'[r].pc = "rewire" /\ job'[r].rplan = plan /\ job'[r].k = 1
  BY <1>4 DEF SoFar, ChainInv, ChainTypes, JobType
<1> QED
  BY <1>1, <1>4, <1>5

LEMMA PromoteFault == ASSUME SoFar, NEW r \in Request, Promote(r) PROVE FaultInv'
<1>1. /\ UNCHANGED <<crashed, dead, plan, next_hop, call>> /\ job[r].pc = "promote"
      /\ job'[r].pc = "rewire" /\ job'[r].rplan = plan /\ job'[r].k = 1
  BY PromoteJob
<1>2. \A s \in Stage : ~(s <= 1 - 1)
  BY Shape DEF Stage
<1>3. FaultFits(job[r], call[r])'
  BY <1>1, <1>2 DEF FaultFits, Going, Recovering, Replaying, WiredTo, SoFar, FaultInv
<1>4. ~Heartbeats => ChainFits(job[r], call[r])'
  BY <1>1 DEF ChainFits, FollowsPlan, SoFar, FaultInv
<1> QED
  BY <1>1, <1>3, <1>4, FaultStep DEF SoFar

LEMMA RewireFault == ASSUME SoFar, NEW r \in Request, Rewire(r) PROVE FaultInv'
<1>1. UNCHANGED <<crashed, dead, plan>> /\ job[r].pc = "rewire"
  BY DEF Rewire, gatewayVars
<1>2. job[r].rplan = plan /\ WiredTo(job[r].k - 1) /\ dead = crashed /\ crashed # {}
  BY <1>1 DEF SoFar, FaultInv, FaultFits, Recovering
<1>3. PICK s \in Stage : s = job[r].k
  BY RewireStep DEF SoFar
<1>4. /\ s \in Nat /\ plan \in [Stage -> Device]
      /\ next_hop' = IF plan[s] \in crashed THEN next_hop
                     ELSE [next_hop EXCEPT ![plan[s]][s] = Succ(plan, s)]
      /\ \/ s < N /\ job'[r].pc = "rewire" /\ job'[r].k = s + 1 /\ job'[r].rplan = plan
         \/ s = N /\ job'[r] = AfterRewire(r)
  BY <1>2, <1>3, RewireStep DEF SoFar, Succ
<1>5. WiredTo(s)'
  <2>1. ASSUME NEW t \in Stage, t <= s PROVE next_hop'[plan[t]][t] = Succ(plan, t)
    <3>1. plan[t] \notin crashed /\ plan[s] \notin crashed
      BY <1>2, PlanIsAlive DEF SoFar
    <3>2. t # s => t <= s - 1
      BY <1>4, <2>1, Shape DEF Stage
    <3> QED
      BY <1>2, <1>3, <1>4, <3>1, <3>2 DEF WiredTo, SoFar, ChainInv, ChainTypes
  <2> QED
    BY <1>1, <2>1 DEF WiredTo, Succ
<1>6. call'[r].st = "idle"
  BY IdleRewired DEF SoFar
<1>7. FollowsPlan(call[r])'
  BY <1>6 DEF FollowsPlan
<1>8. FaultFits(job[r], call[r])' /\ ChainFits(job[r], call[r])'
  <2>1. CASE s < N /\ job'[r].pc = "rewire" /\ job'[r].k = s + 1 /\ job'[r].rplan = plan
    <3>1. job'[r].k - 1 = s
      BY <1>4, <2>1
    <3>2. WiredTo(job[r].k - 1)'
      BY <1>5, <3>1 DEF WiredTo, Succ
    <3> QED
      BY <1>1, <1>2, <1>6, <1>7, <2>1, <3>2
         DEF FaultFits, ChainFits, Going, Recovering, Replaying
  <2>2. CASE s = N /\ job'[r] = AfterRewire(r)
    <3>1. /\ job'[r].pc = "rebuild" \/ (job'[r].pc = "evict" /\ job'[r].then = "replay")
          /\ job'[r].k = 0 /\ ~(0 > 0)
      BY <2>2, AfterRewireJob DEF SoFar
    <3>2. WiredTo(N)'
      BY <1>5, <2>2
    <3> QED
      BY <1>1, <1>2, <1>6, <1>7, <3>1, <3>2
         DEF FaultFits, ChainFits, Going, Recovering, Replaying
  <2> QED
    BY <1>4, <2>1, <2>2
<1> QED
  BY <1>1, <1>8, FaultStep DEF SoFar

LEMMA EvictFault == ASSUME SoFar, NEW r \in Request, Evict(r) PROVE FaultInv'
<1>1. UNCHANGED <<crashed, dead, plan, next_hop, call>> /\ job[r].pc = "evict"
  BY DEF Evict
<1>2. call[r].st = "idle"
  BY IdleCall DEF Evict, SoFar
<1>3. PICK d \in job[r].todo :
        /\ job'[r].pc = IF job[r].todo = {d} THEN job[r].then ELSE "evict"
        /\ job'[r].then = job[r].then /\ job'[r].k = job[r].k
        /\ job[r].then \in {"step", "done", "failed", "replay"}
  BY EvictJob DEF SoFar
<1>4. job[r].then # "failed" /\ (job[r].then = "replay" => job[r].k = 0) /\ ~(0 > 0)
  BY <1>1 DEF SoFar, FaultInv, FaultFits, Going, BlameInv, RecoveryFits
<1>5. job[r].then = "replay" => dead = crashed /\ crashed # {} /\ WiredTo(N)
  BY <1>1 DEF SoFar, FaultInv, FaultFits, Recovering, Replaying
<1>6. FaultFits(job[r], call[r])'
  BY <1>1, <1>2, <1>3, <1>4, <1>5
     DEF FaultFits, Going, Recovering, Replaying, FollowsPlan, WiredTo
<1>7. ~Heartbeats => ChainFits(job[r], call[r])'
  BY <1>1, <1>2, <1>3 DEF ChainFits, FollowsPlan, WiredTo, SoFar, FaultInv
<1> QED
  BY <1>1, <1>6, <1>7, FaultStep DEF SoFar

\* A recovery's call goes to the worker the plan names.
LEMMA RecoveryCallFault ==
  ASSUME SoFar, NEW r \in Request,
         job[r].pc \in {"replay", "rebuild"}, RecoveryInvokes(r, Fed(job[r]))
  PROVE  FaultInv'
<1>1. /\ Fed(job[r]) \in Stage /\ Fed(job'[r]) = Fed(job[r])
      /\ job'[r].pc = job[r].pc /\ job'[r].k = job[r].k
      /\ UNCHANGED <<crashed, dead, plan, next_hop>>
  BY DEF RecoveryInvokes, Fed
<1>2. job[r].k \in Nat
  BY Shape DEF SoFar, ChainInv, ChainTypes, JobType
<1>3. dead = crashed /\ crashed # {} /\ WiredTo(N)
  BY DEF SoFar, FaultInv, FaultFits, Recovering, Replaying
<1>4. job'[r].dev = plan[Fed(job[r])] /\ InvokedAt(r, plan[Fed(job[r])], Fed(job[r]))
  BY <1>2 DEF SoFar, FaultInv, FaultFits, RecoveryInvokes
<1>5. FollowsPlan(call[r])'
  BY <1>1, <1>4 DEF FollowsPlan, InvokedAt, Frame
<1>6. FaultFits(job[r], call[r])'
  BY <1>1, <1>3, <1>4, <1>5
     DEF FaultFits, Going, Recovering, Replaying, InvokedAt, WiredTo, Fed
<1>7. ~Heartbeats => ChainFits(job[r], call[r])'
  BY <1>1, <1>3, <1>4, <1>5 DEF ChainFits, InvokedAt, WiredTo
<1> QED
  BY <1>1, <1>6, <1>7, FaultStep DEF SoFar

LEMMA RecoveryAnswerFault ==
  ASSUME SoFar, NEW r \in Request, RecoveryAnswer(r) PROVE FaultInv'
<1>1. job[r].pc \in {"replay", "rebuild"} /\ call[r].st \in {"ok", "error"}
  BY DEF RecoveryAnswer
<1>2. call[r].st # "error" /\ dead = crashed /\ crashed # {} /\ WiredTo(N)
      /\ job[r].dev = plan[Fed(job[r])]
  BY <1>1 DEF SoFar, FaultInv, FaultFits, Recovering, Replaying
<1>3. /\ call'[r] = NoCall /\ UNCHANGED <<crashed, dead, plan, next_hop>>
      /\ \/ job'[r].pc = "step" \/ (job'[r].pc = "evict" /\ job'[r].then = "done")
         \/ /\ job'[r].pc = job[r].pc /\ job'[r].dev = job[r].dev
            /\ job'[r].stage = job[r].stage
  BY <1>2, RecoveryAnswerJob DEF SoFar
<1>4. FaultFits(job[r], call[r])'
  BY <1>1, <1>2, <1>3
     DEF FaultFits, Going, Recovering, Replaying, FollowsPlan, NoCall, WiredTo, Fed
<1>5. ~Heartbeats => ChainFits(job[r], call[r])'
  BY <1>1, <1>2, <1>3 DEF ChainFits, NoCall, FollowsPlan, WiredTo
<1> QED
  BY <1>3, <1>4, <1>5, FaultStep DEF SoFar

\* A step of the call alone, which it leaves running along the plan.
LEMMA CallFault ==
  ASSUME SoFar, NEW r \in Request, UNCHANGED <<crashed, dead, plan, next_hop, job>>,
         call[r].st # "idle", call'[r].st \in {"running", "ok"},
         WiredTo(N) /\ FollowsPlan(call[r]) => FollowsPlan(call[r])'
  PROVE  FaultInv'
<1>1. job[r].pc \in {"wait", "replay", "rebuild"}
  BY DEF SoFar, ChainInv, CallFits
<1>2. FaultFits(job[r], call[r])'
  BY <1>1 DEF SoFar, FaultInv, FaultFits, Going, Recovering, Replaying, WiredTo, Fed, Succ
<1>3. ~Heartbeats => ChainFits(job[r], call[r])'
  BY <1>1 DEF SoFar, FaultInv, ChainFits, WiredTo, Succ
<1> QED
  BY <1>2, <1>3, FaultStep DEF SoFar

LEMMA RunStageFault == ASSUME SoFar, NEW r \in Request, RunStage(r) PROVE FaultInv'
<1> DEFINE f == Last(call[r].frames)
           g == call'[r].frames[Top(r)]
<1>1. UNCHANGED <<crashed, dead, plan, next_hop, job>> /\ Running(r) /\ f.dev \notin crashed
  BY DEF RunStage, gatewayVars
<1>2. /\ call'[r].st = "running" /\ call'[r].plan = call[r].plan
      /\ DOMAIN call'[r].frames = 1..Top(r)
      /\ \A i \in 1..Top(r) : i # Top(r) => call'[r].frames[i] = call[r].frames[i]
      /\ g.dev = f.dev /\ g.stage = f.stage
      /\ g.hop = HopOf(f.dev, f.stage, call[r].live)
      /\ g.st = IF g.hop = NoDevice THEN "done" ELSE "ran"
  BY RunStageCall DEF SoFar
<1>3. /\ f = call[r].frames[Top(r)] /\ f.stage \in Stage /\ DOMAIN call[r].frames = 1..Top(r)
  BY <1>1, LastFrame DEF SoFar, FrameType
<1>4. ASSUME WiredTo(N), FollowsPlan(call[r]) PROVE FollowsPlan(call[r])'
  <2>1. /\ call[r].plan = plan
        /\ \A i \in 1..Top(r) :
             LET h == call[r].frames[i]
             IN h.dev = plan[h.stage] /\ (h.st = "ran" => h.hop = plan[h.stage + 1])
    BY <1>1, <1>3, <1>4 DEF FollowsPlan, Running
  <2>2. Top(r) \in 1..Top(r)
    BY <1>1, LastFrame DEF SoFar
  <2>3. f.dev = plan[f.stage] /\ f.stage <= N
    BY <1>3, <2>1, <2>2, Shape DEF Stage
  <2>4. next_hop[f.dev][f.stage] = Succ(plan, f.stage)
    BY <1>1, <1>3, <1>4, <2>3 DEF WiredTo
  <2>5. g.st = "ran" => g.hop = plan[f.stage + 1]
    BY <1>2, <2>4 DEF HopOf, Succ
  <2> HIDE DEF f, g
  <2>6. ASSUME NEW i \in 1..Top(r)
        PROVE  LET h == call'[r].frames[i]
               IN h.dev = plan[h.stage] /\ (h.st = "ran" => h.hop = plan[h.stage + 1])
    <3>1. CASE i = Top(r)
      BY <1>2, <2>3, <2>5, <3>1 DEF g
    <3>2. CASE i # Top(r)
      BY <1>2, <2>1, <3>2
    <3> QED
      BY <3>1, <3>2
  <2> QED
    BY <1>1, <1>2, <2>1, <2>6 DEF FollowsPlan
<1> QED
  BY <1>1, <1>2, <1>4, CallFault DEF Running

LEMMA ForwardFault == ASSUME SoFar, NEW r \in Request, Forward(r) PROVE FaultInv'
<1> DEFINE f == Last(call[r].frames)
           g == call'[r].frames[Top(r)]
           n == call'[r].frames[Top(r) + 1]
<1>1. UNCHANGED <<crashed, dead, plan, next_hop, job>> /\ Running(r) /\ f.st = "ran"
  BY DEF Forward, gatewayVars, workerVars
<1>2. /\ call'[r].st = "running" /\ call'[r].plan = call[r].plan
      /\ DOMAIN call'[r].frames = 1..(Top(r) + 1)
      /\ \A i \in 1..Top(r) : i # Top(r) => call'[r].frames[i] = call[r].frames[i]
      /\ g.dev = f.dev /\ g.stage = f.stage /\ g.st = "waiting"
      /\ n = Frame(f.hop, f.stage + 1)
  BY ForwardCall DEF SoFar
<1>3. /\ f = call[r].frames[Top(r)] /\ DOMAIN call[r].frames = 1..Top(r)
      /\ Top(r) \in 1..Top(r) /\ Top(r) \in Nat
  BY <1>1, LastFrame DEF SoFar
<1>4. ASSUME FollowsPlan(call[r]) PROVE FollowsPlan(call[r])'
  <2>1. /\ call[r].plan = plan
        /\ \A i \in 1..Top(r) :
             LET h == call[r].frames[i]
             IN h.dev = plan[h.stage] /\ (h.st = "ran" => h.hop = plan[h.stage + 1])
    BY <1>1, <1>3, <1>4 DEF FollowsPlan, Running
  <2>2. n.dev = plan[n.stage] /\ n.st = "arriving"
    BY <1>1, <1>2, <1>3, <2>1 DEF Frame
  <2>3. g.dev = plan[g.stage]
    BY <1>2, <1>3, <2>1
  <2> HIDE DEF f, g, n
  <2>4. ASSUME NEW i \in 1..(Top(r) + 1)
        PROVE  LET h == call'[r].frames[i]
               IN h.dev = plan[h.stage] /\ (h.st = "ran" => h.hop = plan[h.stage + 1])
    <3>1. CASE i = Top(r) + 1
      BY <2>2, <3>1 DEF n
    <3>2. CASE i = Top(r)
      BY <1>2, <2>3, <3>2 DEF g
    <3>3. CASE i # Top(r) /\ i # Top(r) + 1
      <4>1. i \in 1..Top(r)
        BY <1>3, <3>3
      <4> QED
        BY <1>2, <2>1, <3>3, <4>1
    <3> QED
      BY <3>1, <3>2, <3>3
  <2> QED
    BY <1>1, <1>2, <2>1, <2>4 DEF FollowsPlan
<1> QED
  BY <1>1, <1>2, <1>4, CallFault DEF Running

LEMMA ReturnFault == ASSUME SoFar, NEW r \in Request, Return(r) PROVE FaultInv'
<1>1. UNCHANGED <<crashed, dead, plan, next_hop, job>> /\ Running(r)
  BY DEF Return, gatewayVars, workerVars
<1>2. call'[r].st = "ok"
  BY DEF Return, SoFar, ChainInv, ChainTypes, CallType
<1> QED
  BY <1>1, <1>2, CallFault DEF Running, FollowsPlan

\* A call along a plan made after the crash does not fail.
LEMMA CallFailsFault == ASSUME SoFar, NEW r \in Request, CallFails(r) PROVE FaultInv'
<1> DEFINE i == Min(Broken(r))
           f == call[r].frames[i]
<1>1. UNCHANGED <<crashed, dead, plan, next_hop, job>> /\ Running(r) /\ Broken(r) # {}
  BY DEF CallFails, gatewayVars
<1>2. i \in Broken(r) /\ i \in DOMAIN call[r].frames
  BY <1>1, FirstBroken DEF SoFar
<1>3. f.open /\ f.stage \in Stage
  BY <1>1, <1>2, LastFrame DEF SoFar, BlameInv, BlameFits, FrameType
<1>4. f.dev \in crashed
  BY <1>2, <1>3 DEF Broken
<1>5. call'[r].st = "error" /\ job[r].pc \in {"wait", "replay", "rebuild"}
  BY <1>1, CallFailsCall, LastFrame DEF SoFar
<1>6. FollowsPlan(call[r]) => dead # crashed
  <2> SUFFICES ASSUME FollowsPlan(call[r]), dead = crashed PROVE FALSE
    OBVIOUS
  <2>1. f.dev = plan[f.stage]
    BY <1>1, <1>2 DEF FollowsPlan, Running
  <2> QED
    BY <1>3, <1>4, <2>1, PlanIsAlive DEF SoFar
<1>7. job[r].pc = "wait"
  BY <1>5, <1>6 DEF SoFar, FaultInv, FaultFits, Recovering, Replaying
<1>8. FaultFits(job[r], call[r])'
  BY <1>1, <1>7 DEF FaultFits, Going, Recovering, Replaying
<1>9. ~Heartbeats => ChainFits(job[r], call[r])'
  <2> SUFFICES ASSUME ~Heartbeats PROVE ChainFits(job[r], call[r])'
    OBVIOUS
  <2>1. dead # crashed /\ WiredTo(N)
    BY <1>6, <1>7 DEF SoFar, FaultInv, ChainFits
  <2>2. dead = {}
    BY <1>4, <2>1 DEF SoFar, FaultInv
  <2> QED
    BY <1>1, <1>5, <2>1, <2>2 DEF ChainFits, FollowsPlan, WiredTo
<1> QED
  BY <1>1, <1>8, <1>9, FaultStep DEF SoFar

LEMMA CrashFault == ASSUME SoFar, NEW d \in Device, Crash(d) PROVE FaultInv'
<1>1. UNCHANGED <<dead, plan, next_hop, call, job>> /\ crashed' = crashed \cup {d}
  BY DEF Crash, gatewayVars, workerVars
<1>2. crashed = {}
  BY FirstCrash DEF SoFar
<1>3. ASSUME NEW r \in Request PROVE FaultFits(job[r], call[r])'
  BY <1>1, <1>2 DEF SoFar, FaultInv, FaultFits, Going, Recovering, Replaying
<1>4. ASSUME NEW r \in Request, ~Heartbeats PROVE ChainFits(job[r], call[r])'
  BY <1>1, <1>4 DEF SoFar, FaultInv, ChainFits, FollowsPlan, WiredTo
<1> QED
  BY <1>1, <1>2, <1>3, <1>4 DEF SoFar, FaultInv

\* A heartbeat that is missed before the chain notices.
LEMMA MarkedFault == ASSUME SoFar, NEW d \in Device, MarkedFromOutside(d) PROVE FaultInv'
<1>1. /\ UNCHANGED <<crashed, next_hop, call, job>> /\ MarkDead(d)
      /\ d \in crashed /\ d \notin dead /\ Heartbeats
  BY DEF MarkedFromOutside, workerVars, SoFar, OneFault
<1>2. /\ dead' = crashed /\ crashed = {d}
      /\ plan' = build_execution_plan(Placement, Recovery, dead')
  BY <1>1, SingleMark DEF SoFar
<1>3. ASSUME NEW r \in Request PROVE FaultFits(job[r], call[r])'
  <2>1. ~Recovering(job[r])
    BY <1>1 DEF SoFar, FaultInv, FaultFits
  <2> QED
    BY <1>1, <2>1 DEF SoFar, FaultInv, FaultFits, Going, Recovering, Replaying
<1> QED
  BY <1>1, <1>2, <1>3 DEF SoFar, FaultInv

LEMMA NextFault == SoFar /\ [Next]_vars => FaultInv'
<1> SUFFICES ASSUME SoFar, [Next]_vars PROVE FaultInv'
  OBVIOUS
<1>1. ASSUME NEW r \in Request, Gateway(r) PROVE FaultInv'
  <2>1. CASE Replay(r)
    BY <2>1, ReplayInvokes, RecoveryCallFault DEF Replay, Fed, SoFar
  <2>2. CASE Rebuild(r)
    BY <2>2, RebuildInvokes, RecoveryCallFault DEF Rebuild, Fed, SoFar
  <2> QED
    BY <1>1, <2>1, <2>2, StepFault, StepDoneFault, StepFailedFault, PromoteFault, RewireFault,
       EvictFault, RecoveryAnswerFault DEF Gateway
<1>2. ASSUME NEW r \in Request, Chain(r) PROVE FaultInv'
  BY <1>2, RunStageFault, ForwardFault, ReturnFault, CallFailsFault DEF Chain
<1>3. CASE UNCHANGED <<dead, crashed, plan, next_hop, call, job>>
  BY <1>3 DEF SoFar, FaultInv, FaultFits, ChainFits, Going, Recovering, Replaying, FollowsPlan,
     WiredTo
<1>4. CASE Orphan
  BY <1>3, <1>4 DEF Orphan, OrphanRuns, OrphanForwards, OrphanVanishes, gatewayVars
<1>5. ASSUME NEW m \in mirrors, DeliverMirror(m) PROVE FaultInv'
  BY <1>3, <1>5 DEF DeliverMirror
<1>6. CASE Finished \/ UNCHANGED vars
  BY <1>3, <1>6 DEF Finished, vars
<1> QED
  BY <1>1, <1>2, <1>4, <1>5, <1>6, CrashFault, MarkedFault DEF Next

LEMMA FaultHolds == OneFault => (Spec => [](ChainInv /\ BlameInv /\ FaultInv))
<1> SUFFICES ASSUME OneFault PROVE Spec => [](ChainInv /\ BlameInv /\ FaultInv)
  OBVIOUS
<1>1. Init => ChainInv /\ BlameInv /\ FaultInv
  BY InitType, InitBlame, InitFault
<1>2. ChainInv /\ BlameInv /\ FaultInv /\ [Next]_vars => ChainInv' /\ BlameInv' /\ FaultInv'
  BY NextType, NextBlame, NextFault DEF SoFar, OneFault
<1> QED
  BY <1>1, <1>2, PTL DEF Spec

\* A single crash never fails a request: whatever the placement and its recovery
\* table, as long as it backs every device with another one, whatever the stage,
\* the position and the moment of the crash, in either recovery mode, with or
\* without the re-prefill of generate(), and whether the heartbeats report it
\* before the chain does or not.
THEOREM OneCrashIsSurvived ==
  ASSUME OneFault
  PROVE  Spec => []SingleFaultSurvived
<1>1. FaultInv => SingleFaultSurvived
  BY DEF FaultInv, FaultFits, Going, SingleFaultSurvived
<1> QED
  BY <1>1, FaultHolds, PTL

\* The stages of a call run on the devices its plan names: after a crash the
\* rewired next hops and the plan agree again before anything is sent down the
\* chain.  Nobody else may change the plan (a heartbeat's mark_dead leaves the
\* wiring as it is, which is what the injected failure shows).
THEOREM WiringFollowsThePlan ==
  ASSUME OneFault, ~Heartbeats
  PROVE  Spec => []ChainFollowsPlan
<1>1. ChainInv /\ FaultInv => ChainFollowsPlan
  <2> SUFFICES ASSUME ChainInv, FaultInv, NEW r \in Request,
                      NEW i \in DOMAIN call[r].frames
               PROVE  call[r].frames[i].dev = call[r].plan[call[r].frames[i].stage]
    BY DEF ChainFollowsPlan
  <2>1. call[r].frames # << >> /\ call[r].frames \in Seq(FrameType)
    BY DEF ChainInv, ChainTypes, CallType
  <2>2. call[r].st = "running" /\ FollowsPlan(call[r])
    BY <2>1 DEF ChainInv, CallFits, FaultInv, ChainFits
  <2> QED
    BY <2>2 DEF FollowsPlan
<1> QED
  BY <1>1, FaultHolds, PTL

-----------------------------------------------------------------------------
(***************************************************************************)
(* What one crash leaves behind on the workers, and that the recoveries    *)
(* give back the tokens of an undisturbed run.  One request at a time, one *)
(* crash; heartbeats may report it before the chain does, unless it is the *)
(* head that crashes.                                                      *)
(***************************************************************************)


\* Heartbeats never replace the head under a chain that is still wired as
\* deployed.
HeadStays == ~Heartbeats \/ Placement[1] \notin Crashable

(***************************************************************************)
(* The wiring.  From a stage on the workers still forward as deployed: all *)
(* of them until a recovery, the rest of them while it rewires, and none   *)
(* that matters afterwards.  Between recoveries the chain is wired along   *)
(* one route, on which no call that is not broken leaves it.               *)
(***************************************************************************)
AlongOld(n) ==
  \A s \in Stage : s >= n => next_hop[Placement[s]][s] = Succ(Placement, s)

Repaired == dead # {} /\ WiredTo(N)

\* No recovery is rewiring, and no failure waits for one.
Settled(j, c) == j.pc \notin {"promote", "rewire"} /\ c.st # "error"

OldFrom(j, c) ==
  IF j.pc = "rewire" THEN j.k
  ELSE IF Settled(j, c) /\ Repaired THEN N + 1 ELSE 1

Route == IF Repaired THEN plan ELSE Placement

Follows(c, q) ==
  \A i \in DOMAIN c.frames :
    LET f == c.frames[i]
    IN f.dev = q[f.stage] /\ (f.st = "ran" => f.hop = q[f.stage + 1])

\* What an orphan may still do: forward along the part of the old chain that
\* has not been rewired, or start although nobody has cancelled it yet.
OrphanFits(o, n) ==
  LET f == o.frame
  IN \/ f.dev \in crashed
     \/ /\ f.open => /\ f.stage >= n /\ f.dev = Placement[f.stage]
                     /\ f.st = "ran" => f.hop = Placement[f.stage + 1]
        /\ f.st = "arriving" =>
             Detached(o) \/ (f.stage > n /\ o.from = Placement[f.stage - 1])

Evicted(r, d) ==
  /\ kv[r][d] = [s \in Stage |-> 0]
  /\ \A o \in orphans : ~(o.req = r /\ o.frame.dev = d /\ o.frame.st = "arriving")

\* The workers an evicting thread is through with hold nothing.
EvictFits(r, j) ==
  j.pc \in {"evict", "done", "failed"} =>
    \A d \in Device \ (dead \cup crashed) :
       (j.pc = "evict" => d \notin j.todo) => Evicted(r, d)

RouteFits(r, j, c) ==
  /\ AlongOld(OldFrom(j, c))
  /\ Settled(j, c) => Follows(c, Route) /\ (~Repaired => orphans = {})
  /\ \A o \in orphans : OrphanFits(o, OldFrom(j, c))
  /\ EvictFits(r, j)

RouteInv ==
  /\ crashed \subseteq Crashable
  /\ \A r \in Request : RouteFits(r, job[r], call[r])

(***************************************************************************)
(* The KV caches of the route.                                             *)
(***************************************************************************)
\* In a surgical recovery only the last worker may be the one that crashes: the
\* workers after a crashed one may have run the failed position already.
OnlyTailCrashes ==
  Mode = "surgical" => \A s \in Stage : s < N => Placement[s] \notin Crashable

\* The position the thread feeds next, or is feeding.
Feeding(j) == IF j.pc \in {"replay", "rebuild"} THEN j.k ELSE j.pos

Held(r, s) == kv[r][Route[s]][s]

\* The stage's cache can take position n: a prefill starts it anew.
Ready(r, s, n) == n = 0 \/ Held(r, s) = n

\* What a stage holds once the position has passed it.  A surgical recovery
\* feeds the tail alone: the others have kept the failed position.
Through(j, s) == (IF j.pc = "rebuild" /\ s < N THEN j.pos ELSE Feeding(j)) + 1

\* The stages a call has been through have one position more.
Ran(c, s) ==
  LET f == c.frames[Len(c.frames)]
  IN s < f.stage \/ (s = f.stage /\ f.st # "arriving")

TokenFits(r, j, c) ==
  /\ ~j.wrong
  /\ j.pc = "rebuild" => Mode = "surgical"
  /\ j.pc = "evict" => j.then \in {"done", "replay"}
  /\ Past(j) => j.out = MaxTokens
  /\ j.pc = "step" \/ (j.pc = "replay" /\ c.st = "idle")
       => \A s \in Stage : Ready(r, s, Feeding(j))
  /\ c.st \in {"running", "ok"} => c.good /\ c.at = Feeding(j)
  /\ c.st = "ok" => \A s \in Stage : Held(r, s) = Through(j, s)
  /\ c.st = "running" =>
       /\ IF j.pc = "rebuild" THEN Len(c.frames) = 1 /\ c.frames[1].stage = N
          ELSE c.live /\ c.frames[1].stage = 1
       /\ \A s \in Stage : IF Ran(c, s) THEN Held(r, s) = Through(j, s)
                           ELSE Ready(r, s, c.at)
       /\ c.frames[Len(c.frames)].st = "done" => c.frames[Len(c.frames)].stage = N
  /\ j.pc \in {"step", "wait", "replay", "rebuild"} /\ Settled(j, c) =>
       \A o \in orphans : o.frame.st = "arriving" => o.frame.dev \in crashed

TokenInv == \A r \in Request : TokenFits(r, job[r], call[r])

\* The crash of the tail, in a surgical recovery: every stage before it has the
\* failed position, and the mirrors the backup is fed with are the right ones.
SurgeryFits(r, j, c) ==
  /\ c.st = "error" => c.blame = N \/ (c.blame = 0 /\ N = 1)
  /\ j.pc \in {"promote", "rewire", "rebuild"} => j.stage = N
  /\ j.pc \in {"promote", "rewire"} \/ c.st = "error" \/ (j.pc = "rebuild" /\ c.st = "idle")
       => \A s \in Stage : s < N => Held(r, s) = j.pos + 1
  /\ j.pc = "rebuild" /\ c.st = "idle" => Ready(r, N, j.k)
  /\ j.pc = "rebuild" => \A p \in 0..j.pos : cache[r][N][p] = "good"

MirrorsFit ==
  /\ \A m \in mirrors : m.good
  /\ \A r \in Request, s \in Stage, p \in Position : cache[r][s][p] # "bad"

SurgeryInv ==
  Mode = "surgical" =>
    /\ orphans = {}
    /\ MirrorsFit
    /\ \A r \in Request : SurgeryFits(r, job[r], call[r])

\* What the steps of the proof may use.
OnRoute == SoFar /\ HeadStays /\ RouteInv

-----------------------------------------------------------------------------
(* The route. *)

LEMMA PlanStage ==
  ASSUME SoFar, NEW s \in Stage
  PROVE  plan[s] = IF Placement[s] \in dead THEN Recovery[Placement[s]] ELSE Placement[s]
  BY Shape DEF SoFar, FaultInv, build_execution_plan, Serving

LEMMA RouteType == ASSUME SoFar PROVE Route \in [Stage -> Device]
  BY Shape DEF Route, SoFar, ChainInv, ChainTypes

\* A repaired chain has no crashed worker in it.
LEMMA RepairedIsAlive ==
  ASSUME SoFar, Repaired
  PROVE  dead = crashed /\ Route = plan /\ \A s \in Stage : plan[s] \notin crashed
<1>1. dead = crashed
  BY DEF SoFar, FaultInv, Repaired
<1> QED
  BY <1>1, PlanIsAlive DEF SoFar, Route

\* Between recoveries every worker of the route that is there forwards along it.
LEMMA RouteWired ==
  ASSUME OnRoute, NEW r \in Request, Settled(job[r], call[r]), NEW s \in Stage,
         Route[s] \notin crashed
  PROVE  next_hop[Route[s]][s] = Succ(Route, s)
<1>1. CASE Repaired
  <2>1. s <= N
    BY Shape DEF Stage
  <2> QED
    BY <1>1, <2>1 DEF Repaired, Route, WiredTo
<1>2. CASE ~Repaired
  <2>1. OldFrom(job[r], call[r]) = 1
    BY <1>2 DEF OldFrom, Settled
  <2>2. s >= 1
    BY Shape DEF Stage
  <2> QED
    BY <1>2, <2>1, <2>2 DEF OnRoute, RouteInv, RouteFits, AlongOld, Route
<1> QED
  BY <1>1, <1>2

\* A step starts at the head of the route.
LEMMA RouteHead ==
  ASSUME OnRoute, NEW r \in Request, Settled(job[r], call[r])
  PROVE  plan[1] = Route[1]
<1>1. CASE Repaired
  BY <1>1 DEF Route
<1>2. CASE ~Repaired
  <2>1. Placement[1] \notin dead
    <3>1. CASE ~Heartbeats
      BY <1>2, <3>1 DEF Repaired, Settled, OnRoute, SoFar, FaultInv, ChainFits
    <3>2. CASE Heartbeats
      BY <3>2 DEF OnRoute, HeadStays, RouteInv, SoFar, FaultInv
    <3> QED
      BY <3>1, <3>2
  <2> QED
    BY <1>2, <2>1, PlanStage, Shape DEF Route, OnRoute
<1> QED
  BY <1>1, <1>2

\* A recovery that is past its rewiring has repaired the chain.
LEMMA ReplayingIsRepaired ==
  ASSUME SoFar, NEW r \in Request, Replaying(job[r])
  PROVE  Repaired /\ Route = plan
  BY DEF SoFar, FaultInv, FaultFits, Replaying, Recovering, Repaired, Route

LEMMA ReplayingIsSettled ==
  ASSUME SoFar, NEW r \in Request, job[r].pc \in {"replay", "rebuild"}
  PROVE  Settled(job[r], call[r])
  BY DEF SoFar, FaultInv, FaultFits, Settled

\* What changes neither plan nor wiring leaves the route.
LEMMA SameRoute ==
  ASSUME UNCHANGED <<crashed, dead, plan, next_hop>>
  PROVE  /\ Repaired' <=> Repaired
         /\ Route' = Route
         /\ \A n : AlongOld(n)' <=> AlongOld(n)
         /\ \A o, n : OrphanFits(o, n)' <=> OrphanFits(o, n)
<1>1. Repaired' <=> Repaired
  BY DEF Repaired, WiredTo
<1> QED
  BY <1>1 DEF Route, AlongOld, OrphanFits, Detached

\* A step of the one request.
LEMMA RouteStep ==
  ASSUME RouteInv, OneFault, NEW r \in Request, UNCHANGED crashed,
         RouteFits(r, job[r], call[r])'
  PROVE  RouteInv'
  BY DEF RouteInv, OneFault, OneRequest

\* A step of a thread or its call between recoveries.
LEMMA ThreadRoute ==
  ASSUME OnRoute, NEW r \in Request, UNCHANGED <<crashed, dead, plan, next_hop, orphans>>,
         Settled(job[r], call[r]), Settled(job'[r], call'[r]),
         Follows(call'[r], Route), EvictFits(r, job[r])'
  PROVE  RouteInv'
<1>1. /\ Repaired' <=> Repaired
      /\ Route' = Route
      /\ \A n : AlongOld(n)' <=> AlongOld(n)
      /\ \A o, n : OrphanFits(o, n)' <=> OrphanFits(o, n)
  BY SameRoute
<1>2. PICK n \in {1, N + 1} : n = OldFrom(job[r], call[r])
  BY DEF OldFrom, Settled
<1>3. OldFrom(job[r], call[r])' = n
  BY <1>1, <1>2 DEF OldFrom, Settled
<1>4. Follows(call[r], Route)'
  BY <1>1 DEF Follows
<1>5. AlongOld(n) /\ (\A o \in orphans : OrphanFits(o, n)) /\ (~Repaired => orphans = {})
  BY <1>2 DEF OnRoute, RouteInv, RouteFits
<1>6. AlongOld(OldFrom(job[r], call[r]))' /\ \A o \in orphans' : OrphanFits(o, OldFrom(job[r], call[r]))'
  BY <1>1, <1>3, <1>5 DEF AlongOld, OrphanFits, Detached
<1>7. RouteFits(r, job[r], call[r])'
  BY <1>1, <1>4, <1>5, <1>6 DEF RouteFits
<1> QED
  BY <1>7, RouteStep DEF OnRoute, SoFar

LEMMA InitRoute == Init => RouteInv
<1> SUFFICES ASSUME Init PROVE RouteInv
  OBVIOUS
<1>1. AlongOld(1)
  BY Shape DEF AlongOld, Init, Succ
<1>2. ASSUME NEW r \in Request PROVE RouteFits(r, job[r], call[r])
  <2>1. /\ job[r].pc = "step" /\ call[r].st = "idle" /\ call[r].frames = << >>
        /\ dead = {} /\ orphans = {}
    BY DEF Init, NoCall
  <2>2. ~Repaired /\ OldFrom(job[r], call[r]) = 1
    BY <2>1 DEF Repaired, OldFrom
  <2> QED
    BY <1>1, <2>1, <2>2 DEF RouteFits, Follows, EvictFits
<1> QED
  BY <1>2 DEF RouteInv, Init

-----------------------------------------------------------------------------
(* Every step keeps the route: first the gateway threads. *)

LEMMA StepRoute == ASSUME OnRoute, NEW r \in Request, Step(r) PROVE RouteInv'
<1>1. InvokedAt(r, plan[1], 1)
  BY StepInvokes DEF OnRoute, SoFar
<1>2. job'[r].pc = "wait" /\ job[r].pc = "step" /\ call[r].st = "idle"
  BY IdleCall DEF Step, OnRoute, SoFar, ChainInv, ChainTypes, JobType
<1>3. UNCHANGED <<crashed, dead, plan, next_hop, orphans>>
  BY DEF Step, workerVars
<1>4. Settled(job[r], call[r]) /\ Settled(job'[r], call'[r])
  BY <1>1, <1>2 DEF Settled, InvokedAt
<1>5. Follows(call'[r], Route)
  BY <1>1, <1>4, RouteHead DEF Follows, InvokedAt, Frame
<1>6. EvictFits(r, job[r])'
  BY <1>2 DEF EvictFits
<1> QED
  BY <1>3, <1>4, <1>5, <1>6, ThreadRoute

\* A token: the next step, or the evictions of the end.
LEMMA EmitIs ==
  ASSUME NEW j \in JobType, JobFits(j), ~Past(j), NEW good \in BOOLEAN
  PROVE  LET e == Emit(j, good)
         IN /\ e.wrong <=> (j.wrong \/ ~good)
            /\ e.out = j.out + 1 /\ e.attempts = j.attempts
            /\ \/ e.pc = "step" /\ e.pos = j.pos + 1 /\ e.out # MaxTokens
               \/ e.pc = "evict" /\ e.then = "done" /\ e.todo = Device /\ e.out = MaxTokens
<1> DEFINE j2 == [j EXCEPT !.out = @ + 1, !.pos = @ + 1, !.wrong = @ \/ ~good]
           a == StartEvict([j2 EXCEPT !.pos = 0], "done")
           b == [j2 EXCEPT !.pc = "step"]
<1>1. j2.out = j.out + 1 /\ j2.attempts = j.attempts /\ j2.pos = j.pos + 1
  BY DEF JobType
<1>2. j2.wrong <=> (j.wrong \/ ~good)
  BY ZenonT(20) DEF JobType
<1>3. /\ a.wrong = j2.wrong /\ a.out = j.out + 1 /\ a.attempts = j.attempts
      /\ a.pc = "evict" /\ a.then = "done" /\ a.todo = Device
  BY DEF JobType, StartEvict
<1>4. /\ b.wrong = j2.wrong /\ b.out = j.out + 1 /\ b.attempts = j.attempts
      /\ b.pc = "step" /\ b.pos = j.pos + 1
  BY DEF JobType
<1>5. Emit(j, good) = IF j.out + 1 = MaxTokens THEN a ELSE b
  BY <1>1 DEF Emit
<1> HIDE DEF a, b, j2
<1>6. CASE j.out + 1 = MaxTokens
  BY <1>2, <1>3, <1>5, <1>6
<1>7. CASE j.out + 1 # MaxTokens
  BY <1>2, <1>4, <1>5, <1>7
<1> QED
  BY <1>6, <1>7

LEMMA StepDoneIs ==
  ASSUME ChainInv, NEW r \in Request, StepDone(r)
  PROVE  /\ job[r].pc = "wait" /\ call[r].st = "ok" /\ ~Past(job[r])
         /\ job[r] \in JobType /\ JobFits(job[r]) /\ call[r].good \in BOOLEAN
         /\ job'[r] = Emit(job[r], call[r].good) /\ call'[r] = NoCall
         /\ UNCHANGED <<crashed, dead, plan, next_hop, orphans, kv>>
  BY DEF StepDone, ChainInv, ChainTypes, CallType, Past, workerVars, gatewayVars

LEMMA StepDoneRoute == ASSUME OnRoute, NEW r \in Request, StepDone(r) PROVE RouteInv'
<1>1. /\ job[r].pc = "wait" /\ call[r].st = "ok" /\ call'[r] = NoCall
      /\ UNCHANGED <<crashed, dead, plan, next_hop, orphans>>
      /\ job'[r].pc = "step" \/ (job'[r].pc = "evict" /\ job'[r].todo = Device)
  BY StepDoneIs, EmitIs DEF OnRoute, SoFar
<1>2. Settled(job[r], call[r]) /\ Settled(job'[r], call'[r]) /\ Follows(call'[r], Route)
  BY <1>1 DEF Settled, NoCall, Follows
<1>3. EvictFits(r, job[r])'
  BY <1>1 DEF EvictFits
<1> QED
  BY <1>1, <1>2, <1>3, ThreadRoute

LEMMA StepFailedRoute == ASSUME OnRoute, NEW r \in Request, StepFailed(r) PROVE RouteInv'
<1>1. /\ crashed' = crashed /\ UNCHANGED <<next_hop, orphans>> /\ call'[r] = NoCall
      /\ job'[r] = [job[r] EXCEPT !.pc = "promote", !.stage = DeadStage(r), !.dev = DeadDevice(r)]
  BY StepFailedJob DEF OnRoute
<1>2. job'[r].pc = "promote" /\ call[r].st = "error" /\ job[r].pc = "wait"
  BY <1>1 DEF StepFailed, OnRoute, SoFar, ChainInv, ChainTypes, JobType
<1>3. OldFrom(job[r], call[r]) = 1 /\ OldFrom(job[r], call[r])' = 1
  BY <1>2 DEF OldFrom, Settled
<1>4. AlongOld(1)' /\ \A o \in orphans' : OrphanFits(o, 1)'
  BY <1>1, <1>3 DEF OnRoute, RouteInv, RouteFits, AlongOld, OrphanFits, Detached
<1>5. AlongOld(OldFrom(job[r], call[r]))'
  BY <1>3, <1>4 DEF AlongOld
<1>6. \A o \in orphans' : OrphanFits(o, OldFrom(job[r], call[r]))'
  BY <1>3, <1>4 DEF OrphanFits, Detached
<1>7. RouteFits(r, job[r], call[r])'
  BY <1>2, <1>5, <1>6 DEF RouteFits, Settled, EvictFits
<1> QED
  BY <1>1, <1>7, RouteStep DEF OnRoute, SoFar

LEMMA PromoteRoute == ASSUME OnRoute, NEW r \in Request, Promote(r) PROVE RouteInv'
<1>1. /\ UNCHANGED <<crashed, dead, plan, next_hop, orphans, call>> /\ job[r].pc = "promote"
      /\ job'[r].pc = "rewire" /\ job'[r].k = 1
  BY PromoteJob DEF OnRoute
<1>2. OldFrom(job[r], call[r]) = 1 /\ OldFrom(job[r], call[r])' = 1
  BY <1>1 DEF OldFrom, Settled
<1>3. AlongOld(1)' /\ \A o \in orphans' : OrphanFits(o, 1)'
  BY <1>1, <1>2 DEF OnRoute, RouteInv, RouteFits, AlongOld, OrphanFits, Detached
<1>4. AlongOld(OldFrom(job[r], call[r]))'
  BY <1>2, <1>3 DEF AlongOld
<1>5. \A o \in orphans' : OrphanFits(o, OldFrom(job[r], call[r]))'
  BY <1>2, <1>3 DEF OrphanFits, Detached
<1>6. RouteFits(r, job[r], call[r])'
  BY <1>1, <1>4, <1>5 DEF RouteFits, Settled, EvictFits
<1> QED
  BY <1>1, <1>6, RouteStep DEF OnRoute, SoFar

\* SetNextHop closes the channel of an orphan that could still take it.
LEMMA ClosedOrphan ==
  ASSUME SoFar, dead = crashed, NEW s \in Stage, NEW o \in OrphanType, OrphanFits(o, s)
  PROVE  LET d == plan[s]
             f == o.frame
             c == [o EXCEPT !.frame = IF f.dev = d /\ f.stage = s
                                      THEN [f EXCEPT !.open = FALSE] ELSE f,
                            !.from = IF @ = d /\ f.stage = s + 1 THEN NoDevice ELSE @]
         IN OrphanFits(c, s + 1)
<1> DEFINE d == plan[s]
           f == o.frame
           g == IF f.dev = d /\ f.stage = s THEN [f EXCEPT !.open = FALSE] ELSE f
           from == IF o.from = d /\ f.stage = s + 1 THEN NoDevice ELSE o.from
           c == [o EXCEPT !.frame = g, !.from = from]
<1>1. /\ f \in FrameType /\ f.stage \in Nat /\ s \in Nat
      /\ g.dev = f.dev /\ g.stage = f.stage /\ g.st = f.st /\ g.hop = f.hop
      /\ g.open <=> (f.open /\ ~(f.dev = d /\ f.stage = s))
  BY Shape DEF OrphanType, FrameType, Stage
<1>2. c.frame = g /\ c.from = from
  BY DEF OrphanType
<1>3. Placement[s] \notin crashed => Placement[s] = d
  BY PlanStage
<1>4. ASSUME f.dev \notin crashed, g.open
      PROVE  /\ f.stage >= s + 1 /\ f.dev = Placement[f.stage]
             /\ f.st = "ran" => f.hop = Placement[f.stage + 1]
  <2>1. f.stage >= s /\ f.dev = Placement[f.stage] /\ (f.st = "ran" => f.hop = Placement[f.stage + 1])
    BY <1>1, <1>4 DEF OrphanFits
  <2>2. f.stage # s
    BY <1>1, <1>3, <1>4, <2>1
  <2> QED
    BY <1>1, <2>1, <2>2
<1>5. ASSUME f.dev \notin crashed, f.st = "arriving"
      PROVE  Detached(c) \/ (f.stage > s + 1 /\ from = Placement[f.stage - 1])
  <2>1. CASE Detached(o)
    BY <1>2, <2>1 DEF Detached
  <2>2. CASE ~Detached(o)
    <3>1. f.stage > s /\ o.from = Placement[f.stage - 1] /\ o.from \notin crashed
      BY <1>5, <2>2 DEF OrphanFits, Detached
    <3>2. CASE f.stage = s + 1
      <4>1. f.stage - 1 = s
        BY <1>1, <3>2
      <4>2. o.from = d
        BY <1>3, <3>1, <4>1
      <4> QED
        BY <1>2, <3>2, <4>2 DEF Detached
    <3>3. CASE f.stage # s + 1
      BY <1>1, <3>1, <3>3
    <3> QED
      BY <3>2, <3>3
  <2> QED
    BY <2>1, <2>2
<1>6. OrphanFits(c, s + 1)
  <2> HIDE DEF g, from, c, f
  <2> QED
    BY <1>1, <1>2, <1>4, <1>5 DEF OrphanFits
<1> QED
  BY <1>6

LEMMA RewireRoute == ASSUME OnRoute, NEW r \in Request, Rewire(r) PROVE RouteInv'
<1>1. UNCHANGED <<crashed, dead, plan>> /\ job[r].pc = "rewire"
  BY DEF Rewire, gatewayVars
<1>2. job[r].rplan = plan /\ dead = crashed
  BY <1>1 DEF OnRoute, SoFar, FaultInv, FaultFits, Recovering
<1>3. PICK s \in Stage : s = job[r].k
  BY RewireStep DEF OnRoute, SoFar
<1>4. plan[s] \in Device /\ plan[s] \notin crashed
  BY <1>2, PlanIsAlive DEF OnRoute, SoFar, ChainInv, ChainTypes
<1>5. /\ s \in Nat /\ N \in Nat
      /\ next_hop' = [next_hop EXCEPT ![plan[s]][s] = Succ(plan, s)]
      /\ \/ s < N /\ job'[r].pc = "rewire" /\ job'[r].k = s + 1
         \/ /\ s = N
            /\ \/ job'[r].pc = "rebuild"
               \/ job'[r].pc = "evict" /\ job'[r].todo = Device /\ job'[r].then = "replay"
  BY <1>2, <1>3, <1>4, RewireStep, AfterRewireJob, Shape DEF OnRoute, SoFar, Succ
<1>6. call'[r].st = "idle" /\ call'[r].frames = << >>
  BY IdleRewired DEF OnRoute, SoFar
<1>7. FaultInv' /\ Replaying(job'[r]) => Repaired'
  BY <1>1, <1>2 DEF Repaired, FaultInv, FaultFits, Recovering, Replaying, OnRoute, SoFar
<1>8. Repaired' \/ job'[r].pc = "rewire"
  BY <1>5, <1>7, RewireFault DEF Replaying, OnRoute
<1>9. OldFrom(job[r], call[r])' = s + 1 /\ OldFrom(job[r], call[r]) = s
  <2>1. OldFrom(job[r], call[r]) = s
    BY <1>1, <1>3 DEF OldFrom
  <2>2. CASE job'[r].pc = "rewire"
    <3>1. job'[r].k = s + 1
      BY <1>5, <2>2
    <3> QED
      BY <2>1, <2>2, <3>1 DEF OldFrom
  <2>3. CASE job'[r].pc # "rewire"
    <3>1. s + 1 = N + 1 /\ job'[r].pc \in {"rebuild", "evict"}
      BY <1>5, <2>3
    <3> QED
      BY <1>6, <1>8, <2>1, <2>3, <3>1 DEF OldFrom, Settled
  <2> QED
    BY <2>2, <2>3
<1>10. AlongOld(s) /\ \A o \in orphans : OrphanFits(o, s)
  BY <1>9 DEF OnRoute, RouteInv, RouteFits
<1>11. AlongOld(s + 1)'
  <2> SUFFICES ASSUME NEW t \in Stage, t >= s + 1
               PROVE  next_hop'[Placement[t]][t] = next_hop[Placement[t]][t] /\ t >= s
    BY <1>10 DEF AlongOld, Succ
  <2>1. t # s /\ t >= s
    BY <1>5, Shape DEF Stage
  <2> QED
    BY <1>4, <1>5, <2>1, Shape DEF OnRoute, SoFar, ChainInv, ChainTypes
<1>12. ASSUME NEW o \in orphans' PROVE OrphanFits(o, s + 1)'
  <2>1. CloseChannel(plan[s], s)
    BY <1>1, <1>2, <1>3, <1>4 DEF Rewire
  <2>2. PICK p \in orphans :
          o = [p EXCEPT !.frame = IF p.frame.dev = plan[s] /\ p.frame.stage = s
                                  THEN [p.frame EXCEPT !.open = FALSE] ELSE p.frame,
                        !.from = IF @ = plan[s] /\ p.frame.stage = s + 1 THEN NoDevice ELSE @]
    BY <2>1 DEF CloseChannel, OnRoute, SoFar, ChainInv, ChainTypes, OrphanType
  <2>3. p \in OrphanType /\ OrphanFits(p, s)
    BY <1>10 DEF OnRoute, SoFar, ChainInv, ChainTypes
  <2>4. OrphanFits(o, s + 1)
    BY <1>2, <2>2, <2>3, ClosedOrphan DEF OnRoute
  <2> QED
    BY <1>1, <2>4 DEF OrphanFits, Detached
<1>13. AlongOld(OldFrom(job[r], call[r]))'
  BY <1>9, <1>11 DEF AlongOld
<1>14. \A o \in orphans' : OrphanFits(o, OldFrom(job[r], call[r]))'
  BY <1>9, <1>12 DEF OrphanFits, Detached
<1>15. Settled(job[r], call[r])' => Follows(call[r], Route)' /\ Repaired'
  BY <1>6, <1>8 DEF Settled, Follows
<1>16. EvictFits(r, job[r])'
  BY <1>5 DEF EvictFits
<1> QED
  BY <1>1, <1>13, <1>14, <1>15, <1>16, RouteStep DEF RouteFits, OnRoute, SoFar

\* An evicting thread meets orphans only once the chain has been rewired, and
\* then none of them is going to start on a worker that is there unless its
\* caller is gone.
LEMMA RepairedOrphan ==
  ASSUME OnRoute, NEW r \in Request, NEW o \in orphans, Settled(job[r], call[r])
  PROVE  /\ Repaired
         /\ \/ o.frame.dev \in crashed
            \/ ~o.frame.open /\ (o.frame.st = "arriving" => Detached(o))
<1>1. Repaired /\ OrphanFits(o, OldFrom(job[r], call[r]))
  BY DEF OnRoute, RouteInv, RouteFits
<1>2. OrphanFits(o, N + 1)
  BY <1>1 DEF OldFrom, Settled
<1>3. ~(o.frame.stage >= N + 1) /\ ~(o.frame.stage > N + 1)
  BY Shape DEF OnRoute, SoFar, ChainInv, ChainTypes, OrphanType, FrameType, Stage
<1> QED
  BY <1>1, <1>2, <1>3 DEF OrphanFits

\* What one EvictRequest does to the worker and its caches.
LEMMA EvictIs ==
  ASSUME ChainInv, NEW r \in Request, Evict(r)
  PROVE  \E d \in Device :
           /\ d \in job[r].todo /\ job'[r].todo = job[r].todo \ {d}
           /\ job'[r].pc = IF job[r].todo = {d} THEN job[r].then ELSE "evict"
           /\ job'[r].then = job[r].then
           /\ \/ d \in dead \cup crashed /\ UNCHANGED <<kv, orphans>>
              \/ /\ kv' = [kv EXCEPT ![r][d] = [s \in Stage |-> 0]]
                 /\ orphans' = {o \in orphans : ~(o.req = r /\ o.frame.dev = d
                                  /\ o.frame.st = "arriving" /\ Detached(o))}
<1>1. PICK d \in job[r].todo :
        /\ d = CHOOSE x \in job[r].todo : TRUE
        /\ d \in Device
        /\ job'[r].todo = job[r].todo \ {d}
        /\ job'[r].pc = IF job[r].todo = {d} THEN job[r].then ELSE "evict"
        /\ job'[r].then = job[r].then
  BY EvictJob
<1>2. IF d \in dead \cup crashed THEN UNCHANGED <<kv, orphans>>
      ELSE /\ kv' = [kv EXCEPT ![r][d] = [s \in Stage |-> 0]]
           /\ orphans' = {o \in orphans : ~(o.req = r /\ o.frame.dev = d
                            /\ o.frame.st = "arriving" /\ Detached(o))}
  BY <1>1 DEF Evict
<1> QED
  BY <1>1, <1>2

\* The workers the evicting thread has been to are clean.
LEMMA EvictClears ==
  ASSUME OnRoute, NEW r \in Request, Evict(r), NEW d \in Device \ (dead \cup crashed),
         d \notin job'[r].todo
  PROVE  Evicted(r, d)'
<1>1. PICK e \in Device :
        /\ e \in job[r].todo /\ job'[r].todo = job[r].todo \ {e}
        /\ \/ e \in dead \cup crashed /\ UNCHANGED <<kv, orphans>>
           \/ /\ kv' = [kv EXCEPT ![r][e] = [s \in Stage |-> 0]]
              /\ orphans' = {o \in orphans : ~(o.req = r /\ o.frame.dev = e
                               /\ o.frame.st = "arriving" /\ Detached(o))}
  BY EvictIs DEF OnRoute, SoFar
<1>2. orphans' \subseteq orphans
  BY <1>1
<1>3. CASE d = e
  <2>1. kv'[r][d] = [s \in Stage |-> 0]
    BY <1>1, <1>3 DEF OnRoute, SoFar, ChainInv, ChainTypes
  <2>2. ASSUME NEW o \in orphans', o.req = r, o.frame.dev = d, o.frame.st = "arriving"
        PROVE  FALSE
    <3>1. Settled(job[r], call[r])
      BY IdleCall DEF Evict, Settled, OnRoute, SoFar
    <3>2. Detached(o)
      BY <1>2, <2>2, <3>1, RepairedOrphan
    <3> QED
      BY <1>1, <1>3, <2>2, <3>2
  <2> QED
    BY <2>1, <2>2 DEF Evicted
<1>4. CASE d # e
  <2>1. Evicted(r, d)
    BY <1>1, <1>4 DEF Evict, OnRoute, RouteInv, RouteFits, EvictFits
  <2>2. kv'[r][d] = kv[r][d]
    BY <1>1, <1>4 DEF OnRoute, SoFar, ChainInv, ChainTypes
  <2> QED
    BY <1>2, <2>1, <2>2 DEF Evicted
<1> QED
  BY <1>3, <1>4

LEMMA EvictRoute == ASSUME OnRoute, NEW r \in Request, Evict(r) PROVE RouteInv'
<1>1. UNCHANGED <<crashed, dead, plan, next_hop, call>> /\ job[r].pc = "evict"
  BY DEF Evict
<1>2. call[r].st = "idle" /\ call[r].frames = << >>
  BY IdleCall, <1>1 DEF OnRoute, SoFar
<1>3. PICK d \in Device :
        /\ d \in job[r].todo /\ job'[r].todo = job[r].todo \ {d}
        /\ job'[r].pc = IF job[r].todo = {d} THEN job[r].then ELSE "evict"
        /\ \/ orphans' = orphans
           \/ orphans' = {o \in orphans : ~(o.req = r /\ o.frame.dev = d
                            /\ o.frame.st = "arriving" /\ Detached(o))}
  BY EvictIs DEF OnRoute, SoFar
<1>4. job[r].then \in {"step", "done", "failed", "replay"} /\ job[r].todo \subseteq Device
  BY DEF OnRoute, SoFar, ChainInv, ChainTypes, JobType
<1>5. Settled(job[r], call[r]) /\ Settled(job'[r], call'[r]) /\ orphans' \subseteq orphans
  BY <1>1, <1>2, <1>3, <1>4 DEF Settled
<1>6. /\ Repaired' <=> Repaired
      /\ Route' = Route
      /\ \A n : AlongOld(n)' <=> AlongOld(n)
      /\ \A o, n : OrphanFits(o, n)' <=> OrphanFits(o, n)
  BY <1>1, SameRoute
<1>7. PICK n \in {1, N + 1} : n = OldFrom(job[r], call[r])
  BY <1>5 DEF OldFrom, Settled
<1>8. OldFrom(job[r], call[r])' = n
  BY <1>5, <1>6, <1>7 DEF OldFrom, Settled
<1>9. AlongOld(n) /\ (\A o \in orphans : OrphanFits(o, n)) /\ (~Repaired => orphans = {})
  BY <1>5, <1>7 DEF OnRoute, RouteInv, RouteFits
<1>10. AlongOld(OldFrom(job[r], call[r]))' /\ \A o \in orphans' : OrphanFits(o, OldFrom(job[r], call[r]))'
  BY <1>5, <1>6, <1>8, <1>9 DEF AlongOld, OrphanFits, Detached
<1>11. Follows(call[r], Route)'
  BY <1>1, <1>2 DEF Follows
<1>12. EvictFits(r, job[r])'
  <2> SUFFICES ASSUME job'[r].pc \in {"evict", "done", "failed"},
                      NEW e \in Device \ (dead \cup crashed),
                      job'[r].pc = "evict" => e \notin job'[r].todo
               PROVE  Evicted(r, e)'
    BY <1>1 DEF EvictFits
  <2>1. e \notin job'[r].todo
    BY <1>3
  <2> QED
    BY <2>1, EvictClears
<1> QED
  BY <1>1, <1>5, <1>6, <1>9, <1>10, <1>11, <1>12, RouteStep DEF RouteFits, OnRoute, SoFar

LEMMA RecoveryCallRoute ==
  ASSUME OnRoute, NEW r \in Request, job[r].pc \in {"replay", "rebuild"},
         RecoveryInvokes(r, Fed(job[r])), orphans' = orphans
  PROVE  RouteInv'
<1>1. /\ job'[r].pc = job[r].pc /\ UNCHANGED <<crashed, dead, plan, next_hop>>
  BY DEF RecoveryInvokes
<1>2. job[r].k \in Nat
  BY Shape DEF OnRoute, SoFar, ChainInv, ChainTypes, JobType
<1>3. InvokedAt(r, plan[Fed(job[r])], Fed(job[r]))
  BY <1>2 DEF OnRoute, SoFar, FaultInv, FaultFits, RecoveryInvokes
<1>4. Route = plan
  BY ReplayingIsRepaired DEF Replaying, OnRoute
<1>5. Settled(job[r], call[r]) /\ Settled(job'[r], call'[r])
  BY <1>1, <1>3, ReplayingIsSettled DEF Settled, InvokedAt, OnRoute
<1>6. Follows(call'[r], Route)
  BY <1>3, <1>4 DEF Follows, InvokedAt, Frame
<1>7. EvictFits(r, job[r])'
  BY <1>1 DEF EvictFits
<1> QED
  BY <1>1, <1>5, <1>6, <1>7, ThreadRoute

\* In a recovery an answer is never an error: the next position, or a token.
LEMMA RecoveryAnswerIs ==
  ASSUME SoFar, NEW r \in Request, RecoveryAnswer(r)
  PROVE  /\ job[r].pc \in {"replay", "rebuild"} /\ call[r].st = "ok" /\ ~Past(job[r])
         /\ job[r] \in JobType /\ JobFits(job[r]) /\ call[r].good \in BOOLEAN
         /\ call'[r] = NoCall
         /\ UNCHANGED <<crashed, dead, plan, next_hop, orphans, kv>>
         /\ \/ job[r].k < job[r].pos /\ job'[r] = [job[r] EXCEPT !.k = @ + 1]
            \/ job[r].k = job[r].pos /\ job'[r] = Emit(job[r], call[r].good)
<1>1. /\ job[r] \in JobType /\ JobFits(job[r]) /\ call[r].st \in {"ok", "error"}
      /\ job[r].pc \in {"replay", "rebuild"} /\ call[r].good \in BOOLEAN /\ ~Past(job[r])
      /\ UNCHANGED <<crashed, dead, plan, next_hop, orphans, kv>>
  BY DEF RecoveryAnswer, SoFar, ChainInv, ChainTypes, CallType, Past, gatewayVars, workerVars
<1>2. call[r].st = "ok" /\ call'[r] = NoCall
  BY <1>1, RecoveryAnswerJob DEF SoFar, FaultInv, FaultFits
<1>3. job[r].k <= job[r].pos /\ job[r].k \in Nat /\ job[r].pos \in Nat
  BY <1>1, Shape DEF JobFits, JobType, Position
<1> DEFINE m == [job[r] EXCEPT !.k = @ + 1]
           b == Emit(job[r], call[r].good)
           j == CASE call[r].st = "error" -> Reprefill(job[r])
                  [] call[r].st = "ok" /\ job[r].k < job[r].pos -> m
                  [] call[r].st = "ok" /\ job[r].k = job[r].pos -> b
<1>4. job' = [job EXCEPT ![r] = j]
  BY DEF RecoveryAnswer, SoFar, ChainInv, ChainTypes
<1> HIDE DEF m, b, j
<1>5. job'[r] = j
  BY <1>4 DEF SoFar, ChainInv, ChainTypes
<1>6. (job[r].k < job[r].pos /\ j = m) \/ (job[r].k = job[r].pos /\ j = b)
  BY <1>2, <1>3 DEF j
<1> QED
  BY <1>1, <1>2, <1>5, <1>6 DEF m, b

LEMMA RecoveryAnswerRoute == ASSUME OnRoute, NEW r \in Request, RecoveryAnswer(r) PROVE RouteInv'
<1>1. /\ job[r].pc \in {"replay", "rebuild"} /\ call[r].st = "ok" /\ call'[r] = NoCall
      /\ UNCHANGED <<crashed, dead, plan, next_hop, orphans>>
      /\ \/ job'[r].pc = job[r].pc
         \/ job'[r].pc = "step" \/ (job'[r].pc = "evict" /\ job'[r].todo = Device)
  <2>1. job'[r] = [job[r] EXCEPT !.k = @ + 1] => job'[r].pc = job[r].pc
    BY DEF OnRoute, SoFar, ChainInv, ChainTypes, JobType
  <2> QED
    BY <2>1, RecoveryAnswerIs, EmitIs DEF OnRoute, SoFar
<1>2. Settled(job[r], call[r]) /\ Settled(job'[r], call'[r]) /\ Follows(call'[r], Route)
  BY <1>1 DEF Settled, NoCall, Follows
<1>3. EvictFits(r, job[r])'
  BY <1>1 DEF EvictFits
<1> QED
  BY <1>1, <1>2, <1>3, ThreadRoute

-----------------------------------------------------------------------------
(* The chain. *)

LEMMA CallRoute ==
  ASSUME OnRoute, NEW r \in Request, Running(r),
         UNCHANGED <<crashed, dead, plan, next_hop, orphans, job>>,
         call'[r].st \in {"running", "ok"}, Follows(call'[r], Route)
  PROVE  RouteInv'
<1>1. job[r].pc \in {"wait", "replay", "rebuild"}
  BY LastFrame DEF OnRoute, SoFar
<1>2. Settled(job[r], call[r]) /\ Settled(job'[r], call'[r])
  BY <1>1 DEF Settled, Running
<1>3. EvictFits(r, job[r])'
  BY <1>1 DEF EvictFits
<1> QED
  BY <1>2, <1>3, ThreadRoute

\* The innermost handler of a running call.
LEMMA TopFrame ==
  ASSUME OnRoute, NEW r \in Request, Running(r)
  PROVE  LET f == Last(call[r].frames)
         IN /\ Settled(job[r], call[r]) /\ Follows(call[r], Route)
            /\ f = call[r].frames[Top(r)] /\ f \in FrameType /\ f.stage \in Stage
            /\ DOMAIN call[r].frames = 1..Top(r) /\ Top(r) \in 1..Top(r) /\ Top(r) \in Nat
            /\ f.dev = Route[f.stage] /\ (f.st = "ran" => f.hop = Route[f.stage + 1])
<1>1. /\ Last(call[r].frames) = call[r].frames[Top(r)] /\ Last(call[r].frames) \in FrameType
      /\ DOMAIN call[r].frames = 1..Top(r) /\ Top(r) \in 1..Top(r) /\ Top(r) \in Nat
      /\ job[r].pc \in {"wait", "replay", "rebuild"}
  BY LastFrame DEF OnRoute, SoFar
<1>2. Settled(job[r], call[r])
  BY <1>1 DEF Settled, Running
<1>3. Follows(call[r], Route)
  BY <1>2 DEF OnRoute, RouteInv, RouteFits
<1> QED
  BY <1>1, <1>2, <1>3 DEF Follows, FrameType

\* A handler finds the next device of the route in its table, or is the tail.
LEMMA RunStageIs ==
  ASSUME OnRoute, NEW r \in Request, RunStage(r)
  PROVE  LET f == Last(call[r].frames)
             g == call'[r].frames[Top(r)]
         IN /\ Running(r) /\ f.st = "arriving" /\ f.dev \notin crashed
            /\ UNCHANGED <<crashed, dead, plan, next_hop, orphans, job>>
            /\ call'[r].st = "running" /\ DOMAIN call'[r].frames = 1..Top(r)
            /\ \A i \in 1..Top(r) : i # Top(r) => call'[r].frames[i] = call[r].frames[i]
            /\ g.dev = f.dev /\ g.stage = f.stage
            /\ g.st = "ran" => g.hop = Route[f.stage + 1]
            /\ g.st = "ran" \/ (g.st = "done" /\ (call[r].live => f.stage = N))
<1> DEFINE f == Last(call[r].frames)
           g == call'[r].frames[Top(r)]
<1>1. /\ Running(r) /\ f.st = "arriving" /\ f.dev \notin crashed
      /\ UNCHANGED <<crashed, dead, plan, next_hop, orphans, job>>
  BY DEF RunStage, gatewayVars
<1>2. /\ call'[r].st = "running" /\ DOMAIN call'[r].frames = 1..Top(r)
      /\ \A i \in 1..Top(r) : i # Top(r) => call'[r].frames[i] = call[r].frames[i]
      /\ g.dev = f.dev /\ g.stage = f.stage
      /\ g.hop = HopOf(f.dev, f.stage, call[r].live)
      /\ g.st = IF g.hop = NoDevice THEN "done" ELSE "ran"
  BY RunStageCall DEF OnRoute, SoFar
<1>3. f.dev = Route[f.stage] /\ f.stage \in Stage /\ Settled(job[r], call[r])
  BY <1>1, TopFrame
<1>4. next_hop[f.dev][f.stage] = Succ(Route, f.stage)
  BY <1>1, <1>3, RouteWired
<1>5. f.stage # N => f.stage < N /\ Route[f.stage + 1] \in Device
  <2>1. f.stage # N => f.stage < N /\ f.stage + 1 \in Stage
    BY <1>3, Shape DEF Stage
  <2> QED
    BY <2>1, RouteType DEF OnRoute
<1> HIDE DEF f, g
<1> QED
  BY <1>1, <1>2, <1>4, <1>5, Shape DEF f, g, HopOf, Succ

LEMMA RunStageRoute == ASSUME OnRoute, NEW r \in Request, RunStage(r) PROVE RouteInv'
<1> DEFINE f == Last(call[r].frames)
           g == call'[r].frames[Top(r)]
<1>1. /\ Running(r) /\ UNCHANGED <<crashed, dead, plan, next_hop, orphans, job>>
      /\ call'[r].st = "running" /\ DOMAIN call'[r].frames = 1..Top(r)
      /\ \A i \in 1..Top(r) : i # Top(r) => call'[r].frames[i] = call[r].frames[i]
      /\ g.dev = f.dev /\ g.stage = f.stage
      /\ g.st = "ran" => g.hop = Route[f.stage + 1]
  BY RunStageIs
<1>2. f.dev = Route[f.stage] /\ Follows(call[r], Route) /\ DOMAIN call[r].frames = 1..Top(r)
  BY <1>1, TopFrame
<1> HIDE DEF f, g
<1>3. ASSUME NEW i \in 1..Top(r)
      PROVE  LET h == call'[r].frames[i]
             IN h.dev = Route[h.stage] /\ (h.st = "ran" => h.hop = Route[h.stage + 1])
  <2>1. CASE i = Top(r)
    BY <1>1, <1>2, <2>1 DEF g
  <2>2. CASE i # Top(r)
    BY <1>1, <1>2, <2>2 DEF Follows
  <2> QED
    BY <2>1, <2>2
<1>4. Follows(call'[r], Route)
  BY <1>1, <1>3 DEF Follows
<1> QED
  BY <1>1, <1>4, CallRoute

LEMMA ForwardRoute == ASSUME OnRoute, NEW r \in Request, Forward(r) PROVE RouteInv'
<1> DEFINE f == Last(call[r].frames)
           g == call'[r].frames[Top(r)]
           n == call'[r].frames[Top(r) + 1]
<1>1. UNCHANGED <<crashed, dead, plan, next_hop, orphans, job>> /\ Running(r) /\ f.st = "ran"
  BY DEF Forward, gatewayVars, workerVars
<1>2. /\ call'[r].st = "running"
      /\ DOMAIN call'[r].frames = 1..(Top(r) + 1)
      /\ \A i \in 1..Top(r) : i # Top(r) => call'[r].frames[i] = call[r].frames[i]
      /\ g.dev = f.dev /\ g.stage = f.stage /\ g.st = "waiting"
      /\ n = Frame(f.hop, f.stage + 1)
  BY ForwardCall DEF OnRoute, SoFar
<1>3. /\ f.dev = Route[f.stage] /\ f.hop = Route[f.stage + 1] /\ Follows(call[r], Route)
      /\ DOMAIN call[r].frames = 1..Top(r) /\ Top(r) \in Nat
  BY <1>1, TopFrame
<1>4. n.dev = Route[n.stage] /\ n.st = "arriving"
  BY <1>2, <1>3 DEF Frame
<1> HIDE DEF f, g, n
<1>5. ASSUME NEW i \in 1..(Top(r) + 1)
      PROVE  LET h == call'[r].frames[i]
             IN h.dev = Route[h.stage] /\ (h.st = "ran" => h.hop = Route[h.stage + 1])
  <2>1. CASE i = Top(r) + 1
    BY <1>4, <2>1 DEF n
  <2>2. CASE i = Top(r)
    BY <1>2, <1>3, <2>2 DEF g
  <2>3. CASE i # Top(r) /\ i # Top(r) + 1
    <3>1. i \in 1..Top(r)
      BY <1>3, <2>3
    <3> QED
      BY <1>2, <1>3, <2>3, <3>1 DEF Follows
  <2> QED
    BY <2>1, <2>2, <2>3
<1>6. Follows(call'[r], Route)
  BY <1>2, <1>5 DEF Follows
<1> QED
  BY <1>1, <1>2, <1>6, CallRoute

LEMMA ReturnRoute == ASSUME OnRoute, NEW r \in Request, Return(r) PROVE RouteInv'
<1>1. UNCHANGED <<crashed, dead, plan, next_hop, orphans, job>> /\ Running(r)
  BY DEF Return, gatewayVars, workerVars
<1>2. call'[r].st = "ok" /\ call'[r].frames = << >>
  BY DEF Return, OnRoute, SoFar, ChainInv, ChainTypes, CallType
<1>3. Follows(call'[r], Route)
  BY <1>2 DEF Follows
<1> QED
  BY <1>1, <1>2, <1>3, CallRoute

\* A broken call leaves at most the handler it had come to, wired as deployed.
LEMMA RemainderFits ==
  ASSUME OnRoute, NEW r \in Request, Running(r), ~Repaired, NEW i \in DOMAIN call[r].frames,
         NEW o \in Remainder(r, i)
  PROVE  OrphanFits(o, 1)
<1> DEFINE f == Last(call[r].frames)
           h == call[r].frames[Top(r) - 1]
           from == IF Top(r) = i + 1 THEN NoDevice ELSE h.dev
<1>1. /\ Top(r) > i
      /\ o = [req |-> r, at |-> call[r].at, good |-> call[r].good, frame |-> f, from |-> from]
  BY DEF Remainder
<1>2. o.frame = f /\ o.from = from
  BY <1>1
<1>3. /\ Follows(call[r], Placement) /\ f = call[r].frames[Top(r)] /\ f.stage \in Nat
      /\ f.stage >= 1 /\ f.dev = Placement[f.stage]
      /\ f.st = "ran" => f.hop = Placement[f.stage + 1]
      /\ DOMAIN call[r].frames = 1..Top(r) /\ Top(r) \in Nat
  BY TopFrame, Shape DEF Route, Stage
<1>4. CASE Top(r) = i + 1
  BY <1>2, <1>3, <1>4 DEF OrphanFits, Detached
<1>5. CASE Top(r) # i + 1
  <2>1. Top(r) - 1 \in DOMAIN call[r].frames /\ Top(r) \in DOMAIN call[r].frames /\ Top(r) # 1
    BY <1>1, <1>3, <1>5
  <2>2. f.stage = h.stage + 1 /\ h.stage \in Nat /\ h.stage >= 1
    <3>1. h \in FrameType /\ StackFits(call[r].frames)
      BY <2>1, LastFrame DEF OnRoute, SoFar
    <3> QED
      BY <1>3, <2>1, <3>1, Shape DEF StackFits, FrameType, Stage
  <2>3. h.dev = Placement[h.stage] /\ f.stage - 1 = h.stage /\ f.stage > 1
    BY <1>3, <2>1, <2>2 DEF Follows
  <2>4. from = Placement[f.stage - 1]
    BY <1>5, <2>3
  <2> HIDE DEF f, from
  <2> QED
    BY <1>2, <1>3, <2>3, <2>4 DEF OrphanFits
<1> QED
  BY <1>4, <1>5

LEMMA CallFailsRoute == ASSUME OnRoute, NEW r \in Request, CallFails(r) PROVE RouteInv'
<1> DEFINE i == Min(Broken(r))
           f == call[r].frames[i]
<1>1. /\ UNCHANGED <<crashed, dead, plan, next_hop, job>> /\ Running(r) /\ Broken(r) # {}
      /\ orphans' = orphans \cup Remainder(r, i)
  BY DEF CallFails, gatewayVars
<1>2. i \in Broken(r) /\ i \in DOMAIN call[r].frames
  BY <1>1, FirstBroken DEF OnRoute, SoFar
<1>3. f.open /\ f.stage \in Stage
  BY <1>1, <1>2, LastFrame DEF OnRoute, SoFar, BlameInv, BlameFits, FrameType
<1>4. f.dev \in crashed
  BY <1>2, <1>3 DEF Broken
<1>5. call'[r].st = "error" /\ job[r].pc \in {"wait", "replay", "rebuild"}
  BY <1>1, CallFailsCall, LastFrame DEF OnRoute, SoFar
<1>6. Settled(job[r], call[r]) /\ f.dev = Route[f.stage]
  BY <1>1, <1>2, TopFrame DEF Follows
<1>7. ~Repaired
  BY <1>3, <1>4, <1>6, RepairedIsAlive DEF OnRoute
<1>8. OldFrom(job[r], call[r]) = 1 /\ OldFrom(job[r], call[r])' = 1
  BY <1>1, <1>5, <1>6, <1>7 DEF OldFrom, Settled
<1>9. orphans = {} /\ AlongOld(1)
  BY <1>6, <1>7, <1>8 DEF OnRoute, RouteInv, RouteFits
<1> HIDE DEF i, f
<1>10. \A o \in orphans' : OrphanFits(o, 1)
  BY <1>1, <1>2, <1>7, <1>9, RemainderFits
<1>11. AlongOld(OldFrom(job[r], call[r]))'
  BY <1>1, <1>8, <1>9 DEF AlongOld
<1>12. \A o \in orphans' : OrphanFits(o, OldFrom(job[r], call[r]))'
  BY <1>1, <1>8, <1>10 DEF OrphanFits, Detached
<1>13. RouteFits(r, job[r], call[r])'
  BY <1>1, <1>5, <1>11, <1>12 DEF RouteFits, Settled, EvictFits
<1> QED
  BY <1>1, <1>13, RouteStep DEF OnRoute, SoFar

-----------------------------------------------------------------------------
(* The orphans, the crash and the heartbeat. *)

\* An orphan's step; what it turns into fits where the wiring is old.
LEMMA OrphanRoute ==
  ASSUME OnRoute, UNCHANGED <<crashed, dead, plan, next_hop, call, job>>, orphans # {},
         \A r \in Request : \A o \in orphans' \ orphans : OrphanFits(o, OldFrom(job[r], call[r])),
         \A r \in Request : EvictFits(r, job[r])'
  PROVE  RouteInv'
<1>1. /\ Repaired' <=> Repaired
      /\ Route' = Route
      /\ \A n : AlongOld(n)' <=> AlongOld(n)
      /\ \A o, n : OrphanFits(o, n)' <=> OrphanFits(o, n)
  BY SameRoute
<1>2. ASSUME NEW r \in Request PROVE RouteFits(r, job[r], call[r])'
  <2>1. PICK n : n = OldFrom(job[r], call[r])
    OBVIOUS
  <2>2. OldFrom(job[r], call[r])' = n
    BY <1>1, <2>1 DEF OldFrom, Settled
  <2>3. AlongOld(n) /\ (\A o \in orphans' : OrphanFits(o, n))
    BY <2>1 DEF OnRoute, RouteInv, RouteFits
  <2>4. AlongOld(OldFrom(job[r], call[r]))'
    BY <1>1, <2>2, <2>3 DEF AlongOld
  <2>5. \A o \in orphans' : OrphanFits(o, OldFrom(job[r], call[r]))'
    BY <1>1, <2>2, <2>3 DEF OrphanFits, Detached
  <2>6. Settled(job[r], call[r])' => Follows(call[r], Route)' /\ Repaired'
    BY <1>1 DEF OnRoute, RouteInv, RouteFits, Settled, Follows
  <2> QED
    BY <2>4, <2>5, <2>6 DEF RouteFits
<1> QED
  BY <1>2 DEF RouteInv, OnRoute

LEMMA OrphanRunsIs ==
  ASSUME ChainInv, NEW o \in orphans, OrphanRuns(o)
  PROVE  LET f == o.frame
             hop == next_hop[f.dev][f.stage]
             ran == [o EXCEPT
                       !.good = Advance(kv[o.req][f.dev][f.stage], o.at, o.good) # Bad,
                       !.frame = [f EXCEPT !.hop = hop, !.st = "ran"]]
         IN /\ UNCHANGED <<crashed, dead, plan, next_hop, call, job>>
            /\ f.st = "arriving" /\ f.dev \notin crashed
            /\ \A r \in Request, d \in Device :
                 ~(r = o.req /\ d = f.dev) => kv'[r][d] = kv[r][d]
            /\ orphans' = (orphans \ {o}) \cup (IF hop = NoDevice THEN {} ELSE {ran})
            /\ ran.frame.st = "ran" /\ ran.frame.dev = f.dev /\ ran.frame.stage = f.stage
            /\ ran.frame.hop = hop /\ ran.frame.open = f.open
<1>1. o \in OrphanType /\ o.frame \in FrameType /\ o.req \in Request /\ o.frame.dev \in Device
  BY DEF ChainInv, ChainTypes, OrphanType, FrameType
<1>2. [o EXCEPT !.good = Advance(kv[o.req][o.frame.dev][o.frame.stage], o.at, o.good) # Bad,
                !.frame.hop = next_hop[o.frame.dev][o.frame.stage], !.frame.st = "ran"]
      = [o EXCEPT !.good = Advance(kv[o.req][o.frame.dev][o.frame.stage], o.at, o.good) # Bad,
                  !.frame = [o.frame EXCEPT !.hop = next_hop[o.frame.dev][o.frame.stage], !.st = "ran"]]
  BY <1>1 DEF OrphanType, FrameType
<1>3. orphans' = (orphans \ {o}) \cup
        (IF next_hop[o.frame.dev][o.frame.stage] = NoDevice THEN {}
         ELSE {[o EXCEPT !.good = Advance(kv[o.req][o.frame.dev][o.frame.stage], o.at, o.good) # Bad,
                  !.frame = [o.frame EXCEPT !.hop = next_hop[o.frame.dev][o.frame.stage], !.st = "ran"]]})
  BY <1>2 DEF OrphanRuns, HopOf
<1>4. \A r \in Request, d \in Device :
        ~(r = o.req /\ d = o.frame.dev) => kv'[r][d] = kv[r][d]
  BY <1>1 DEF OrphanRuns, RunLocal, ChainInv, ChainTypes
<1>5. \A g : [o EXCEPT !.good = g,
                !.frame = [o.frame EXCEPT !.hop = next_hop[o.frame.dev][o.frame.stage], !.st = "ran"]].frame
             = [o.frame EXCEPT !.hop = next_hop[o.frame.dev][o.frame.stage], !.st = "ran"]
  BY <1>1 DEF OrphanType
<1>6. LET g == [o.frame EXCEPT !.hop = next_hop[o.frame.dev][o.frame.stage], !.st = "ran"]
      IN /\ g.st = "ran" /\ g.dev = o.frame.dev /\ g.stage = o.frame.stage
         /\ g.hop = next_hop[o.frame.dev][o.frame.stage] /\ g.open = o.frame.open
  BY <1>1 DEF FrameType
<1>7. /\ UNCHANGED <<crashed, dead, plan, next_hop, call, job>>
      /\ o.frame.st = "arriving" /\ o.frame.dev \notin crashed
  BY DEF OrphanRuns, gatewayVars
<1> QED
  BY <1>3, <1>4, <1>5, <1>6, <1>7

\* A thread that evicts or is over has no call, so its recovery is complete.
LEMMA EvictingIsSettled ==
  ASSUME OnRoute, NEW r \in Request, job[r].pc \in {"evict", "done", "failed"}
  PROVE  Settled(job[r], call[r])
  BY IdleCall DEF Settled, OnRoute, SoFar

LEMMA OrphanRunsRoute == ASSUME OnRoute, NEW o \in orphans, OrphanRuns(o) PROVE RouteInv'
<1> DEFINE f == o.frame
           hop == next_hop[f.dev][f.stage]
           ran == [o EXCEPT !.good = Advance(kv[o.req][f.dev][f.stage], o.at, o.good) # Bad,
                            !.frame = [f EXCEPT !.hop = hop, !.st = "ran"]]
<1>1. /\ UNCHANGED <<crashed, dead, plan, next_hop, call, job>>
      /\ f.st = "arriving" /\ f.dev \notin crashed
      /\ \A r \in Request, d \in Device :
           ~(r = o.req /\ d = f.dev) => kv'[r][d] = kv[r][d]
      /\ orphans' = (orphans \ {o}) \cup (IF hop = NoDevice THEN {} ELSE {ran})
      /\ ran.frame.st = "ran" /\ ran.frame.dev = f.dev /\ ran.frame.stage = f.stage
      /\ ran.frame.hop = hop /\ ran.frame.open = f.open
  BY OrphanRunsIs DEF OnRoute, SoFar
<1>2. f.stage \in Stage
  BY DEF OnRoute, SoFar, ChainInv, ChainTypes, OrphanType, FrameType
<1> HIDE DEF f, hop, ran
<1>3. ASSUME NEW r \in Request, hop # NoDevice PROVE OrphanFits(ran, OldFrom(job[r], call[r]))
  <2>1. PICK n : n = OldFrom(job[r], call[r])
    OBVIOUS
  <2>2. AlongOld(n) /\ OrphanFits(o, n)
    BY <2>1 DEF OnRoute, RouteInv, RouteFits
  <2>3. f.open => f.stage >= n /\ f.dev = Placement[f.stage] /\ hop = Succ(Placement, f.stage)
    BY <1>1, <1>2, <2>2 DEF OrphanFits, AlongOld, f, hop
  <2>4. f.open => hop = Placement[f.stage + 1]
    BY <1>3, <2>3 DEF Succ
  <2> QED
    BY <1>1, <2>1, <2>3, <2>4 DEF OrphanFits
<1>4. ASSUME NEW r \in Request PROVE EvictFits(r, job[r])'
  <2> SUFFICES ASSUME job[r].pc \in {"evict", "done", "failed"},
                      NEW d \in Device \ (dead \cup crashed),
                      job[r].pc = "evict" => d \notin job[r].todo
               PROVE  Evicted(r, d)'
    BY <1>1 DEF EvictFits
  <2>1. Evicted(r, d)
    BY DEF OnRoute, RouteInv, RouteFits, EvictFits
  <2>2. ~(r = o.req /\ d = f.dev)
    BY <1>1, <2>1 DEF Evicted, f
  <2> QED
    BY <1>1, <2>1, <2>2 DEF Evicted
<1>5. \A r \in Request : \A x \in orphans' \ orphans : OrphanFits(x, OldFrom(job[r], call[r]))
  BY <1>1, <1>3
<1> QED
  BY <1>1, <1>4, <1>5, OrphanRoute

LEMMA OrphanForwardsRoute == ASSUME OnRoute, NEW o \in orphans, OrphanForwards(o) PROVE RouteInv'
<1> DEFINE f == o.frame
           next == [o EXCEPT !.frame = Frame(f.hop, f.stage + 1), !.from = f.dev]
<1>1. /\ UNCHANGED <<crashed, dead, plan, next_hop, kv, call, job>>
      /\ f.st = "ran" /\ f.dev \notin crashed
      /\ orphans' = (orphans \ {o}) \cup (IF f.open THEN {next} ELSE {})
  BY DEF OrphanForwards, gatewayVars
<1>2. /\ f.stage \in Stage /\ f.stage \in Nat /\ (f.stage + 1) - 1 = f.stage
      /\ next.frame = Frame(f.hop, f.stage + 1) /\ next.from = f.dev
  BY Shape DEF OnRoute, SoFar, ChainInv, ChainTypes, OrphanType, FrameType, Stage
<1>3. /\ next.frame.dev = f.hop /\ next.frame.stage = f.stage + 1 /\ next.frame.st = "arriving"
  BY <1>2 DEF Frame
<1> HIDE DEF f, next
<1>4. ASSUME NEW r \in Request, f.open PROVE OrphanFits(next, OldFrom(job[r], call[r]))
  <2>1. OldFrom(job[r], call[r]) \in Nat
    BY Shape DEF OldFrom, OnRoute, SoFar, ChainInv, ChainTypes, JobType
  <2>2. PICK n \in Nat : n = OldFrom(job[r], call[r])
    BY <2>1
  <2>3. OrphanFits(o, n)
    BY <2>2 DEF OnRoute, RouteInv, RouteFits
  <2>4. f.stage >= n /\ f.dev = Placement[f.stage] /\ f.hop = Placement[f.stage + 1]
    BY <1>1, <1>4, <2>3 DEF OrphanFits, f
  <2>5. f.stage + 1 >= n /\ f.stage + 1 > n
    BY <1>2, <2>4
  <2> QED
    BY <1>2, <1>3, <2>2, <2>4, <2>5 DEF OrphanFits
<1>5. ASSUME NEW r \in Request PROVE EvictFits(r, job[r])'
  <2> SUFFICES ASSUME job[r].pc \in {"evict", "done", "failed"},
                      NEW d \in Device \ (dead \cup crashed),
                      job[r].pc = "evict" => d \notin job[r].todo
               PROVE  Evicted(r, d)'
    BY <1>1 DEF EvictFits
  <2>1. Evicted(r, d)
    BY DEF OnRoute, RouteInv, RouteFits, EvictFits
  <2>2. ~f.open
    BY <1>1, EvictingIsSettled, RepairedOrphan DEF f
  <2> QED
    BY <1>1, <2>1, <2>2 DEF Evicted
<1>6. \A r \in Request : \A x \in orphans' \ orphans : OrphanFits(x, OldFrom(job[r], call[r]))
  BY <1>1, <1>4
<1> QED
  BY <1>1, <1>5, <1>6, OrphanRoute

LEMMA OrphanVanishesRoute == ASSUME OnRoute, NEW o \in orphans, OrphanVanishes(o) PROVE RouteInv'
<1>1. UNCHANGED <<crashed, dead, plan, next_hop, kv, call, job>> /\ orphans' = orphans \ {o}
  BY DEF OrphanVanishes, gatewayVars
<1>2. \A r \in Request : EvictFits(r, job[r])'
  BY <1>1 DEF OnRoute, RouteInv, RouteFits, EvictFits, Evicted
<1> QED
  BY <1>1, <1>2, OrphanRoute

\* The only crash: the chain has not been repaired before.
LEMMA CrashRoute == ASSUME OnRoute, NEW d \in Device, Crash(d) PROVE RouteInv'
<1>1. /\ UNCHANGED <<dead, plan, next_hop, kv, orphans, call, job>>
      /\ crashed' = crashed \cup {d} /\ d \in Crashable
  BY DEF Crash, gatewayVars, workerVars
<1>2. crashed = {} /\ dead = {}
  BY FirstCrash DEF OnRoute, SoFar, FaultInv
<1>3. ~Repaired /\ ~Repaired'
  BY <1>1, <1>2 DEF Repaired
<1>4. ASSUME NEW r \in Request PROVE RouteFits(r, job[r], call[r])'
  <2>1. job[r].pc # "rewire"
    BY <1>2 DEF OnRoute, SoFar, FaultInv, FaultFits, Recovering
  <2>2. OldFrom(job[r], call[r]) = 1 /\ OldFrom(job[r], call[r])' = 1
    BY <1>1, <1>3, <2>1 DEF OldFrom
  <2>3. AlongOld(1) /\ (\A o \in orphans : OrphanFits(o, 1)) /\ EvictFits(r, job[r])
        /\ (Settled(job[r], call[r]) => Follows(call[r], Placement) /\ orphans = {})
    BY <1>3, <2>2 DEF OnRoute, RouteInv, RouteFits, Route
  <2>4. AlongOld(OldFrom(job[r], call[r]))'
    BY <1>1, <2>2, <2>3 DEF AlongOld
  <2>5. \A o \in orphans' : OrphanFits(o, OldFrom(job[r], call[r]))'
    BY <1>1, <2>2, <2>3 DEF OrphanFits, Detached
  <2>6. Settled(job[r], call[r])' => Follows(call[r], Route)' /\ (~Repaired => orphans = {})'
    BY <1>1, <1>3, <2>3 DEF Settled, Follows, Route
  <2>7. EvictFits(r, job[r])'
    BY <1>1, <2>3 DEF EvictFits, Evicted
  <2> QED
    BY <2>4, <2>5, <2>6, <2>7 DEF RouteFits
<1> QED
  BY <1>1, <1>4 DEF RouteInv, OnRoute

\* A heartbeat that takes another stage than the head out of the plan leaves the
\* worker before it wired to the dead one: the chain is not repaired by it.
LEMMA MarkKeepsRoute ==
  ASSUME OnRoute, AlongOld(1), NEW d \in crashed, d # Placement[1],
         UNCHANGED <<crashed, next_hop>>, dead' = {d}, crashed = {d},
         plan' = build_execution_plan(Placement, Recovery, dead'), Repaired'
  PROVE  plan' = Placement
<1>1. ASSUME NEW s \in Stage
      PROVE  plan'[s] = IF Placement[s] = d THEN Recovery[d] ELSE Placement[s]
  BY Shape DEF build_execution_plan, Serving
<1>2. ASSUME NEW s \in Stage, Placement[s] = d PROVE FALSE
  <2>1. s # 1 /\ s \in Nat /\ s >= 1 /\ s <= N
    BY <1>2, Shape DEF Stage
  <2>2. PICK t \in Stage : t = s - 1
    BY <2>1, Shape DEF Stage
  <2>3. t + 1 = s /\ t < N /\ t >= 1 /\ t <= N /\ t # s
    BY <2>1, <2>2, Shape DEF Stage
  <2>4. Placement[t] # d
    BY <1>2, <2>3, Shape DEF Placements
  <2>5. plan'[t] = Placement[t] /\ plan'[s] = Recovery[d] /\ Recovery[d] # d
    BY <1>1, <1>2, <2>4, Shape DEF OnRoute, SoFar, OneFault, ChainInv, ChainTypes
  <2>6. next_hop[Placement[t]][t] = plan'[s]
    BY <2>3, <2>4, <2>5 DEF Repaired, WiredTo, Succ
  <2>7. next_hop[Placement[t]][t] = Placement[s]
    BY <2>3 DEF AlongOld, Succ
  <2> QED
    BY <1>2, <2>5, <2>6, <2>7
<1>3. \A s \in Stage : plan'[s] = Placement[s]
  BY <1>1, <1>2
<1>4. plan' = [s \in Stage |-> plan'[s]]
  BY Shape DEF build_execution_plan
<1> QED
  BY <1>3, <1>4, Shape

LEMMA MarkedRoute == ASSUME OnRoute, NEW d \in Device, MarkedFromOutside(d) PROVE RouteInv'
<1>1. /\ UNCHANGED <<crashed, next_hop, kv, orphans, call, job>> /\ MarkDead(d)
      /\ d \in crashed /\ d \notin dead /\ Heartbeats
  BY DEF MarkedFromOutside, workerVars, OnRoute, SoFar, OneFault
<1>2. /\ dead' = crashed /\ crashed = {d} /\ dead = {}
      /\ plan' = build_execution_plan(Placement, Recovery, dead')
  BY <1>1, SingleMark DEF OnRoute, SoFar, FaultInv
<1>3. d # Placement[1]
  BY <1>1 DEF OnRoute, HeadStays, RouteInv
<1>4. ~Repaired
  BY <1>2 DEF Repaired
<1>5. ASSUME NEW r \in Request PROVE RouteFits(r, job[r], call[r])'
  <2>1. job[r].pc \notin {"promote", "rewire"}
    BY <1>2 DEF OnRoute, SoFar, FaultInv, FaultFits, Recovering
  <2>2. OldFrom(job[r], call[r]) = 1
    BY <1>4, <2>1 DEF OldFrom
  <2>3. AlongOld(1) /\ (\A o \in orphans : OrphanFits(o, 1)) /\ EvictFits(r, job[r])
        /\ (Settled(job[r], call[r]) => Follows(call[r], Placement) /\ orphans = {})
    BY <1>4, <2>2 DEF OnRoute, RouteInv, RouteFits, Route
  <2>4. EvictFits(r, job[r])'
    BY <1>1, <1>2, <2>3 DEF EvictFits, Evicted
  <2>5. Route' = Placement
    BY <1>1, <1>2, <1>3, <2>3, MarkKeepsRoute DEF Route
  <2>6. Settled(job[r], call[r])' => Follows(call[r], Route)' /\ orphans' = {}
    BY <1>1, <2>3, <2>5 DEF Settled, Follows
  <2>7. CASE Settled(job[r], call[r]) /\ Repaired'
    <3>1. OldFrom(job[r], call[r])' = N + 1
      BY <1>1, <2>1, <2>7 DEF OldFrom, Settled
    <3>2. \A s \in Stage : ~(s >= N + 1)
      BY Shape DEF Stage
    <3>3. AlongOld(OldFrom(job[r], call[r]))'
      BY <3>1, <3>2 DEF AlongOld
    <3> QED
      BY <1>1, <2>3, <2>4, <2>6, <2>7, <3>3 DEF RouteFits
  <2>8. CASE ~(Settled(job[r], call[r]) /\ Repaired')
    <3>1. OldFrom(job[r], call[r])' = 1
      BY <1>1, <2>1, <2>8 DEF OldFrom, Settled
    <3>2. AlongOld(OldFrom(job[r], call[r]))'
      BY <1>1, <2>3, <3>1 DEF AlongOld
    <3>3. \A o \in orphans' : OrphanFits(o, OldFrom(job[r], call[r]))'
      BY <1>1, <2>3, <3>1 DEF OrphanFits, Detached
    <3> QED
      BY <2>4, <2>6, <3>2, <3>3 DEF RouteFits
  <2> QED
    BY <2>7, <2>8
<1> QED
  BY <1>1, <1>5 DEF RouteInv, OnRoute

LEMMA NextRoute == OnRoute /\ [Next]_vars => RouteInv'
<1> SUFFICES ASSUME OnRoute, [Next]_vars PROVE RouteInv'
  OBVIOUS
<1>1. ASSUME NEW r \in Request, Gateway(r) PROVE RouteInv'
  <2>1. CASE Replay(r)
    BY <2>1, ReplayInvokes, RecoveryCallRoute DEF Replay, Fed, OnRoute, SoFar, workerVars
  <2>2. CASE Rebuild(r)
    BY <2>2, RebuildInvokes, RecoveryCallRoute DEF Rebuild, Fed, OnRoute, SoFar, workerVars
  <2> QED
    BY <1>1, <2>1, <2>2, StepRoute, StepDoneRoute, StepFailedRoute, PromoteRoute, RewireRoute,
       EvictRoute, RecoveryAnswerRoute DEF Gateway
<1>2. ASSUME NEW r \in Request, Chain(r) PROVE RouteInv'
  BY <1>2, RunStageRoute, ForwardRoute, ReturnRoute, CallFailsRoute DEF Chain
<1>3. CASE UNCHANGED <<dead, crashed, plan, next_hop, kv, orphans, call, job>>
  BY <1>3 DEF OnRoute, RouteInv, RouteFits, AlongOld, OldFrom, Settled, Repaired, WiredTo, Route,
     Follows, OrphanFits, Detached, EvictFits, Evicted
<1>4. CASE Orphan
  BY <1>4, OrphanRunsRoute, OrphanForwardsRoute, OrphanVanishesRoute DEF Orphan
<1>5. ASSUME NEW m \in mirrors, DeliverMirror(m) PROVE RouteInv'
  BY <1>3, <1>5 DEF DeliverMirror
<1>6. CASE Finished \/ UNCHANGED vars
  BY <1>3, <1>6 DEF Finished, vars
<1> QED
  BY <1>1, <1>2, <1>4, <1>5, <1>6, CrashRoute, MarkedRoute DEF Next

LEMMA RouteHolds ==
  ASSUME OneFault, HeadStays
  PROVE  Spec => [](ChainInv /\ BlameInv /\ FaultInv /\ RouteInv)
<1>1. Init => ChainInv /\ BlameInv /\ FaultInv /\ RouteInv
  BY InitType, InitBlame, InitFault, InitRoute
<1>2. ChainInv /\ BlameInv /\ FaultInv /\ RouteInv /\ [Next]_vars
      => ChainInv' /\ BlameInv' /\ FaultInv' /\ RouteInv'
  BY NextType, NextBlame, NextFault, NextRoute DEF OnRoute, SoFar, OneFault
<1> QED
  BY <1>1, <1>2, PTL DEF Spec

\* A request that is over leaves no KV cache on a worker in service: the evict
\* loop of generate()'s finally clears what the request holds, and no handler of
\* a call the crash broke off is left to run afterwards and fill it again, since
\* the rewiring has closed the channels such handlers forward on and EvictRequest
\* drops those that have not started.
THEOREM NothingIsLeftBehind ==
  ASSUME OneFault, HeadStays
  PROVE  Spec => []EndedRequestsHoldNoKV
<1>1. RouteInv => EndedRequestsHoldNoKV
  BY DEF RouteInv, RouteFits, EvictFits, Evicted, EndedRequestsHoldNoKV, Ended
<1> QED
  BY <1>1, RouteHolds, PTL

(***************************************************************************)
(* A recovery gives back the tokens of an undisturbed run.  Until the      *)
(* failure every stage of the route holds one position more than the one   *)
(* being fed once the call has been through it.  A full replay feeds all   *)
(* positions again, the first of which starts every cache anew, with no    *)
(* handler of the failed call left to run.  A surgical recovery of the     *)
(* tail feeds its backup alone, with the inputs mirrored to the gateway.   *)
(***************************************************************************)
OnToken == OnRoute /\ OnlyTailCrashes /\ TokenInv /\ SurgeryInv

LEMMA TokenStep ==
  ASSUME OnToken, NEW r \in Request, TokenFits(r, job[r], call[r])' PROVE TokenInv'
  BY DEF OnToken, OnRoute, SoFar, OneFault, OneRequest, TokenInv

\* The right input of the next position extends a cache of the ones before, and
\* that of the first one starts a cache.
LEMMA AdvanceGood ==
  ASSUME NEW len, NEW p \in Position, NEW good \in BOOLEAN, good, p = 0 \/ len = p
  PROVE  Advance(len, p, good) = p + 1 /\ Advance(len, p, good) # Bad
<1>1. p \in Nat /\ p < MaxTokens /\ MaxTokens \in Nat
  BY Shape DEF Position
<1>2. Advance(len, p, good) = p + 1
  BY <1>1 DEF Advance
<1>3. p + 1 # Bad
  BY <1>1 DEF Bad
<1> QED
  BY <1>2, <1>3

LEMMA SameHeld ==
  ASSUME UNCHANGED <<crashed, dead, plan, next_hop, kv>>
  PROVE  \A r, s : Held(r, s)' = Held(r, s)
  BY SameRoute DEF Held

\* Caches that are left alone are as ready as they were.
LEMMA SameReady ==
  ASSUME \A r, s : Held(r, s)' = Held(r, s)
  PROVE  \A r, s, n : Ready(r, s, n)' <=> Ready(r, s, n)
  BY DEF Ready

LEMMA InitToken == Init => TokenInv
<1> SUFFICES ASSUME Init, NEW r \in Request PROVE TokenFits(r, job[r], call[r])
  BY DEF TokenInv
<1>1. /\ job[r].pc = "step" /\ job[r].pos = 0 /\ ~job[r].wrong
      /\ call[r].st = "idle" /\ orphans = {}
  BY DEF Init, NoCall
<1> QED
  BY <1>1 DEF TokenFits, Past, Feeding, Ready, Settled

\* The thread feeds a position to the head of the route.
LEMMA FedToken ==
  ASSUME OnToken, NEW r \in Request, NEW d,
         UNCHANGED <<crashed, dead, plan, next_hop, kv, orphans>>,
         job[r].pc \in {"step", "replay"}, call[r].st = "idle",
         job'[r].pc = IF job[r].pc = "step" THEN "wait" ELSE "replay",
         ~job'[r].wrong, Feeding(job'[r]) = Feeding(job[r]),
         call'[r].st = "running", call'[r].frames = <<Frame(d, 1)>>,
         call'[r].live, call'[r].good, call'[r].at = Feeding(job[r])
  PROVE  TokenInv'
<1>1. Settled(job[r], call[r])
  BY DEF Settled
<1>2. /\ \A s \in Stage : Ready(r, s, Feeding(job[r]))
      /\ \A o \in orphans : o.frame.st = "arriving" => o.frame.dev \in crashed
  BY <1>1 DEF OnToken, TokenInv, TokenFits
<1>3. /\ Len(call'[r].frames) = 1 /\ call'[r].frames[1].stage = 1
      /\ call'[r].frames[1].st = "arriving"
  BY DEF Frame
<1>4. \A s \in Stage : ~Ran(call'[r], s)
  BY <1>3, Shape DEF Ran, Stage
<1>5. \A s, n : Ready(r, s, n)' <=> Ready(r, s, n)
  BY SameHeld, SameReady
<1>6. job'[r].pc \in {"wait", "replay"}
  OBVIOUS
<1>7. TokenFits(r, job[r], call[r])'
  BY <1>2, <1>3, <1>4, <1>5, <1>6 DEF TokenFits, Past, Feeding, Ran
<1> QED
  BY <1>7, TokenStep

LEMMA StepToken == ASSUME OnToken, NEW r \in Request, Step(r) PROVE TokenInv'
<1>1. ChainInv /\ job[r] \in JobType /\ job[r].pc = "step" /\ call[r].st = "idle"
  BY IdleCall DEF Step, OnToken, OnRoute, SoFar, ChainInv, ChainTypes
<1>2. call'[r] = [NoCall EXCEPT !.st = "running", !.live = TRUE, !.at = job[r].pos,
                                !.good = TRUE, !.head = plan[1], !.plan = plan,
                                !.frames = <<Frame(plan[1], 1)>>]
  BY <1>1 DEF Step, Invoke, ChainInv, ChainTypes
<1>3. /\ call'[r].st = "running" /\ call'[r].frames = <<Frame(plan[1], 1)>>
      /\ call'[r].live /\ call'[r].good /\ call'[r].at = job[r].pos
  BY <1>2, NoCallIsTyped DEF CallType
<1>4. job'[r] = [job[r] EXCEPT !.pc = "wait"]
  BY <1>1 DEF Step, ChainInv, ChainTypes
<1>5. job'[r].pc = "wait" /\ job'[r].pos = job[r].pos /\ job'[r].wrong = job[r].wrong
  BY <1>1, <1>4 DEF JobType
<1>6. UNCHANGED <<crashed, dead, plan, next_hop, kv, orphans>>
  BY DEF Step, workerVars
<1>7. ~job[r].wrong
  BY DEF OnToken, TokenInv, TokenFits
<1> QED
  BY <1>1, <1>3, <1>5, <1>6, <1>7, FedToken DEF Feeding

LEMMA ReplayToken == ASSUME OnToken, NEW r \in Request, Replay(r) PROVE TokenInv'
<1> DEFINE d == job'[r].dev
<1>1. ChainInv /\ job[r] \in JobType /\ job[r].pc = "replay" /\ call[r].st = "idle"
  BY DEF Replay, OnToken, OnRoute, SoFar, ChainInv, ChainTypes
<1>2. call'[r] = [NoCall EXCEPT !.st = "running", !.live = TRUE, !.at = job[r].k,
                                !.good = TRUE, !.head = d, !.plan = plan,
                                !.frames = <<Frame(d, 1)>>]
  BY <1>1 DEF Replay, Invoke, ChainInv, ChainTypes
<1>3. /\ call'[r].st = "running" /\ call'[r].frames = <<Frame(d, 1)>>
      /\ call'[r].live /\ call'[r].good /\ call'[r].at = job[r].k
  BY <1>2, NoCallIsTyped DEF CallType
<1>4. job'[r] = [job[r] EXCEPT !.dev = IF job[r].k = 0 THEN plan[1] ELSE @]
  BY <1>1 DEF Replay, ChainInv, ChainTypes
<1>5. job'[r].pc = "replay" /\ job'[r].k = job[r].k /\ job'[r].wrong = job[r].wrong
  BY <1>1, <1>4 DEF JobType
<1>6. UNCHANGED <<crashed, dead, plan, next_hop, kv, orphans>>
  BY DEF Replay, workerVars, gatewayVars
<1>7. ~job[r].wrong
  BY DEF OnToken, TokenInv, TokenFits
<1> QED
  BY <1>1, <1>3, <1>5, <1>6, <1>7, FedToken DEF Feeding

\* An answer for the newest position is its token, and a right one.
LEMMA AnswerToken ==
  ASSUME OnToken, NEW r \in Request,
         UNCHANGED <<crashed, dead, plan, next_hop, kv, orphans>>,
         job[r].pc \in {"wait", "replay", "rebuild"}, Feeding(job[r]) = job[r].pos,
         job[r] \in JobType, JobFits(job[r]), ~Past(job[r]), call[r].good \in BOOLEAN,
         call[r].st = "ok", call'[r] = NoCall, job'[r] = Emit(job[r], call[r].good)
  PROVE  TokenInv'
<1>1. Settled(job[r], call[r]) /\ call'[r].st = "idle"
  BY DEF Settled, NoCall
<1>2. /\ ~job[r].wrong /\ call[r].good
      /\ \A s \in Stage : Held(r, s) = job[r].pos + 1
      /\ \A o \in orphans : o.frame.st = "arriving" => o.frame.dev \in crashed
  BY <1>1 DEF OnToken, TokenInv, TokenFits, Through
<1>3. \A s \in Stage : Held(r, s)' = Held(r, s)
  BY SameHeld
<1>4. /\ ~job'[r].wrong
      /\ \/ job'[r].pc = "step" /\ job'[r].pos = job[r].pos + 1
         \/ job'[r].pc = "evict" /\ job'[r].then = "done" /\ job'[r].out = MaxTokens
  <2> DEFINE j == job[r]
             good == call[r].good
  <2>1. j \in JobType /\ JobFits(j) /\ ~Past(j) /\ good \in BOOLEAN /\ ~(j.wrong \/ ~good)
    BY <1>2
  <2> HIDE DEF j, good
  <2>2. LET e == Emit(j, good)
        IN /\ ~e.wrong
           /\ \/ e.pc = "step" /\ e.pos = j.pos + 1
              \/ e.pc = "evict" /\ e.then = "done" /\ e.out = MaxTokens
    BY <2>1, EmitIs
  <2> QED
    BY <2>2 DEF j, good
<1>5. TokenFits(r, job[r], call[r])'
  BY <1>1, <1>2, <1>3, <1>4 DEF TokenFits, Past, Feeding, Ready
<1> QED
  BY <1>5, TokenStep

LEMMA StepDoneToken == ASSUME OnToken, NEW r \in Request, StepDone(r) PROVE TokenInv'
<1>1. ChainInv
  BY DEF OnToken, OnRoute, SoFar
<1> QED
  BY <1>1, StepDoneIs, AnswerToken DEF Feeding

LEMMA RecoveryAnswerToken == ASSUME OnToken, NEW r \in Request, RecoveryAnswer(r) PROVE TokenInv'
<1>1. /\ job[r].pc \in {"replay", "rebuild"} /\ call[r].st = "ok" /\ ~Past(job[r])
      /\ job[r] \in JobType /\ JobFits(job[r]) /\ call[r].good \in BOOLEAN
      /\ call'[r] = NoCall
      /\ UNCHANGED <<crashed, dead, plan, next_hop, orphans, kv>>
      /\ \/ job[r].k < job[r].pos /\ job'[r] = [job[r] EXCEPT !.k = @ + 1]
         \/ job[r].k = job[r].pos /\ job'[r] = Emit(job[r], call[r].good)
  BY RecoveryAnswerIs DEF OnToken, OnRoute, TokenInv, TokenFits
<1>2. CASE job[r].k = job[r].pos /\ job'[r] = Emit(job[r], call[r].good)
  BY <1>1, <1>2, AnswerToken DEF Feeding
<1>3. CASE job'[r] = [job[r] EXCEPT !.k = @ + 1]
  <2>1. job'[r].pc = job[r].pc /\ job'[r].k = job[r].k + 1 /\ job'[r].wrong = job[r].wrong
    BY <1>1, <1>3 DEF JobType
  <2>2. Settled(job[r], call[r]) /\ call'[r].st = "idle"
    BY <1>1 DEF Settled, NoCall
  <2>3. /\ ~job[r].wrong /\ (job[r].pc = "rebuild" => Mode = "surgical")
        /\ job[r].pc = "replay" => \A s \in Stage : Held(r, s) = job[r].k + 1
        /\ \A o \in orphans : o.frame.st = "arriving" => o.frame.dev \in crashed
    BY <1>1, <2>2 DEF OnToken, TokenInv, TokenFits, Feeding, Through
  <2>4. \A s \in Stage : Held(r, s)' = Held(r, s)
    BY <1>1, SameHeld
  <2>5. TokenFits(r, job[r], call[r])'
    BY <1>1, <2>1, <2>2, <2>3, <2>4 DEF TokenFits, Past, Feeding, Ready
  <2> QED
    BY <2>5, TokenStep
<1> QED
  BY <1>1, <1>2, <1>3

\* From the failure to the recovery's calls nothing is asked of the caches.
LEMMA QuietToken ==
  ASSUME OnToken, NEW r \in Request, job'[r].wrong = job[r].wrong,
         \/ call'[r].st = "idle" /\ job'[r].pc \in {"promote", "rewire"}
         \/ call'[r].st = "idle" /\ job'[r].pc = "evict" /\ job'[r].then = "replay"
         \/ /\ call'[r].st = "idle" /\ job'[r].pc = "rebuild"
            /\ Mode = "surgical" /\ orphans' = {}
         \/ call'[r].st = "error" /\ job'[r].pc = "wait"
  PROVE  TokenInv'
<1>1. ~job[r].wrong
  BY DEF OnToken, TokenInv, TokenFits
<1>2. TokenFits(r, job[r], call[r])'
  BY <1>1 DEF TokenFits, Past, Settled
<1> QED
  BY <1>2, TokenStep

LEMMA StepFailedToken == ASSUME OnToken, NEW r \in Request, StepFailed(r) PROVE TokenInv'
<1>1. /\ call'[r] = NoCall /\ job[r] \in JobType
      /\ job'[r] = [job[r] EXCEPT !.pc = "promote", !.stage = DeadStage(r), !.dev = DeadDevice(r)]
  BY StepFailedJob DEF OnToken, OnRoute, SoFar, ChainInv, ChainTypes
<1>2. call'[r].st = "idle" /\ job'[r].pc = "promote" /\ job'[r].wrong = job[r].wrong
  BY <1>1 DEF NoCall, JobType
<1> QED
  BY <1>2, QuietToken

LEMMA PromoteToken == ASSUME OnToken, NEW r \in Request, Promote(r) PROVE TokenInv'
<1>1. /\ call'[r] = call[r] /\ job[r] \in JobType /\ job[r].pc = "promote"
      /\ job'[r] = [job[r] EXCEPT !.pc = "rewire", !.k = 1, !.rplan = plan]
  BY PromoteJob DEF OnToken, OnRoute, SoFar, ChainInv, ChainTypes
<1>2. call'[r].st = "idle" /\ job'[r].pc = "rewire" /\ job'[r].wrong = job[r].wrong
  BY <1>1, IdleCall DEF JobType, OnToken, OnRoute, SoFar
<1> QED
  BY <1>2, QuietToken

\* Closing a channel makes no handlers.
LEMMA RewireOrphans ==
  ASSUME NEW r \in Request, Rewire(r), orphans = {} PROVE orphans' = {}
  BY DEF Rewire, CloseChannel

\* A surgical recovery starts with no handler of the failed call left to run.
LEMMA RewireToken == ASSUME OnToken, NEW r \in Request, Rewire(r) PROVE TokenInv'
<1> DEFINE next == [job[r] EXCEPT !.k = job[r].k + 1]
           build == [job[r] EXCEPT !.pc = "rebuild", !.k = 0]
           evict == StartEvict([job[r] EXCEPT !.k = 0], "replay")
<1>1. job[r] \in JobType /\ job[r].pc = "rewire" /\ call'[r].st = "idle"
  BY IdleRewired DEF Rewire, OnToken, OnRoute, SoFar, ChainInv, ChainTypes
<1>2. AfterRewire(r) = evict \/ (AfterRewire(r) = build /\ Mode = "surgical")
  BY DEF AfterRewire
<1>3. job'[r] = next \/ job'[r] = evict \/ (job'[r] = build /\ Mode = "surgical")
  BY <1>2 DEF Rewire, OnToken, OnRoute, SoFar, ChainInv, ChainTypes
<1>4. /\ next.pc = "rewire" /\ next.wrong = job[r].wrong
      /\ build.pc = "rebuild" /\ build.wrong = job[r].wrong
      /\ evict.pc = "evict" /\ evict.then = "replay" /\ evict.wrong = job[r].wrong
  BY <1>1 DEF JobType, StartEvict
<1>5. Mode = "surgical" => orphans' = {}
  BY RewireOrphans DEF OnToken, SurgeryInv
<1> HIDE DEF next, build, evict
<1> QED
  BY <1>1, <1>3, <1>4, <1>5, QuietToken

\* A call that fails meets the crashed worker, and is a step's, not a recovery's.
LEMMA FailsWaiting ==
  ASSUME SoFar, NEW r \in Request, CallFails(r)
  PROVE  LET i == Min(Broken(r))
             f == call[r].frames[i]
         IN /\ job[r].pc = "wait" /\ Running(r)
            /\ i \in 1..Top(r) /\ f \in FrameType /\ f.dev \in crashed
<1> DEFINE i == Min(Broken(r))
           f == call[r].frames[i]
<1>1. Running(r) /\ Broken(r) # {}
  BY DEF CallFails
<1>2. i \in Broken(r) /\ i \in 1..Top(r) /\ f \in FrameType /\ i \in DOMAIN call[r].frames
  BY <1>1, FirstBroken, LastFrame DEF SoFar
<1>3. f.dev \in crashed
  BY <1>2 DEF Broken, SoFar, BlameInv, BlameFits
<1>4. f.stage \in Stage
  BY <1>2 DEF FrameType
<1>5. ~Replaying(job[r])
  <2> SUFFICES ASSUME Replaying(job[r]) PROVE FALSE
    OBVIOUS
  <2>1. f.dev = plan[f.stage] /\ dead = crashed
    BY <1>1, <1>2 DEF SoFar, FaultInv, FaultFits, FollowsPlan, Running, Recovering, Replaying
  <2> QED
    BY <1>3, <1>4, <2>1, PlanIsAlive DEF SoFar
<1> QED
  BY <1>1, <1>2, <1>3, <1>5, LastFrame DEF SoFar, Replaying

LEMMA CallFailsToken == ASSUME OnToken, NEW r \in Request, CallFails(r) PROVE TokenInv'
<1>1. call'[r].st = "error" /\ job' = job /\ job[r].pc = "wait"
  BY CallFailsCall, FailsWaiting DEF CallFails, OnToken, OnRoute, SoFar
<1> QED
  BY <1>1, QuietToken

\* The last eviction leaves nobody to fill the caches but the replay.
LEMMA EvictToken == ASSUME OnToken, NEW r \in Request, Evict(r) PROVE TokenInv'
<1>1. /\ UNCHANGED <<crashed, dead, plan, next_hop, call>> /\ job[r].pc = "evict"
      /\ job[r] \in JobType /\ call[r].st = "idle" /\ SoFar
  BY IdleCall DEF Evict, OnToken, OnRoute, SoFar, ChainInv, ChainTypes
<1>2. PICK d \in job[r].todo :
        /\ d = CHOOSE x \in job[r].todo : TRUE
        /\ job'[r].todo = job[r].todo \ {d}
        /\ job'[r].pc = IF job[r].todo = {d} THEN job[r].then ELSE "evict"
        /\ job'[r].then = job[r].then /\ job'[r].k = job[r].k
  BY <1>1, EvictJob DEF SoFar
<1>3. job'[r] = [job[r] EXCEPT !.todo = @ \ {d},
                               !.pc = IF job[r].todo = {d} THEN job[r].then ELSE @]
  BY <1>1, <1>2 DEF Evict, SoFar, ChainInv, ChainTypes
<1>4. job'[r].wrong = job[r].wrong /\ job'[r].out = job[r].out
  BY <1>1, <1>3 DEF JobType
<1>5. /\ ~job[r].wrong /\ job[r].then \in {"done", "replay"}
      /\ job[r].then = "done" => job[r].out = MaxTokens
  BY <1>1 DEF OnToken, TokenInv, TokenFits, Past
<1>6. CASE job'[r].pc # "replay"
  <2>1. job'[r].pc \in {"evict", "done"} /\ (job'[r].pc = "done" => job[r].then = "done")
    BY <1>2, <1>5, <1>6
  <2>2. TokenFits(r, job[r], call[r])'
    BY <1>1, <1>2, <1>4, <1>5, <2>1 DEF TokenFits, Past
  <2> QED
    BY <2>2, TokenStep
<1>7. CASE job'[r].pc = "replay"
  <2>1. job[r].then = "replay" /\ job'[r].todo = {}
    BY <1>2, <1>7
  <2>2. job[r].k = 0
    BY <1>1, <2>1 DEF SoFar, BlameInv, RecoveryFits
  <2>3. dead = crashed /\ Route = plan /\ \A s \in Stage : plan[s] \notin crashed
    BY <1>1, <2>1, ReplayingIsRepaired, RepairedIsAlive DEF Replaying
  <2>4. \A e \in Device \ crashed : Evicted(r, e)'
    BY <2>1, <2>3, EvictClears DEF OnToken
  <2>6. ASSUME NEW o \in orphans', o.frame.st = "arriving" PROVE o.frame.dev \in crashed'
    <3>1. o.req = r /\ o.frame.dev \in Device
      BY <1>1, EvictType DEF SoFar, OneFault, OneRequest, ChainInv, ChainTypes, OrphanType, FrameType
    <3> QED
      BY <1>1, <2>4, <2>6, <3>1 DEF Evicted
  <2>7. TokenFits(r, job[r], call[r])'
    BY <1>1, <1>2, <1>4, <1>5, <1>7, <2>2, <2>6 DEF TokenFits, Past, Feeding, Ready
  <2> QED
    BY <2>7, TokenStep
<1> QED
  BY <1>6, <1>7

\* What TokenInv says of a running call.
LEMMA RunningToken ==
  ASSUME OnToken, NEW r \in Request, Running(r)
  PROVE  LET f == call[r].frames[Top(r)]
         IN /\ ~job[r].wrong /\ job[r].pc \in {"wait", "replay", "rebuild"}
            /\ job[r].pc = "rebuild" => Mode = "surgical"
            /\ Settled(job[r], call[r])
            /\ call[r].good /\ call[r].at = Feeding(job[r]) /\ call[r].at \in Position
            /\ IF job[r].pc = "rebuild" THEN Top(r) = 1 /\ call[r].frames[1].stage = N
               ELSE call[r].live /\ call[r].frames[1].stage = 1
            /\ \A s \in Stage : IF Ran(call[r], s) THEN Held(r, s) = Through(job[r], s)
                                ELSE Ready(r, s, call[r].at)
            /\ f.st = "done" => f.stage = N
            /\ \A o \in orphans : o.frame.st = "arriving" => o.frame.dev \in crashed
<1>1. job[r].pc \in {"wait", "replay", "rebuild"} /\ Settled(job[r], call[r])
  BY LastFrame, TopFrame DEF OnToken, OnRoute, SoFar, TokenInv, TokenFits
<1>2. call[r].at \in Position
  BY DEF OnToken, OnRoute, SoFar, ChainInv, ChainTypes, CallType
<1> QED
  BY <1>1, <1>2 DEF OnToken, TokenInv, TokenFits, Running, Top

\* A step of a running call.
LEMMA CallToken ==
  ASSUME OnToken, NEW r \in Request, Running(r),
         UNCHANGED <<crashed, dead, plan, next_hop, orphans, job>>,
         call'[r].good, call'[r].at = call[r].at,
         \/ /\ call'[r].st = "ok"
            /\ \A s \in Stage : Held(r, s)' = Through(job[r], s)
         \/ /\ call'[r].st = "running"
            /\ IF job[r].pc = "rebuild"
               THEN Len(call'[r].frames) = 1 /\ call'[r].frames[1].stage = N
               ELSE call'[r].live /\ call'[r].frames[1].stage = 1
            /\ \A s \in Stage : IF Ran(call'[r], s) THEN Held(r, s)' = Through(job[r], s)
                                ELSE Ready(r, s, call[r].at)'
            /\ LET g == call'[r].frames[Len(call'[r].frames)]
               IN g.st = "done" => g.stage = N
  PROVE  TokenInv'
<1>1. /\ ~job[r].wrong /\ job[r].pc \in {"wait", "replay", "rebuild"}
      /\ job[r].pc = "rebuild" => Mode = "surgical"
      /\ call[r].at = Feeding(job[r])
      /\ \A o \in orphans : o.frame.st = "arriving" => o.frame.dev \in crashed
  BY RunningToken
<1>2. \A s : Ran(call[r], s)' <=> Ran(call'[r], s)
  BY DEF Ran
<1>3. CASE call'[r].st = "ok"
  <2>1. TokenFits(r, job[r], call[r])'
    BY <1>1, <1>3 DEF TokenFits, Past, Feeding, Through
  <2> QED
    BY <2>1, TokenStep
<1>4. CASE call'[r].st = "running"
  <2>1. TokenFits(r, job[r], call[r])'
    BY <1>1, <1>2, <1>4 DEF TokenFits, Past, Feeding, Through, Ready
  <2> QED
    BY <2>1, TokenStep
<1> QED
  BY <1>3, <1>4

\* A handler adds the position to a cache that ends just before it.
LEMMA RunStageToken == ASSUME OnToken, NEW r \in Request, RunStage(r) PROVE TokenInv'
<1> DEFINE f == Last(call[r].frames)
           g == call'[r].frames[Top(r)]
           at == call[r].at
<1>1. /\ Running(r) /\ f.st = "arriving"
      /\ UNCHANGED <<crashed, dead, plan, next_hop, orphans, job>>
      /\ call'[r].st = "running" /\ DOMAIN call'[r].frames = 1..Top(r)
      /\ \A i \in 1..Top(r) : i # Top(r) => call'[r].frames[i] = call[r].frames[i]
      /\ g.stage = f.stage /\ g.st # "arriving"
      /\ g.st = "done" /\ call[r].live => f.stage = N
  BY RunStageIs DEF OnToken
<1>2. /\ f = call[r].frames[Top(r)] /\ f.dev = Route[f.stage] /\ f.stage \in Stage
      /\ Top(r) \in Nat /\ Top(r) \in 1..Top(r)
  BY <1>1, TopFrame DEF OnToken
<1>3. /\ call[r].good /\ at \in Position /\ at = Feeding(job[r])
      /\ IF job[r].pc = "rebuild" THEN Top(r) = 1 /\ call[r].frames[1].stage = N
         ELSE call[r].live /\ call[r].frames[1].stage = 1
      /\ \A s \in Stage : IF Ran(call[r], s) THEN Held(r, s) = Through(job[r], s)
                          ELSE Ready(r, s, at)
  BY <1>1, RunningToken
<1>4. /\ call'[r] \in CallType /\ call'[r].at = at /\ call'[r].live = call[r].live
      /\ call'[r].good = (Advance(kv[r][f.dev][f.stage], at, call[r].good) # Bad)
  BY RunStageCall DEF OnToken, OnRoute, SoFar
<1>5. Len(call'[r].frames) = Top(r)
  BY <1>1, <1>2, <1>4 DEF CallType
<1>6. kv' = [kv EXCEPT ![r][f.dev][f.stage] = Advance(kv[r][f.dev][f.stage], at, call[r].good)]
  BY DEF RunStage, RunLocal
<1>7. kv \in [Request -> [Device -> [Stage -> KVType]]] /\ Route \in [Stage -> Device]
      /\ call[r].good \in BOOLEAN
  BY RouteType DEF OnToken, OnRoute, SoFar, ChainInv, ChainTypes, CallType
<1>8. \A s \in Stage : s \in Nat
  BY Shape DEF Stage
<1>9. Route' = Route
  BY <1>1, SameRoute
<1> HIDE DEF f, g, at
<1>10. /\ \A s \in Stage : Ran(call[r], s) <=> s < f.stage
       /\ \A s \in Stage : Ran(call'[r], s) <=> (s < f.stage \/ s = f.stage)
  BY <1>1, <1>2, <1>5 DEF Ran, g, Top
<1>11. at = 0 \/ kv[r][f.dev][f.stage] = at
  BY <1>2, <1>3, <1>8, <1>10 DEF Held, Ready
<1>12. /\ Advance(kv[r][f.dev][f.stage], at, call[r].good) = at + 1
       /\ Advance(kv[r][f.dev][f.stage], at, call[r].good) # Bad
  BY <1>3, <1>7, <1>11, AdvanceGood
<1>16. at + 1 = Through(job[r], f.stage)
  <2>1. job[r].pc = "rebuild" => f.stage = N
    BY <1>2, <1>3
  <2>2. ~(N < N)
    BY Shape
  <2> QED
    BY <1>3, <2>1, <2>2 DEF Through
<1>13. ASSUME NEW s \in Stage
       PROVE  IF Ran(call'[r], s) THEN Held(r, s)' = Through(job[r], s) ELSE Ready(r, s, at)'
  <2>1. Held(r, s)' = kv'[r][Route[s]][s]
    BY <1>9 DEF Held
  <2>2. CASE s = f.stage
    <3>1. kv'[r][f.dev][f.stage] = at + 1
      BY <1>2, <1>6, <1>7, <1>12
    <3> QED
      BY <1>2, <1>10, <1>16, <2>1, <2>2, <3>1
  <2>3. CASE s # f.stage
    <3>1. kv'[r][Route[s]][s] = kv[r][Route[s]][s]
      <4>1. Route[s] \in Device /\ f.dev \in Device
        BY <1>2, <1>7
      <4>2. \A v : [kv EXCEPT ![r][f.dev][f.stage] = v][r][Route[s]][s] = kv[r][Route[s]][s]
        BY <1>2, <1>7, <2>3, <4>1
      <4> QED
        BY <1>6, <4>2
    <3>2. Ran(call'[r], s) <=> Ran(call[r], s)
      BY <1>10, <2>3
    <3>3. Held(r, s)' = Held(r, s)
      BY <2>1, <3>1 DEF Held
    <3> QED
      BY <1>3, <1>4, <3>2, <3>3 DEF Ready, at
  <2> QED
    BY <2>2, <2>3
<1>14. call'[r].good
  BY <1>3, <1>4, <1>12
<1>15. IF job[r].pc = "rebuild" THEN Len(call'[r].frames) = 1 /\ call'[r].frames[1].stage = N
       ELSE call'[r].live /\ call'[r].frames[1].stage = 1
  <2>1. 1 \in 1..Top(r)
    BY <1>2
  <2>2. call'[r].frames[1].stage = call[r].frames[1].stage
    BY <1>1, <1>2, <2>1 DEF g
  <2> QED
    BY <1>3, <1>4, <1>5, <2>2
<1>17. g.st = "done" => g.stage = N
  BY <1>1, <1>2, <1>3 DEF g
<1> QED
  BY <1>1, <1>3, <1>4, <1>5, <1>13, <1>14, <1>15, <1>17, CallToken DEF g, at

LEMMA ForwardToken == ASSUME OnToken, NEW r \in Request, Forward(r) PROVE TokenInv'
<1> DEFINE f == Last(call[r].frames)
           g == call'[r].frames[Top(r)]
           n == call'[r].frames[Top(r) + 1]
<1>1. /\ UNCHANGED <<crashed, dead, plan, next_hop, orphans, job, kv>> /\ Running(r)
      /\ f.st = "ran"
  BY DEF Forward, gatewayVars, workerVars
<1>2. /\ call'[r].st = "running" /\ call'[r] \in CallType
      /\ DOMAIN call'[r].frames = 1..(Top(r) + 1)
      /\ \A i \in 1..Top(r) : i # Top(r) => call'[r].frames[i] = call[r].frames[i]
      /\ g.stage = f.stage /\ n = Frame(f.hop, f.stage + 1)
      /\ call'[r].at = call[r].at /\ call'[r].live = call[r].live /\ call'[r].good = call[r].good
  BY ForwardCall DEF OnToken, OnRoute, SoFar
<1>3. /\ f = call[r].frames[Top(r)] /\ f.stage \in Stage /\ Top(r) \in Nat /\ Top(r) \in 1..Top(r)
  BY <1>1, TopFrame DEF OnToken
<1>4. /\ call[r].good
      /\ IF job[r].pc = "rebuild" THEN Top(r) = 1 /\ call[r].frames[1].stage = N
         ELSE call[r].live /\ call[r].frames[1].stage = 1
      /\ \A s \in Stage : IF Ran(call[r], s) THEN Held(r, s) = Through(job[r], s)
                          ELSE Ready(r, s, call[r].at)
  BY <1>1, RunningToken
<1>11. f.stage < N
  BY <1>1, LastFrame DEF HopFits, OnToken, OnRoute, SoFar
<1>12. job[r].pc # "rebuild"
  BY <1>3, <1>4, <1>11, Shape
<1>5. Len(call'[r].frames) = Top(r) + 1
  BY <1>2, <1>3 DEF CallType
<1>6. n.stage = f.stage + 1 /\ n.st = "arriving"
  BY <1>2 DEF Frame
<1>7. \A s \in Stage : s \in Nat
  BY Shape DEF Stage
<1> HIDE DEF f, g, n
<1>8. \A s \in Stage : Ran(call'[r], s) <=> Ran(call[r], s)
  BY <1>1, <1>3, <1>5, <1>6, <1>7 DEF Ran, n, Top
<1>9. \A s \in Stage : Held(r, s)' = Held(r, s)
  BY <1>1, SameHeld
<1>10. call'[r].frames[1].stage = 1
  <2>1. 1 \in 1..Top(r)
    BY <1>3
  <2> QED
    BY <1>2, <1>3, <1>4, <1>12, <2>1 DEF g
<1>13. \A s \in Stage : IF Ran(call'[r], s) THEN Held(r, s)' = Through(job[r], s)
                        ELSE Ready(r, s, call[r].at)'
  BY <1>2, <1>4, <1>8, <1>9 DEF Ready
<1>14. call'[r].live /\ call'[r].good
  BY <1>2, <1>4, <1>12
<1> QED
  BY <1>1, <1>2, <1>5, <1>6, <1>10, <1>12, <1>13, <1>14, CallToken DEF n

LEMMA ReturnToken == ASSUME OnToken, NEW r \in Request, Return(r) PROVE TokenInv'
<1> DEFINE good == call[r].good /\ Last(call[r].frames).stage = N
<1>1. /\ UNCHANGED <<crashed, dead, plan, next_hop, orphans, job, kv>> /\ Running(r)
      /\ Last(call[r].frames).st = "done"
  BY DEF Return, gatewayVars, workerVars
<1>2. Last(call[r].frames) = call[r].frames[Top(r)] /\ call[r] \in CallType
  BY <1>1, LastFrame DEF OnToken, OnRoute, SoFar
<1>3. /\ call[r].good /\ Last(call[r].frames).stage = N
      /\ \A s \in Stage : Ran(call[r], s) => Held(r, s) = Through(job[r], s)
  BY <1>1, <1>2, RunningToken
<1>4. call'[r] = [call[r] EXCEPT !.st = "ok", !.good = good, !.frames = << >>]
  BY DEF Return, OnToken, OnRoute, SoFar, ChainInv, ChainTypes
<1>5. good
  BY <1>3
<1> HIDE DEF good
<1>6. call'[r].st = "ok" /\ call'[r].good = good /\ call'[r].at = call[r].at
  BY <1>2, <1>4 DEF CallType
<1>7. \A s \in Stage : Ran(call[r], s)
  <2>1. \A s \in Stage : s < N \/ s = N
    BY Shape DEF Stage
  <2> QED
    BY <1>1, <1>2, <1>3, <2>1 DEF Ran, Top
<1>8. \A s \in Stage : Held(r, s)' = Held(r, s)
  BY <1>1, SameHeld
<1> QED
  BY <1>1, <1>3, <1>5, <1>6, <1>7, <1>8, CallToken

\* What happens besides the thread and its call.
LEMMA OtherToken ==
  ASSUME OnToken, UNCHANGED <<call, job>>, \A r, s : Held(r, s)' = Held(r, s),
         \A r \in Request :
           job[r].pc \in {"step", "wait", "replay", "rebuild"} /\ Settled(job[r], call[r])
             => \A o \in orphans' : o.frame.st = "arriving" => o.frame.dev \in crashed'
  PROVE  TokenInv'
<1> SUFFICES ASSUME NEW r \in Request PROVE TokenFits(r, job[r], call[r])'
  BY DEF TokenInv
<1>1. TokenFits(r, job[r], call[r])
  BY DEF OnToken, TokenInv
<1>2. \A s : Ran(call[r], s)' <=> Ran(call[r], s)
  BY DEF Ran
<1>3. Settled(job[r], call[r])' <=> Settled(job[r], call[r])
  BY DEF Settled
<1>4. \A s, n : Ready(r, s, n)' <=> Ready(r, s, n)
  BY SameReady
<1> QED
  BY <1>1, <1>2, <1>3, <1>4 DEF TokenFits, Past, Feeding, Through, Ready

\* No orphan starts while the thread generates or replays.
LEMMA OrphanRunsToken == ASSUME OnToken, NEW o \in orphans, OrphanRuns(o) PROVE TokenInv'
<1>1. /\ UNCHANGED <<call, job>> /\ o.frame.st = "arriving" /\ o.frame.dev \notin crashed
  BY DEF OrphanRuns
<1>2. ASSUME NEW r \in Request PROVE TokenFits(r, job[r], call[r])'
  <2>1. TokenFits(r, job[r], call[r])
    BY DEF OnToken, TokenInv
  <2>2. ~(job[r].pc \in {"step", "wait", "replay", "rebuild"} /\ Settled(job[r], call[r]))
    BY <1>1, <2>1 DEF TokenFits
  <2>3. job[r].pc = "step" => call[r].st = "idle"
    BY IdleCall DEF OnToken, OnRoute, SoFar
  <2>4. call[r].st \in {"running", "ok"} => job[r].pc \in {"wait", "replay", "rebuild"}
    BY <2>1 DEF TokenFits, OnToken, OnRoute, SoFar, ChainInv, CallFits
  <2> QED
    BY <1>1, <2>1, <2>2, <2>3, <2>4 DEF TokenFits, Past, Settled
<1> QED
  BY <1>2 DEF TokenInv

LEMMA OrphanForwardsToken ==
  ASSUME OnToken, NEW o \in orphans, OrphanForwards(o) PROVE TokenInv'
<1>1. /\ UNCHANGED <<crashed, dead, plan, next_hop, kv, call, job>>
      /\ o.frame.dev \notin crashed /\ (~o.frame.open => orphans' \subseteq orphans)
  BY DEF OrphanForwards, gatewayVars
<1>2. \A r, s : Held(r, s)' = Held(r, s)
  BY <1>1, SameHeld
<1>3. ASSUME NEW r \in Request, job[r].pc \in {"step", "wait", "replay", "rebuild"},
             Settled(job[r], call[r])
      PROVE  \A x \in orphans' : x.frame.st = "arriving" => x.frame.dev \in crashed'
  <2>1. orphans' \subseteq orphans
    BY <1>1, <1>3, RepairedOrphan DEF OnToken
  <2> QED
    BY <1>1, <1>3, <2>1 DEF OnToken, TokenInv, TokenFits
<1> QED
  BY <1>1, <1>2, <1>3, OtherToken

LEMMA OrphanVanishesToken ==
  ASSUME OnToken, NEW o \in orphans, OrphanVanishes(o) PROVE TokenInv'
<1>1. /\ UNCHANGED <<crashed, dead, plan, next_hop, kv, call, job>> /\ orphans' \subseteq orphans
  BY DEF OrphanVanishes, gatewayVars
<1>2. \A r, s : Held(r, s)' = Held(r, s)
  BY <1>1, SameHeld
<1>3. ASSUME NEW r \in Request, job[r].pc \in {"step", "wait", "replay", "rebuild"},
             Settled(job[r], call[r])
      PROVE  \A x \in orphans' : x.frame.st = "arriving" => x.frame.dev \in crashed'
  BY <1>1, <1>3 DEF OnToken, TokenInv, TokenFits
<1> QED
  BY <1>1, <1>2, <1>3, OtherToken

LEMMA CrashToken == ASSUME OnToken, NEW d \in Device, Crash(d) PROVE TokenInv'
<1>1. /\ UNCHANGED <<dead, plan, next_hop, kv, orphans, call, job>>
      /\ crashed' = crashed \cup {d}
  BY DEF Crash, gatewayVars, workerVars
<1>2. dead = {} /\ dead' = {}
  BY <1>1, FirstCrash DEF OnToken, OnRoute, SoFar, FaultInv
<1>3. Route' = Route
  BY <1>2 DEF Route, Repaired
<1>4. \A r, s : Held(r, s)' = Held(r, s)
  BY <1>1, <1>3 DEF Held
<1>5. ASSUME NEW r \in Request, job[r].pc \in {"step", "wait", "replay", "rebuild"},
             Settled(job[r], call[r])
      PROVE  \A x \in orphans' : x.frame.st = "arriving" => x.frame.dev \in crashed'
  BY <1>1, <1>5 DEF OnToken, TokenInv, TokenFits
<1> QED
  BY <1>1, <1>4, <1>5, OtherToken

\* A report of the crash leaves the route: the chain is not repaired by it.
LEMMA MarkedToken == ASSUME OnToken, NEW d \in Device, MarkedFromOutside(d) PROVE TokenInv'
<1>1. /\ UNCHANGED <<crashed, next_hop, kv, orphans, call, job>> /\ MarkDead(d)
      /\ d \in crashed /\ d \notin dead /\ Heartbeats
  BY DEF MarkedFromOutside, workerVars, OnToken, OnRoute, SoFar, OneFault
<1>2. /\ dead' = crashed /\ crashed = {d} /\ dead = {} /\ d # Placement[1]
      /\ dead' = {d} /\ plan' = build_execution_plan(Placement, Recovery, dead')
  BY <1>1, SingleMark DEF OnToken, OnRoute, SoFar, FaultInv, HeadStays, RouteInv
<1>3. ~Repaired
  BY <1>2 DEF Repaired
<1>4. ASSUME NEW r \in Request PROVE AlongOld(1)
  <2>1. job[r].pc # "rewire"
    BY <1>2 DEF OnToken, OnRoute, SoFar, FaultInv, FaultFits, Recovering
  <2>2. OldFrom(job[r], call[r]) = 1
    BY <1>3, <2>1 DEF OldFrom
  <2> QED
    BY <2>2 DEF OnToken, OnRoute, RouteInv, RouteFits, AlongOld
<1>5. ASSUME NEW r \in Request PROVE Route' = Route
  <2>1. CASE Repaired'
    <3>1. plan' = Placement
      BY <1>1, <1>2, <1>4, <2>1, MarkKeepsRoute DEF OnToken
    <3> QED
      BY <1>3, <3>1 DEF Route
  <2>2. CASE ~Repaired'
    BY <1>3, <2>2 DEF Route
  <2> QED
    BY <2>1, <2>2
<1>6. ASSUME NEW r \in Request PROVE TokenFits(r, job[r], call[r])'
  <2>1. TokenFits(r, job[r], call[r])
    BY DEF OnToken, TokenInv
  <2>2. \A s : Held(r, s)' = Held(r, s)
    BY <1>1, <1>5 DEF Held
  <2>3. \A s : Ran(call[r], s)' <=> Ran(call[r], s)
    BY <1>1 DEF Ran
  <2> QED
    BY <1>1, <2>1, <2>2, <2>3 DEF TokenFits, Past, Feeding, Through, Ready, Settled
<1> QED
  BY <1>6 DEF TokenInv

\* A mirrored input is fed to the tail's backup alone.
LEMMA RebuildToken == ASSUME OnToken, NEW r \in Request, Rebuild(r) PROVE TokenInv'
<1> DEFINE d == job'[r].dev
           good == cache[r][job[r].stage][job[r].k] = "good"
           live == job[r].k = job[r].pos
<1>1. /\ ChainInv /\ job[r] \in JobType /\ JobFits(job[r]) /\ job[r].pc = "rebuild"
      /\ call[r].st = "idle"
  BY DEF Rebuild, OnToken, OnRoute, SoFar, ChainInv, ChainTypes
<1>2. Settled(job[r], call[r])
  BY <1>1 DEF Settled
<1>3. /\ ~job[r].wrong /\ Mode = "surgical"
      /\ \A o \in orphans : o.frame.st = "arriving" => o.frame.dev \in crashed
  BY <1>1, <1>2 DEF OnToken, TokenInv, TokenFits
<1>4. /\ job[r].stage = N /\ Ready(r, N, job[r].k)
      /\ \A s \in Stage : s < N => Held(r, s) = job[r].pos + 1
      /\ \A p \in 0..job[r].pos : cache[r][N][p] = "good"
  BY <1>1, <1>3 DEF OnToken, SurgeryInv, SurgeryFits
<1>5. job[r].k \in 0..job[r].pos
  BY <1>1, Shape DEF JobFits, JobType, Position
<1>6. good
  BY <1>4, <1>5
<1>7. call'[r] = [NoCall EXCEPT !.st = "running", !.live = live, !.at = job[r].k,
                                !.good = good, !.head = d, !.plan = plan,
                                !.frames = <<Frame(d, N)>>]
  BY <1>1, <1>4 DEF Rebuild, Invoke, ChainInv, ChainTypes
<1>8. job'[r] = [job[r] EXCEPT !.dev = IF job[r].k = 0 THEN plan[job[r].stage] ELSE @]
  BY <1>1 DEF Rebuild, ChainInv, ChainTypes
<1> HIDE DEF good, live, d
<1>9. /\ call'[r].st = "running" /\ call'[r].frames = <<Frame(d, N)>>
      /\ call'[r].good /\ call'[r].at = job[r].k
  BY <1>6, <1>7, NoCallIsTyped DEF CallType
<1>10. /\ job'[r].pc = "rebuild" /\ job'[r].k = job[r].k /\ job'[r].pos = job[r].pos
       /\ job'[r].wrong = job[r].wrong
  BY <1>1, <1>8 DEF JobType
<1>11. UNCHANGED <<crashed, dead, plan, next_hop, kv, orphans>>
  BY DEF Rebuild, workerVars, gatewayVars
<1>12. /\ Len(call'[r].frames) = 1 /\ call'[r].frames[1].stage = N
       /\ call'[r].frames[1].st = "arriving"
  BY <1>9 DEF Frame
<1>13. /\ \A s \in Stage : Ran(call'[r], s) <=> s < N
       /\ \A s \in Stage : ~(s < N) => s = N
  BY <1>12, Shape DEF Ran, Stage
<1>14. \A s : Held(r, s)' = Held(r, s)
  BY <1>11, SameHeld
<1>15. \A s \in Stage : IF Ran(call'[r], s) THEN Held(r, s)' = Through(job'[r], s)
                         ELSE Ready(r, s, job[r].k)
  BY <1>4, <1>10, <1>13, <1>14 DEF Through
<1>16. \A s : Ready(r, s, job[r].k)' <=> Ready(r, s, job[r].k)
  BY <1>10, <1>14 DEF Ready
<1>17. TokenFits(r, job[r], call[r])'
  BY <1>3, <1>9, <1>10, <1>11, <1>12, <1>14, <1>15 DEF TokenFits, Past, Feeding, Ran, Through, Ready
<1> QED
  BY <1>17, TokenStep

LEMMA NextToken == OnToken /\ [Next]_vars => TokenInv'
<1> SUFFICES ASSUME OnToken, [Next]_vars PROVE TokenInv'
  OBVIOUS
<1>1. ASSUME NEW r \in Request, Gateway(r) PROVE TokenInv'
  BY <1>1, StepToken, StepDoneToken, StepFailedToken, PromoteToken, RewireToken,
     EvictToken, ReplayToken, RebuildToken, RecoveryAnswerToken DEF Gateway
<1>2. ASSUME NEW r \in Request, Chain(r) PROVE TokenInv'
  BY <1>2, RunStageToken, ForwardToken, ReturnToken, CallFailsToken DEF Chain
<1>3. CASE UNCHANGED <<dead, crashed, plan, next_hop, kv, orphans, call, job>>
  <2>1. \A r, s : Held(r, s)' = Held(r, s)
    BY <1>3, SameHeld
  <2>2. ASSUME NEW r \in Request, job[r].pc \in {"step", "wait", "replay", "rebuild"},
             Settled(job[r], call[r])
        PROVE  \A o \in orphans' : o.frame.st = "arriving" => o.frame.dev \in crashed'
    BY <1>3, <2>2 DEF OnToken, TokenInv, TokenFits
  <2> QED
    BY <1>3, <2>1, <2>2, OtherToken
<1>4. CASE Orphan
  BY <1>4, OrphanRunsToken, OrphanForwardsToken, OrphanVanishesToken DEF Orphan
<1>5. ASSUME NEW m \in mirrors, DeliverMirror(m) PROVE TokenInv'
  BY <1>3, <1>5 DEF DeliverMirror
<1>6. CASE Finished \/ UNCHANGED vars
  BY <1>3, <1>6 DEF Finished, vars
<1> QED
  BY <1>1, <1>2, <1>4, <1>5, <1>6, CrashToken, MarkedToken DEF Next

-----------------------------------------------------------------------------
(* Every step keeps what a surgical recovery of the tail rests on. *)

\* What the steps of the proof may use.
OnSurgery == OnToken /\ Mode = "surgical"

\* No stage before the tail is ever served by another worker.
LEMMA FrontStays ==
  ASSUME OnSurgery, NEW s \in Stage, s < N
  PROVE  /\ Placement[s] \notin Crashable /\ Placement[s] \notin crashed
         /\ plan[s] = Placement[s] /\ Route[s] = Placement[s]
<1>1. /\ Placement[s] \notin Crashable /\ Placement[s] \notin crashed
      /\ Placement[s] \notin dead
  BY DEF OnSurgery, OnToken, OnlyTailCrashes, OnRoute, RouteInv, SoFar, FaultInv
<1>2. plan[s] = Placement[s]
  BY <1>1, PlanStage DEF OnSurgery, OnToken, OnRoute
<1> QED
  BY <1>1, <1>2 DEF Route

LEMMA Surgical ==
  ASSUME OnSurgery
  PROVE  /\ orphans = {} /\ MirrorsFit /\ \A r \in Request : SurgeryFits(r, job[r], call[r])
         /\ SoFar /\ ChainInv /\ \A q, r \in Request : q = r
  BY DEF OnSurgery, OnToken, SurgeryInv, OnRoute, SoFar, OneFault, OneRequest

\* A step that leaves the mirrors and the history alone.
LEMMA SurgeryStep ==
  ASSUME OnSurgery, NEW r \in Request, UNCHANGED <<mirrors, cache>>, orphans' = {},
         SurgeryFits(r, job[r], call[r])'
  PROVE  SurgeryInv'
<1>1. MirrorsFit'
  BY Surgical DEF MirrorsFit
<1> QED
  BY <1>1, Surgical DEF SurgeryInv

\* Where the thread is done with the recovery, or has not come to it.
LEMMA SurgeryOver ==
  ASSUME NEW r \in Request, call'[r].st # "error",
         job'[r].pc \notin {"promote", "rewire", "rebuild"}
  PROVE  SurgeryFits(r, job[r], call[r])'
  BY DEF SurgeryFits

LEMMA InitSurgery == Init => SurgeryInv
<1> SUFFICES ASSUME Init PROVE SurgeryInv
  OBVIOUS
<1>1. ASSUME NEW r \in Request PROVE SurgeryFits(r, job[r], call[r])
  BY DEF Init, NoCall, SurgeryFits
<1>2. MirrorsFit
  BY DEF Init, MirrorsFit, NoHistory
<1> QED
  BY <1>1, <1>2 DEF SurgeryInv, Init

\* The gateway primes the history with the head's input, which is right.
LEMMA StepSurgery == ASSUME OnSurgery, NEW r \in Request, Step(r) PROVE SurgeryInv'
<1>1. job'[r].pc = "wait" /\ call'[r].st = "running"
  BY Surgical, StepInvokes DEF Step, ChainInv, ChainTypes, JobType, InvokedAt
<1>2. /\ mirrors' = mirrors /\ orphans' = orphans
      /\ cache' = [cache EXCEPT ![r][1][job[r].pos] = "good"]
  BY DEF Step, workerVars
<1>3. MirrorsFit'
  BY <1>2, Surgical DEF MirrorsFit, ChainInv, ChainTypes
<1> QED
  BY <1>1, <1>2, <1>3, Surgical, SurgeryOver DEF SurgeryInv

LEMMA StepDoneSurgery == ASSUME OnSurgery, NEW r \in Request, StepDone(r) PROVE SurgeryInv'
<1>1. UNCHANGED <<mirrors, cache, orphans>>
  BY DEF StepDone, workerVars, gatewayVars
<1>3. call'[r].st = "idle"
  BY Surgical, StepDoneIs DEF NoCall
<1>2. job'[r].pc \in {"step", "evict"}
  BY Surgical, StepDoneIs, EmitIs
<1> QED
  BY <1>1, <1>2, <1>3, Surgical, SurgeryOver, SurgeryStep

\* The failed stage is the tail: the trailer names it, or there is no other.
LEMMA StepFailedSurgery == ASSUME OnSurgery, NEW r \in Request, StepFailed(r) PROVE SurgeryInv'
<1> DEFINE d == DeadDevice(r)
           n == DeadStage(r)
<1>1. /\ crashed' = crashed /\ dead' = crashed
      /\ plan' = build_execution_plan(Placement, Recovery, dead')
      /\ job'[r] = [job[r] EXCEPT !.pc = "promote", !.stage = n, !.dev = d]
      /\ call'[r] = NoCall
  BY Surgical, StepFailedJob
<1>2. UNCHANGED <<mirrors, cache, orphans, kv>> /\ call[r].st = "error"
  BY DEF StepFailed, workerVars
<1>3. n = N
  BY <1>2, Surgical, Shape DEF SurgeryFits, DeadStage
<1>4. \A s \in Stage : s < N => Held(r, s) = job[r].pos + 1
  BY <1>2, Surgical DEF SurgeryFits
<1> HIDE DEF n, d
<1>5. job'[r].pc = "promote" /\ job'[r].stage = n /\ job'[r].pos = job[r].pos
  BY <1>1, Surgical DEF ChainInv, ChainTypes, JobType
<1>6. ASSUME NEW s \in Stage, s < N PROVE Held(r, s)' = Held(r, s)
  <2>1. Route[s] = Placement[s] /\ Placement[s] \notin crashed
    BY <1>6, FrontStays
  <2>2. plan'[s] = Placement[s]
    BY <1>1, <2>1, Shape DEF build_execution_plan, Serving
  <2> QED
    BY <1>2, <2>1, <2>2 DEF Held, Route
<1>7. SurgeryFits(r, job[r], call[r])'
  BY <1>1, <1>3, <1>4, <1>5, <1>6 DEF SurgeryFits, NoCall
<1> QED
  BY <1>2, <1>7, Surgical, SurgeryStep

LEMMA PromoteSurgery == ASSUME OnSurgery, NEW r \in Request, Promote(r) PROVE SurgeryInv'
<1>1. /\ UNCHANGED <<crashed, dead, plan, next_hop, orphans, call>> /\ job[r].pc = "promote"
      /\ job'[r] = [job[r] EXCEPT !.pc = "rewire", !.k = 1, !.rplan = plan]
      /\ UNCHANGED <<mirrors, cache, kv>>
  BY Surgical, PromoteJob DEF Promote, workerVars, gatewayVars
<1>2. job'[r].pc = "rewire" /\ job'[r].stage = job[r].stage /\ job'[r].pos = job[r].pos
  BY <1>1, Surgical DEF ChainInv, ChainTypes, JobType
<1>3. \A s : Held(r, s)' = Held(r, s)
  BY <1>1, SameHeld
<1>4. call[r].st = "idle"
  BY <1>1, IdleCall, Surgical
<1>5. SurgeryFits(r, job[r], call[r])'
  BY <1>1, <1>2, <1>3, <1>4, Surgical DEF SurgeryFits
<1> QED
  BY <1>1, <1>5, Surgical, SurgeryStep

\* The gateway holds the inputs of the dead stage up to the failed position.
LEMMA HistoryReaches ==
  ASSUME NEW r \in Request, NEW s \in Stage, NEW n \in Position, HistoryLen(r, s) > n
  PROVE  \A p \in 0..n : cache[r][s][p] # "none"
<1> DEFINE H == {p \in Position : \A q \in 0..p : cache[r][s][q] # "none"}
<1> SUFFICES ASSUME NEW p \in 0..n, cache[r][s][p] = "none" PROVE FALSE
  OBVIOUS
<1>1. n \in Nat /\ p \in Nat /\ p <= n
  BY Shape DEF Position
<1>2. H \subseteq 0..(n - 1)
  <2>1. ASSUME NEW q \in H PROVE q \in Nat /\ p \notin 0..q
    BY Shape DEF Position
  <2> HIDE DEF H
  <2>2. ASSUME NEW q \in H PROVE q \in Nat /\ q <= n - 1
    BY <1>1, <2>1
  <2> QED
    BY <1>1, <2>2
<1>3. n - 1 \in Int /\ 0 \in Int /\ IsFiniteSet(0..(n - 1))
  BY <1>1, FS_Interval
<1>4. Cardinality(0..(n - 1)) = n
  BY <1>1, <1>3, FS_Interval
<1>5. Cardinality(H) <= n
  BY <1>2, <1>3, <1>4, FS_Subset
<1>6. Cardinality(H) \in Nat
  BY <1>2, <1>3, FS_Subset, FS_CardinalityType
<1> QED
  BY <1>1, <1>5, <1>6 DEF HistoryLen

\* Rewired with the failed position mirrored, every input up to it is there and
\* right; otherwise the thread falls back to a full replay.
LEMMA RewireSurgery == ASSUME OnSurgery, NEW r \in Request, Rewire(r) PROVE SurgeryInv'
<1> DEFINE next == [job[r] EXCEPT !.k = job[r].k + 1]
           build == [job[r] EXCEPT !.pc = "rebuild", !.k = 0]
           evict == StartEvict([job[r] EXCEPT !.k = 0], "replay")
<1>1. /\ job[r] \in JobType /\ job[r].pc = "rewire" /\ call'[r].st = "idle"
      /\ UNCHANGED <<crashed, dead, plan, cache, kv, mirrors>> /\ orphans' = {}
  BY IdleRewired, RewireOrphans, Surgical DEF Rewire, ChainInv, ChainTypes, gatewayVars
<1>2. job[r].stage = N /\ \A s \in Stage : s < N => Held(r, s) = job[r].pos + 1
  BY <1>1, Surgical DEF SurgeryFits
<1>3. AfterRewire(r) = evict \/ (AfterRewire(r) = build /\ HistoryLen(r, N) > job[r].pos)
  BY <1>2 DEF AfterRewire
<1>4. \/ job'[r] = next \/ job'[r] = evict
      \/ job'[r] = build /\ HistoryLen(r, N) > job[r].pos
  BY <1>3, Surgical DEF Rewire, ChainInv, ChainTypes
<1>5. /\ next.pc = "rewire" /\ next.pos = job[r].pos /\ next.stage = job[r].stage
      /\ build.pc = "rebuild" /\ build.pos = job[r].pos /\ build.stage = job[r].stage
      /\ build.k = 0 /\ evict.pc = "evict"
  BY <1>1 DEF JobType, StartEvict
<1>6. ASSUME NEW s \in Stage, s < N PROVE Held(r, s)' = Held(r, s)
  <2>1. Route[s] = Placement[s] /\ plan[s] = Placement[s]
    BY <1>6, FrontStays
  <2> QED
    BY <1>1, <2>1 DEF Held, Route
<1> HIDE DEF next, build, evict
<1>7. CASE job'[r] = evict
  BY <1>1, <1>5, <1>7, Surgical, SurgeryOver, SurgeryStep
<1>8. CASE job'[r] = next
  <2>1. SurgeryFits(r, job[r], call[r])'
    BY <1>1, <1>2, <1>5, <1>6, <1>8 DEF SurgeryFits
  <2> QED
    BY <1>1, <2>1, SurgeryStep
<1>9. CASE job'[r] = build /\ HistoryLen(r, N) > job[r].pos
  <2>1. job[r].pos \in Position /\ N \in Stage /\ \A p \in 0..job[r].pos : p \in Position
    BY <1>1, Shape DEF JobType, Position
  <2>2. \A p \in 0..job[r].pos : cache[r][N][p] = "good"
    BY <1>9, <2>1, HistoryReaches, Surgical DEF MirrorsFit, ChainInv, ChainTypes
  <2>3. SurgeryFits(r, job[r], call[r])'
    BY <1>1, <1>2, <1>5, <1>6, <1>9, <2>2 DEF SurgeryFits, Ready
  <2> QED
    BY <1>1, <2>3, SurgeryStep
<1> QED
  BY <1>4, <1>7, <1>8, <1>9

LEMMA EvictSurgery == ASSUME OnSurgery, NEW r \in Request, Evict(r) PROVE SurgeryInv'
<1>1. /\ UNCHANGED <<mirrors, call>> /\ job[r].pc = "evict"
      /\ cache' = cache \/ cache' = [cache EXCEPT ![r] = NoHistory]
  BY DEF Evict
<1>2. orphans' = {}
  BY Surgical DEF Evict
<1>3. call'[r].st = "idle"
  BY <1>1, IdleCall, Surgical
<1>4. job[r].then \in {"done", "replay"}
  BY <1>1 DEF OnSurgery, OnToken, TokenInv, TokenFits
<1>5. job'[r].pc \in {"evict", "done", "replay"}
  BY <1>4, EvictJob, Surgical
<1>6. MirrorsFit'
  BY <1>1, Surgical DEF MirrorsFit, NoHistory, ChainInv, ChainTypes
<1> QED
  BY <1>2, <1>3, <1>5, <1>6, Surgical, SurgeryOver DEF SurgeryInv

LEMMA ReplaySurgery == ASSUME OnSurgery, NEW r \in Request, Replay(r) PROVE SurgeryInv'
<1>1. UNCHANGED <<mirrors, cache, orphans>> /\ job[r].pc = "replay"
  BY DEF Replay, workerVars, gatewayVars
<1>2. job'[r].pc = "replay" /\ call'[r].st = "running"
  BY <1>1, ReplayInvokes, Surgical DEF RecoveryInvokes, InvokedAt
<1> QED
  BY <1>1, <1>2, Surgical, SurgeryOver, SurgeryStep

\* A thread that goes on feeding the tail's backup.
LEMMA FeedingSurgery ==
  ASSUME OnSurgery, NEW r \in Request, UNCHANGED <<mirrors, cache, orphans>>,
         job[r].pc = "rebuild", job'[r].pc = "rebuild", job'[r].stage = job[r].stage,
         job'[r].pos = job[r].pos,
         \/ call'[r].st \in {"running", "ok"}
         \/ /\ call'[r].st = "idle" /\ Held(r, N)' = job'[r].k
            /\ \A s \in Stage : s < N => Held(r, s)' = job[r].pos + 1
  PROVE  SurgeryInv'
<1>1. job[r].stage = N /\ \A p \in 0..job[r].pos : cache[r][N][p] = "good"
  BY Surgical DEF SurgeryFits
<1>2. SurgeryFits(r, job[r], call[r])'
  BY <1>1 DEF SurgeryFits, Ready
<1> QED
  BY <1>2, Surgical, SurgeryStep

LEMMA RebuildSurgery == ASSUME OnSurgery, NEW r \in Request, Rebuild(r) PROVE SurgeryInv'
<1>1. /\ UNCHANGED <<mirrors, cache, orphans>> /\ job[r].pc = "rebuild" /\ job[r] \in JobType
      /\ job'[r] = [job[r] EXCEPT !.dev = IF job[r].k = 0 THEN plan[job[r].stage] ELSE @]
  BY Surgical DEF Rebuild, ChainInv, ChainTypes, workerVars, gatewayVars
<1>2. job'[r].pc = "rebuild" /\ job'[r].stage = job[r].stage /\ job'[r].pos = job[r].pos
  BY <1>1 DEF JobType
<1>3. call'[r].st = "running"
  BY RebuildInvokes, Surgical DEF RecoveryInvokes, InvokedAt
<1> QED
  BY <1>1, <1>2, <1>3, FeedingSurgery

LEMMA RecoveryAnswerSurgery ==
  ASSUME OnSurgery, NEW r \in Request, RecoveryAnswer(r) PROVE SurgeryInv'
<1>1. /\ job[r].pc \in {"replay", "rebuild"} /\ call[r].st = "ok" /\ ~Past(job[r])
      /\ job[r] \in JobType /\ JobFits(job[r]) /\ call[r].good \in BOOLEAN
      /\ call'[r] = NoCall
      /\ UNCHANGED <<crashed, dead, plan, next_hop, orphans, kv>>
      /\ \/ job[r].k < job[r].pos /\ job'[r] = [job[r] EXCEPT !.k = @ + 1]
         \/ job[r].k = job[r].pos /\ job'[r] = Emit(job[r], call[r].good)
  BY RecoveryAnswerIs, Surgical
<1>2. UNCHANGED <<mirrors, cache>>
  BY DEF RecoveryAnswer, workerVars, gatewayVars
<1>3. call'[r].st = "idle"
  BY <1>1 DEF NoCall
<1>4. CASE job'[r] = Emit(job[r], call[r].good)
  <2>1. job'[r].pc \in {"step", "evict"}
    BY <1>1, <1>4, EmitIs
  <2> QED
    BY <1>1, <1>2, <1>3, <2>1, Surgical, SurgeryOver, SurgeryStep
<1>5. CASE job'[r] = [job[r] EXCEPT !.k = @ + 1]
  <2>1. /\ job'[r].pc = job[r].pc /\ job'[r].stage = job[r].stage /\ job'[r].pos = job[r].pos
        /\ job'[r].k = job[r].k + 1
    BY <1>1, <1>5 DEF JobType
  <2>2. CASE job[r].pc = "replay"
    BY <1>1, <1>2, <1>3, <2>1, <2>2, Surgical, SurgeryOver, SurgeryStep
  <2>3. CASE job[r].pc = "rebuild"
    <3>1. \A s \in Stage : Held(r, s) = Through(job[r], s)
      BY <1>1 DEF OnSurgery, OnToken, TokenInv, TokenFits
    <3>2. \A s : Held(r, s)' = Held(r, s)
      BY <1>1, SameHeld
    <3>3. N \in Stage /\ ~(N < N)
      BY Shape
    <3>4. Held(r, N)' = job[r].k + 1 /\ \A s \in Stage : s < N => Held(r, s)' = job[r].pos + 1
      BY <2>3, <3>1, <3>2, <3>3 DEF Through, Feeding
    <3> QED
      BY <1>1, <1>2, <1>3, <2>1, <2>3, <3>4, FeedingSurgery
  <2> QED
    BY <1>1, <2>2, <2>3
<1> QED
  BY <1>1, <1>4, <1>5

\* A step of a running call that leaves the mirrors alone.
LEMMA CallSurgery ==
  ASSUME OnSurgery, NEW r \in Request, UNCHANGED <<cache, orphans, job>>, MirrorsFit',
         call'[r].st \in {"running", "ok"}, Running(r)
  PROVE  SurgeryInv'
<1>1. job[r].pc \in {"wait", "replay", "rebuild"}
  BY LastFrame, Surgical
<1>2. /\ job[r].pc = "rebuild" => job[r].stage = N
      /\ job[r].pc = "rebuild" => \A p \in 0..job[r].pos : cache[r][N][p] = "good"
  BY Surgical DEF SurgeryFits
<1>3. SurgeryFits(r, job[r], call[r])'
  BY <1>1, <1>2 DEF SurgeryFits
<1> QED
  BY <1>3, Surgical DEF SurgeryInv

\* A handler mirrors the input it was given, and that was right.
LEMMA RunStageSurgery == ASSUME OnSurgery, NEW r \in Request, RunStage(r) PROVE SurgeryInv'
<1> DEFINE f == Last(call[r].frames)
           m == [req |-> r, stage |-> f.stage, at |-> call[r].at, good |-> call[r].good]
<1>1. Running(r) /\ UNCHANGED <<cache, orphans, job>> /\ (mirrors' = mirrors \/ mirrors' = mirrors \cup {m})
  BY DEF RunStage, RunLocal, gatewayVars
<1>2. call'[r].st = "running"
  BY RunStageCall, Surgical
<1>3. call[r].good
  BY <1>1, RunningToken DEF OnSurgery
<1>4. m.good
  BY <1>3
<1> HIDE DEF m
<1>5. MirrorsFit'
  BY <1>1, <1>4, Surgical DEF MirrorsFit
<1> QED
  BY <1>1, <1>2, <1>5, CallSurgery

LEMMA ForwardSurgery == ASSUME OnSurgery, NEW r \in Request, Forward(r) PROVE SurgeryInv'
<1>1. Running(r) /\ UNCHANGED <<cache, mirrors, orphans, job>>
  BY DEF Forward, gatewayVars, workerVars
<1>2. call'[r].st = "running"
  BY ForwardCall, Surgical
<1>3. MirrorsFit'
  BY <1>1, Surgical DEF MirrorsFit
<1> QED
  BY <1>1, <1>2, <1>3, CallSurgery

LEMMA ReturnSurgery == ASSUME OnSurgery, NEW r \in Request, Return(r) PROVE SurgeryInv'
<1>1. Running(r) /\ UNCHANGED <<cache, mirrors, orphans, job>>
  BY DEF Return, gatewayVars, workerVars
<1>2. call'[r].st = "ok"
  BY Surgical DEF Return, ChainInv, ChainTypes, CallType
<1>3. MirrorsFit'
  BY <1>1, Surgical DEF MirrorsFit
<1> QED
  BY <1>1, <1>2, <1>3, CallSurgery

\* What fails is the tail itself: no handler is left below it, its caller names
\* its stage, and everybody before it has run the position.
LEMMA CallFailsSurgery == ASSUME OnSurgery, NEW r \in Request, CallFails(r) PROVE SurgeryInv'
<1> DEFINE i == Min(Broken(r))
           f == call[r].frames[i]
<1>1. /\ job[r].pc = "wait" /\ Running(r)
      /\ i \in 1..Top(r) /\ f \in FrameType /\ f.dev \in crashed
  BY FailsWaiting, Surgical
<1>2. /\ Follows(call[r], Route) /\ DOMAIN call[r].frames = 1..Top(r) /\ Top(r) \in Nat
  BY <1>1, TopFrame DEF OnSurgery, OnToken
<1>3. f.stage \in Stage /\ f.dev = Route[f.stage]
  BY <1>1, <1>2 DEF Follows, FrameType
<1>4. f.stage = N
  <2>1. ~(f.stage < N)
    BY <1>1, <1>3, FrontStays
  <2> QED
    BY <1>3, <2>1, Shape DEF Stage
<1>5. i = Top(r)
  <2> SUFFICES ASSUME i # Top(r) PROVE FALSE
    OBVIOUS
  <2>1. i + 1 \in 1..Top(r) /\ i + 1 # 1 /\ (i + 1) - 1 = i
    BY <1>1, <1>2
  <2>2. call[r].frames[i + 1].stage = f.stage + 1 /\ call[r].frames[i + 1].stage \in Stage
    BY <1>1, <1>2, <2>1, LastFrame, Surgical DEF StackFits, FrameType
  <2> QED
    BY <1>4, <2>2, Shape DEF Stage
<1>6. /\ UNCHANGED <<crashed, dead, plan, next_hop, kv, mirrors, cache, job>>
      /\ orphans' = orphans \cup Remainder(r, i)
  BY DEF CallFails, gatewayVars
<1>7. orphans' = {}
  <2>1. ~(Top(r) > i)
    BY <1>2, <1>5
  <2>2. Remainder(r, i) = {}
    BY <2>1 DEF Remainder
  <2> QED
    BY <1>6, <2>2, Surgical
<1>8. call'[r].st = "error" /\ call'[r].blame = IF i = 1 THEN 0 ELSE f.stage
  BY <1>1, CallFailsCall, Surgical
<1>9. i = 1 => N = 1
  BY <1>1, <1>4, RunningToken DEF OnSurgery
<1>10. ASSUME NEW s \in Stage, s < N PROVE Held(r, s) = job[r].pos + 1
  <2>1. Ran(call[r], s)
    BY <1>4, <1>5, <1>10 DEF Ran, Top
  <2>2. Held(r, s) = Through(job[r], s)
    BY <1>1, <2>1, RunningToken DEF OnSurgery
  <2> QED
    BY <1>1, <2>2 DEF Through, Feeding
<1> HIDE DEF i, f
<1>11. \A s : Held(r, s)' = Held(r, s)
  BY <1>6, SameHeld
<1>12. SurgeryFits(r, job[r], call[r])'
  BY <1>1, <1>4, <1>6, <1>8, <1>9, <1>10, <1>11 DEF SurgeryFits
<1> QED
  BY <1>6, <1>7, <1>12, SurgeryStep

\* A mirror that arrives adds a right input, or nothing.
LEMMA DeliverMirrorSurgery ==
  ASSUME OnSurgery, NEW m \in mirrors, DeliverMirror(m) PROVE SurgeryInv'
<1>1. /\ UNCHANGED <<crashed, dead, plan, next_hop, kv, call, orphans, job>>
      /\ mirrors' = mirrors \ {m} /\ m.good
  BY Surgical DEF DeliverMirror, MirrorsFit
<1>2. ASSUME NEW r \in Request, NEW s \in Stage, NEW p \in Position
      PROVE  cache'[r][s][p] = cache[r][s][p] \/ cache'[r][s][p] = "good"
  BY <1>1, Surgical DEF DeliverMirror, ChainInv, ChainTypes
<1>3. ASSUME NEW r \in Request, NEW s \in Stage, NEW p, cache[r][s][p] = "good", p \in Position
      PROVE  cache'[r][s][p] = "good"
  BY <1>2, <1>3
<1>4. MirrorsFit'
  BY <1>1, <1>2, Surgical DEF MirrorsFit
<1>5. ASSUME NEW r \in Request PROVE SurgeryFits(r, job[r], call[r])'
  <2>1. \A s : Held(r, s)' = Held(r, s)
    BY <1>1, SameHeld
  <2>2. job[r].pos \in Position /\ N \in Stage /\ \A p \in 0..job[r].pos : p \in Position
    BY Surgical, Shape DEF ChainInv, ChainTypes, JobType, Position
  <2>3. job[r].pc = "rebuild" => \A p \in 0..job[r].pos : cache'[r][N][p] = "good"
    BY <1>3, <2>2, Surgical DEF SurgeryFits
  <2> QED
    BY <1>1, <2>1, <2>3, Surgical DEF SurgeryFits, Ready
<1> QED
  BY <1>1, <1>4, <1>5, Surgical DEF SurgeryInv

\* What happens besides the thread, its call and the mirrors.
LEMMA OtherSurgery ==
  ASSUME OnSurgery, UNCHANGED <<mirrors, cache, orphans, call, job>>,
         \A r, s : Held(r, s)' = Held(r, s)
  PROVE  SurgeryInv'
<1>1. ASSUME NEW r \in Request PROVE SurgeryFits(r, job[r], call[r])'
  BY Surgical DEF SurgeryFits, Ready
<1>2. MirrorsFit'
  BY Surgical DEF MirrorsFit
<1> QED
  BY <1>1, <1>2, Surgical DEF SurgeryInv

LEMMA CrashSurgery == ASSUME OnSurgery, NEW d \in Device, Crash(d) PROVE SurgeryInv'
<1>1. UNCHANGED <<dead, plan, next_hop, kv, orphans, call, job, mirrors, cache>>
  BY DEF Crash, gatewayVars, workerVars
<1>2. dead = {} /\ dead' = {}
  BY <1>1, FirstCrash, Surgical DEF SoFar, FaultInv
<1>3. \A r, s : Held(r, s)' = Held(r, s)
  BY <1>1, <1>2 DEF Held, Route, Repaired
<1> QED
  BY <1>1, <1>3, OtherSurgery

\* A report of the crash finds no recovery at work, only a failure to be noticed.
LEMMA MarkedSurgery == ASSUME OnSurgery, NEW d \in Device, MarkedFromOutside(d) PROVE SurgeryInv'
<1>1. /\ UNCHANGED <<crashed, next_hop, kv, orphans, call, job, mirrors, cache>> /\ MarkDead(d)
      /\ d \in crashed /\ d \notin dead
  BY Surgical DEF MarkedFromOutside, workerVars, SoFar, OneFault
<1>2. dead' = crashed /\ plan' = build_execution_plan(Placement, Recovery, dead')
  BY <1>1, SingleMark, Surgical DEF SoFar
<1>3. ASSUME NEW r \in Request, NEW s \in Stage, s < N PROVE Held(r, s)' = Held(r, s)
  <2>1. Route[s] = Placement[s] /\ Placement[s] \notin crashed
    BY <1>3, FrontStays
  <2>2. plan'[s] = Placement[s]
    BY <1>2, <2>1, Shape DEF build_execution_plan, Serving
  <2> QED
    BY <1>1, <2>1, <2>2 DEF Held, Route
<1>4. ASSUME NEW r \in Request PROVE SurgeryFits(r, job[r], call[r])'
  <2>1. job[r].pc \notin {"promote", "rewire", "rebuild"}
    BY <1>1, Surgical DEF SoFar, FaultInv, FaultFits, Recovering
  <2> QED
    BY <1>1, <1>3, <2>1, Surgical DEF SurgeryFits
<1>5. MirrorsFit'
  BY <1>1, Surgical DEF MirrorsFit
<1> QED
  BY <1>1, <1>4, <1>5, Surgical DEF SurgeryInv

LEMMA NextSurgery == OnToken /\ [Next]_vars => SurgeryInv'
<1>1. CASE Mode # "surgical"
  BY <1>1 DEF SurgeryInv
<1> SUFFICES ASSUME OnSurgery, [Next]_vars PROVE SurgeryInv'
  BY <1>1 DEF OnSurgery
<1>2. ASSUME NEW r \in Request, Gateway(r) PROVE SurgeryInv'
  BY <1>2, StepSurgery, StepDoneSurgery, StepFailedSurgery, PromoteSurgery, RewireSurgery,
     EvictSurgery, ReplaySurgery, RebuildSurgery, RecoveryAnswerSurgery DEF Gateway
<1>3. ASSUME NEW r \in Request, Chain(r) PROVE SurgeryInv'
  BY <1>3, RunStageSurgery, ForwardSurgery, ReturnSurgery, CallFailsSurgery DEF Chain
<1>4. ~Orphan
  BY Surgical DEF Orphan
<1>5. CASE UNCHANGED vars
  <2>1. \A r, s : Held(r, s)' = Held(r, s)
    BY <1>5, SameHeld DEF vars
  <2> QED
    BY <1>5, <2>1, OtherSurgery DEF vars
<1> QED
  BY <1>2, <1>3, <1>4, <1>5, DeliverMirrorSurgery, CrashSurgery, MarkedSurgery DEF Next, Finished

LEMMA TokenHolds ==
  ASSUME OneFault, HeadStays, OnlyTailCrashes
  PROVE  Spec => [](ChainInv /\ BlameInv /\ FaultInv /\ RouteInv /\ TokenInv /\ SurgeryInv)
<1>1. Init => ChainInv /\ BlameInv /\ FaultInv /\ RouteInv /\ TokenInv /\ SurgeryInv
  BY InitType, InitBlame, InitFault, InitRoute, InitToken, InitSurgery
<1>2. ChainInv /\ BlameInv /\ FaultInv /\ RouteInv /\ TokenInv /\ SurgeryInv /\ [Next]_vars
      => ChainInv' /\ BlameInv' /\ FaultInv' /\ RouteInv' /\ TokenInv' /\ SurgeryInv'
  BY NextType, NextBlame, NextFault, NextRoute, NextToken, NextSurgery
     DEF OnToken, OnRoute, SoFar, OneFault
<1> QED
  BY <1>1, <1>2, PTL DEF Spec

\* A recovery hands the request the tokens of an undisturbed run ("the token
\* sequence is the same as the baseline", ARCHITECTURE.md 3.3): with a full
\* replay whichever worker crashes, at any point of a step, and whether the chain
\* or a heartbeat notices first; with a surgical recovery when it is the tail,
\* however late its mirrored inputs reach the gateway.
THEOREM RecoveredTokensAreRight ==
  ASSUME OneFault, HeadStays, OnlyTailCrashes
  PROVE  Spec => []NoWrongToken
<1>1. TokenInv => NoWrongToken
  BY DEF TokenInv, TokenFits, NoWrongToken
<1> QED
  BY <1>1, TokenHolds, PTL

(***************************************************************************)
(* The refinement: a token handed out is a step of the reference           *)
(* generator, so are the crash and the end of a request, and the whole of  *)
(* a recovery is nothing at all.                                           *)
(***************************************************************************)
\* What a step of the thread is to the reference.
LEMMA GatewayGenerates ==
  ASSUME OnToken, NEW r \in Request, Gateway(r)
  PROVE  /\ crashed' = crashed /\ job[r].pc \notin {"done", "failed"}
         /\ job'[r].attempts = job[r].attempts
         /\ \/ job'[r].out = job[r].out /\ job'[r].pc \notin {"done", "failed"}
            \/ /\ job'[r].out = job[r].out + 1 /\ job[r].out # MaxTokens
               /\ job'[r].pc \notin {"done", "failed"}
            \/ /\ job'[r].out = job[r].out /\ job[r].out = MaxTokens
               /\ job'[r].pc = "done"
<1>1. /\ SoFar /\ ChainInv /\ job \in [Request -> JobType] /\ job[r] \in JobType
      /\ JobFits(job[r])
  BY DEF OnToken, OnRoute, SoFar, ChainInv, ChainTypes
<1>2. CASE Step(r)
  <2>1. job'[r] = [job[r] EXCEPT !.pc = "wait"] /\ crashed' = crashed /\ job[r].pc = "step"
    BY <1>1, <1>2 DEF Step
  <2> QED
    BY <1>1, <2>1 DEF JobType
<1>3. ASSUME NEW good \in BOOLEAN, ~Past(job[r]), job'[r] = Emit(job[r], good),
             job[r].pc \in {"wait", "replay", "rebuild"}, crashed' = crashed
      PROVE  /\ job'[r].attempts = job[r].attempts
             /\ job'[r].out = job[r].out + 1 /\ job[r].out # MaxTokens
             /\ job'[r].pc \in {"step", "evict"}
  <2>1. job[r].out # MaxTokens
    BY <1>1, <1>3 DEF JobFits
  <2> QED
    BY <1>1, <1>3, <2>1, EmitIs
<1>4. CASE StepDone(r)
  BY <1>1, <1>3, <1>4, StepDoneIs
<1>5. CASE StepFailed(r)
  <2>1. /\ crashed' = crashed /\ job[r].pc = "wait"
        /\ job'[r] = [job[r] EXCEPT !.pc = "promote", !.stage = DeadStage(r), !.dev = DeadDevice(r)]
    BY <1>1, <1>5, StepFailedJob DEF StepFailed
  <2> QED
    BY <1>1, <2>1 DEF JobType
<1>6. CASE Promote(r)
  <2>1. /\ crashed' = crashed /\ job[r].pc = "promote"
        /\ job'[r] = [job[r] EXCEPT !.pc = "rewire", !.k = 1, !.rplan = plan]
    BY <1>1, <1>6, PromoteJob
  <2> QED
    BY <1>1, <2>1 DEF JobType
<1>7. CASE Rewire(r)
  <2> DEFINE next == [job[r] EXCEPT !.k = job[r].k + 1]
             build == [job[r] EXCEPT !.pc = "rebuild", !.k = 0]
             evict == StartEvict([job[r] EXCEPT !.k = 0], "replay")
  <2>1. /\ job'[r] = next \/ job'[r] = build \/ job'[r] = evict
        /\ crashed' = crashed /\ job[r].pc = "rewire"
    BY <1>1, <1>7 DEF Rewire, AfterRewire
  <2>2. /\ next.pc = "rewire" /\ next.out = job[r].out /\ next.attempts = job[r].attempts
        /\ build.pc = "rebuild" /\ build.out = job[r].out /\ build.attempts = job[r].attempts
        /\ evict.pc = "evict" /\ evict.out = job[r].out /\ evict.attempts = job[r].attempts
    BY <1>1, <2>1 DEF JobType, StartEvict
  <2> HIDE DEF next, build, evict
  <2> QED
    BY <2>1, <2>2
<1>8. CASE Evict(r)
  <2>1. PICK d \in job[r].todo :
          /\ d = CHOOSE x \in job[r].todo : TRUE
          /\ job'[r].pc = IF job[r].todo = {d} THEN job[r].then ELSE "evict"
    BY <1>1, <1>8, EvictJob
  <2>2. /\ job'[r] = [job[r] EXCEPT !.todo = @ \ {d},
                                    !.pc = IF job[r].todo = {d} THEN job[r].then ELSE @]
        /\ crashed' = crashed /\ job[r].pc = "evict"
    BY <1>1, <1>8, <2>1 DEF Evict
  <2>3. job'[r].out = job[r].out /\ job'[r].attempts = job[r].attempts
    BY <1>1, <2>2 DEF JobType
  <2>4. /\ job[r].then \in {"done", "replay"}
        /\ job[r].then = "done" => job[r].out = MaxTokens
    BY <2>2 DEF OnToken, TokenInv, TokenFits, Past
  <2> QED
    BY <2>1, <2>2, <2>3, <2>4
<1>9. CASE Replay(r)
  <2>1. /\ job'[r] = [job[r] EXCEPT !.dev = IF job[r].k = 0 THEN plan[1] ELSE @]
        /\ crashed' = crashed /\ job[r].pc = "replay"
    BY <1>1, <1>9 DEF Replay
  <2> QED
    BY <1>1, <2>1 DEF JobType
<1>10. CASE RecoveryAnswer(r)
  <2>1. CASE job'[r] = Emit(job[r], call[r].good)
    BY <1>1, <1>3, <1>10, <2>1, RecoveryAnswerIs
  <2>2. CASE job'[r] = [job[r] EXCEPT !.k = @ + 1]
    <3>1. crashed' = crashed /\ job[r].pc \in {"replay", "rebuild"}
      BY <1>1, <1>10, RecoveryAnswerIs
    <3> QED
      BY <1>1, <2>2, <3>1 DEF JobType
  <2> QED
    BY <1>1, <1>10, <2>1, <2>2, RecoveryAnswerIs
<1>11. CASE Rebuild(r)
  <2>1. /\ job'[r] = [job[r] EXCEPT !.dev = IF job[r].k = 0 THEN plan[job[r].stage] ELSE @]
        /\ crashed' = crashed /\ job[r].pc = "rebuild"
    BY <1>1, <1>11 DEF Rebuild
  <2> QED
    BY <1>1, <2>1 DEF JobType
<1> QED
  BY <1>2, <1>4, <1>5, <1>6, <1>7, <1>8, <1>9, <1>10, <1>11 DEF Gateway

LEMMA GatewayRefines ==
  ASSUME OnToken, TokenInv', NEW r \in Request, Gateway(r)
  PROVE  [Gen!Next]_Gen!genVars
<1> DEFINE e == [q \in Request |-> IF job[q].wrong THEN MaxTokens + 1 ELSE job[q].out]
           s == [q \in Request |-> IF Ended(q) THEN job[q].pc ELSE "running"]
           a == [q \in Request |-> job[q].attempts]
<1>1. /\ crashed' = crashed /\ ~Ended(r)
      /\ job'[r].attempts = job[r].attempts
      /\ \/ job'[r].out = job[r].out /\ ~(job'[r].pc \in {"done", "failed"})
         \/ /\ job'[r].out = job[r].out + 1 /\ job[r].out # MaxTokens
            /\ ~(job'[r].pc \in {"done", "failed"})
         \/ job'[r].out = job[r].out /\ job[r].out = MaxTokens /\ job'[r].pc = "done"
  BY GatewayGenerates DEF Ended
<1>2. /\ \A q \in Request : q = r
      /\ ~job[r].wrong /\ ~job'[r].wrong /\ job[r].out \in 0..MaxTokens /\ MaxTokens \in Nat
  BY Shape DEF OnToken, OnRoute, SoFar, OneFault, OneRequest, TokenInv, TokenFits, ChainInv,
     ChainTypes, JobType
<1>3. e[r] = job[r].out /\ e'[r] = job'[r].out /\ s[r] = "running" /\ a[r] = job[r].attempts
  BY <1>1, <1>2
<1>4. a' = a
  BY <1>1, <1>2
<1>5. CASE job'[r].out = job[r].out /\ ~(job'[r].pc \in {"done", "failed"})
  <2>1. e' = e /\ s' = s
    BY <1>1, <1>2, <1>5 DEF Ended
  <2> QED
    BY <1>1, <1>4, <2>1 DEF Gen!genVars
<1>6. CASE /\ job'[r].out = job[r].out + 1 /\ job[r].out # MaxTokens
           /\ ~(job'[r].pc \in {"done", "failed"})
  <2>1. s' = s
    BY <1>1, <1>2, <1>6 DEF Ended
  <2>2. e' = [e EXCEPT ![r] = @ + 1] /\ e[r] < MaxTokens
    BY <1>2, <1>3, <1>6
  <2>3. Gen!EmitToken(r)
    BY <1>1, <1>3, <1>4, <2>1, <2>2 DEF Gen!EmitToken
  <2> QED
    BY <2>3 DEF Gen!Next
<1>7. CASE job'[r].out = job[r].out /\ job[r].out = MaxTokens /\ job'[r].pc = "done"
  <2>1. e' = e
    BY <1>2, <1>7
  <2>2. s' = [s EXCEPT ![r] = "done"] /\ e[r] = MaxTokens
    BY <1>2, <1>3, <1>7 DEF Ended
  <2>3. Gen!Finish(r)
    BY <1>1, <1>3, <1>4, <2>1, <2>2 DEF Gen!Finish
  <2> QED
    BY <2>3 DEF Gen!Next
<1> QED
  BY <1>1, <1>5, <1>6, <1>7

LEMMA NextRefines == OnToken /\ TokenInv' /\ [Next]_vars => [Gen!Next]_Gen!genVars
<1> SUFFICES ASSUME OnToken, TokenInv', [Next]_vars PROVE [Gen!Next]_Gen!genVars
  OBVIOUS
<1>1. CASE UNCHANGED <<crashed, job>>
  BY <1>1 DEF Gen!genVars, Ended
<1>2. ASSUME NEW r \in Request, Chain(r) PROVE UNCHANGED <<crashed, job>>
  BY <1>2 DEF Chain, RunStage, Forward, Return, CallFails
<1>3. Orphan => UNCHANGED <<crashed, job>>
  BY DEF Orphan, OrphanRuns, OrphanForwards, OrphanVanishes
<1>4. ASSUME NEW m \in mirrors, DeliverMirror(m) PROVE UNCHANGED <<crashed, job>>
  BY <1>4 DEF DeliverMirror
<1>5. ASSUME NEW d \in Device, MarkedFromOutside(d) PROVE UNCHANGED <<crashed, job>>
  BY <1>5 DEF MarkedFromOutside
<1>6. ASSUME NEW d \in Device, Crash(d) PROVE Gen!Next
  <2>1. Gen!CrashWorker(d)
    BY <1>6 DEF Crash, Gen!CrashWorker, Ended
  <2> QED
    BY <2>1 DEF Gen!Next
<1>7. Finished \/ UNCHANGED vars => UNCHANGED <<crashed, job>>
  BY DEF Finished, vars
<1> QED
  BY <1>1, <1>2, <1>3, <1>4, <1>5, <1>6, <1>7, GatewayRefines DEF Next

\* The chain and its recovery implement the reference generator: tokens come out
\* in order and right, a crash makes no request start over or fail, and a request
\* is over when, and only when, its last token is out.
THEOREM RecoveryGeneratesLikeReference ==
  ASSUME OneFault, HeadStays, OnlyTailCrashes
  PROVE  Spec => GeneratesLikeReference
<1>1. Init => Gen!Init
  <2> SUFFICES ASSUME Init PROVE Gen!Init
    OBVIOUS
  <2>1. \A r \in Request : job[r].pc = "step" /\ job[r].out = 0 /\ ~job[r].wrong /\ job[r].attempts = 0
    BY DEF Init
  <2> QED
    BY <2>1 DEF Init, Gen!Init, Ended
<1>2. ChainInv /\ BlameInv /\ FaultInv /\ RouteInv /\ TokenInv /\ SurgeryInv /\ TokenInv'
        /\ [Next]_vars
      => [Gen!Next]_Gen!genVars
  BY NextRefines DEF OnToken, OnRoute, SoFar
<1> QED
  BY <1>1, <1>2, TokenHolds, PTL DEF Spec, GeneratesLikeReference, Gen!Spec
=============================================================================
