------------------------- MODULE ActivationCacheProofs -------------------------
(***************************************************************************)
(* Proofs about ActivationCache, for every set of requests, every length   *)
(* of their inputs and every budget:                                       *)
(*   - a full replay is never fed a part of a history.  The thread puts    *)
(*     the inputs of the head in order, nobody else does, and an eviction, *)
(*     whenever it comes, takes all of them;                               *)
(*   - _bytes_used is the number of bytes that are held, and never over    *)
(*     the budget;                                                         *)
(*   - what was used last is evicted last;                                 *)
(*   - types.                                                              *)
(* What the count of bytes is compared with is a sum over the cache (see   *)
(* CommonLemmas for what is used of sums).                                 *)
(***************************************************************************)
EXTENDS ActivationCache, CommonLemmas

\* What the argument needs to know of the types.
Types ==
  /\ slots \in [Request -> [StageKey -> [Position -> Nat]]]
  /\ mirrors \subseteq Pushed
  /\ pc \in [Request -> {"idle", "waiting", "fallback", "replay", "done", "ended"}]
  /\ position \in [Request -> Position]
  /\ attempt \in [Request -> Nat \ {0}]
  /\ replayed = [r \in Request |-> replayed[r]]

\* The positions whose input the thread of r has put in this attempt.
Put(r, p) == p < position[r] \/ (p = position[r] /\ pc[r] # "idle")

\* The head's inputs that are held: of this attempt, among those that were put,
\* and with every one all that were put after it.
HeadHistory(r) ==
  \A p \in Position :
    /\ slots[r][head_key][p] \in {0, attempt[r]}
    /\ slots[r][head_key][p] # 0 =>
         /\ Put(r, p)
         /\ \A q \in Position : p < q /\ Put(r, q) => slots[r][head_key][q] # 0

HeadInv ==
  /\ Types
  /\ \A r \in Request : pc[r] # "ended" => HeadHistory(r)
  /\ ReplaysTheWholeAttempt

-----------------------------------------------------------------------------
(* What the operations of the cache do to its contents. *)

LEMMA NoSlotsType == NoSlots \in [StageKey -> [Position -> Nat]]
  BY DEF NoSlots

\* A put adds at most the input it is called with, and an eviction takes all of
\* a request's inputs or none of them.
LEMMA PutEffect ==
  ASSUME Types, NEW r \in Request, NEW s \in StageKey, NEW p \in Position,
         NEW a \in Nat \ {0}, put(r, s, p, a)
  PROVE  /\ slots' \in [Request -> [StageKey -> [Position -> Nat]]]
         /\ \A x \in Request : \/ slots'[x] = NoSlots
                               \/ slots'[x] = slots[x]
                               \/ x = r /\ slots'[x] = [slots[r] EXCEPT ![s][p] = a]
         /\ slots[r][s][p] = 0 =>
              \/ slots'[r] = NoSlots
              \/ slots'[r] = [slots[r] EXCEPT ![s][p] = a]
  <1> DEFINE h == [slots EXCEPT ![r][s][p] = a]
  <1>1. h \in [Request -> [StageKey -> [Position -> Nat]]]
    BY DEF Types
  <1>2. \A x \in Request : h[x] = IF x = r THEN [slots[r] EXCEPT ![s][p] = a] ELSE slots[x]
    BY DEF Types
  <1>3. CASE slots[r][s][p] # 0
    BY <1>3 DEF put, Types
  <1>4. CASE slots[r][s][p] = 0
    <2>1. evict_if_needed(move_to_end(r), h, bytes_used + Bytes[r][p])
      BY <1>4 DEF put
    <2> HIDE DEF h
    <2>2. PICK out :
            slots' = [x \in Request |-> IF x \in out THEN NoSlots ELSE h[x]]
      BY <2>1 DEF evict_if_needed
    <2>3. QED BY <2>2, <1>1, <1>2, <1>4, NoSlotsType
  <1>5. QED BY <1>3, <1>4

LEMMA EvictRequestEffect ==
  ASSUME Types, NEW r \in Request, evict_request(r)
  PROVE  /\ slots' \in [Request -> [StageKey -> [Position -> Nat]]]
         /\ slots'[r] = NoSlots
         /\ \A x \in Request : x # r => slots'[x] = slots[x]
  BY NoSlotsType DEF Types, evict_request

\* A history with anything in it starts at position 0.
LEMMA HistoryStartsAtZero ==
  ASSUME Types, NEW r \in Request, DOMAIN history(r, head_key) # {}
  PROVE  slots[r][head_key][0] # 0 /\ 0 \in Position
  BY BoundAssumption DEF history, Position

LEMMA PushesType ==
  ASSUME Types, NEW r \in Request, NEW P \in SUBSET Position
  PROVE  Pushes(r, P) \subseteq Pushed
  BY DEF Pushes, Pushed, Types

-----------------------------------------------------------------------------
LEMMA InitHeadInv == Init => HeadInv
  <1> SUFFICES ASSUME Init PROVE HeadInv
    OBVIOUS
  <1>1. Types
    BY NoSlotsType, BoundAssumption DEF Init, Types, Position
  <1>2. \A r \in Request : HeadHistory(r)
    BY HeadAssumption DEF Init, HeadHistory, NoSlots
  <1>3. ReplaysTheWholeAttempt
    BY DEF Init, ReplaysTheWholeAttempt
  <1>4. QED BY <1>1, <1>2, <1>3 DEF HeadInv

\* Every action keeps the types.
LEMMA TypesStep ==
  ASSUME Types, [Next]_vars
  PROVE  Types'
  <1> USE DEF Types
  <1>1. ASSUME NEW r \in Request, Step(r) PROVE Types'
    <2>1. put(r, head_key, position[r], attempt[r])
      BY <1>1 DEF Step
    <2>2. slots' \in [Request -> [StageKey -> [Position -> Nat]]]
      BY <2>1, PutEffect, HeadAssumption
    <2>3. Pushes(r, {position[r]}) \subseteq Pushed
      BY PushesType
    <2>4. QED BY <1>1, <2>2, <2>3 DEF Step
  <1>2. ASSUME NEW r \in Request, Answer(r) PROVE Types'
    <2>1. position[r] < MaxPosition => position[r] + 1 \in Position
      BY BoundAssumption DEF Position
    <2>2. QED BY <1>2, <2>1 DEF Answer, cacheVars
  <1>3. ASSUME NEW r \in Request, ReadHead(r) PROVE Types'
    <2>1. DOMAIN history(r, head_key) \subseteq Position
      BY DEF history
    <2>2. Pushes(r, DOMAIN history(r, head_key)) \subseteq Pushed
      BY <2>1, PushesType
    <2>3. QED BY <1>3, <2>2 DEF ReadHead, get_history
  <1>4. ASSUME NEW r \in Request, NEW s \in StageKey, ReadStage(r, s) PROVE Types'
    <2>1. Pushes(r, {position[r]}) \subseteq Pushed
      <3>1. {position[r]} \in SUBSET Position
        OBVIOUS
      <3>2. QED BY <3>1, PushesType
    <2>2. QED BY <1>4, <2>1 DEF ReadStage, get_history
  <1>5. ASSUME NEW r \in Request, StartOver(r) PROVE Types'
    <2>1. slots' \in [Request -> [StageKey -> [Position -> Nat]]]
      BY <1>5, EvictRequestEffect DEF StartOver
    <2>2. 0 \in Position
      BY BoundAssumption DEF Position
    <2>3. attempt' \in [Request -> Nat \ {0}] /\ position' \in [Request -> Position]
      BY <1>5, <2>2 DEF StartOver
    <2>4. /\ mirrors' = mirrors
          /\ pc' = [pc EXCEPT ![r] = "idle"]
          /\ replayed' = [replayed EXCEPT ![r] = Nothing]
      BY <1>5 DEF StartOver
    <2>5. QED BY <2>1, <2>3, <2>4
  <1>6. ASSUME NEW r \in Request, GiveUp(r) PROVE Types'
    BY <1>6 DEF GiveUp, cacheVars
  <1>7. ASSUME NEW r \in Request, End(r) PROVE Types'
    <2>1. slots' \in [Request -> [StageKey -> [Position -> Nat]]]
      BY <1>7, EvictRequestEffect DEF End
    <2>2. QED BY <1>7, <2>1 DEF End
  <1>8. ASSUME NEW m \in mirrors, DeliverMirror(m) PROVE Types'
    <2>1. /\ m.req \in Request /\ m.stage \in StageKey
          /\ m.at \in Position /\ m.from \in Nat \ {0}
      BY DEF Pushed
    <2>2. put(m.req, m.stage, m.at, m.from)
      BY <1>8 DEF DeliverMirror
    <2>3. slots' \in [Request -> [StageKey -> [Position -> Nat]]]
      BY <2>1, <2>2, PutEffect
    <2>4. QED BY <1>8, <2>3 DEF DeliverMirror, threadVars
  <1>9. ASSUME NEW m \in mirrors, LoseMirror(m) PROVE Types'
    BY <1>9 DEF LoseMirror, cacheVars, threadVars
  <1>10. CASE UNCHANGED vars
    BY <1>10 DEF vars, cacheVars, threadVars
  <1>11. QED
    BY <1>1, <1>2, <1>3, <1>4, <1>5, <1>6, <1>7, <1>8, <1>9, <1>10 DEF Next, Thread

\* A history stays in order when the thread puts nothing new and the inputs stay
\* or go as a whole.
LEMMA HistoryKept ==
  ASSUME Types, Types', NEW x \in Request, HeadHistory(x),
         slots'[x] = NoSlots \/ slots'[x][head_key] = slots[x][head_key],
         slots'[x] = NoSlots \/ attempt'[x] = attempt[x],
         slots'[x] = NoSlots \/ \A p \in Position : Put(x, p)' <=> Put(x, p)
  PROVE  HeadHistory(x)'
  <1>1. CASE slots'[x] = NoSlots
    BY <1>1, HeadAssumption DEF HeadHistory, NoSlots
  <1>2. CASE slots'[x] # NoSlots
    BY <1>2 DEF HeadHistory
  <1>3. QED BY <1>1, <1>2

\* The step that puts the next input of the head.
LEMMA HistoryGrows ==
  ASSUME Types, Types', NEW r \in Request, HeadHistory(r), Step(r)
  PROVE  HeadHistory(r)'
  <1>1. /\ pc[r] = "idle" /\ pc'[r] = "waiting"
        /\ position'[r] = position[r] /\ attempt'[r] = attempt[r]
    BY DEF Step, Types
  <1>2. \A p \in Position : /\ Put(r, p) <=> p < position[r]
                            /\ Put(r, p)' <=> p < position[r] \/ p = position[r]
    BY <1>1 DEF Put
  <1>3. position[r] \in Position /\ attempt[r] \in Nat \ {0}
    BY DEF Types
  <1>4. put(r, head_key, position[r], attempt[r])
    BY DEF Step
  <1>5. slots[r][head_key][position[r]] = 0
    BY <1>2, <1>3 DEF HeadHistory, Position
  <1>6. \/ slots'[r] = NoSlots
        \/ slots'[r] = [slots[r] EXCEPT ![head_key][position[r]] = attempt[r]]
    BY <1>3, <1>4, <1>5, HeadAssumption, PutEffect
  <1>7. CASE slots'[r] = NoSlots
    BY <1>7, HeadAssumption DEF HeadHistory, NoSlots
  <1>8. CASE slots'[r] = [slots[r] EXCEPT ![head_key][position[r]] = attempt[r]]
    <2>1. \A p \in Position :
            slots'[r][head_key][p] =
              IF p = position[r] THEN attempt[r] ELSE slots[r][head_key][p]
      BY <1>8, HeadAssumption DEF Types
    <2>2. ASSUME NEW p \in Position PROVE slots'[r][head_key][p] \in {0, attempt'[r]}
      BY <2>1, <1>1 DEF HeadHistory
    <2>3. ASSUME NEW p \in Position, slots'[r][head_key][p] # 0
          PROVE  /\ Put(r, p)'
                 /\ \A q \in Position :
                      p < q /\ Put(r, q)' => slots'[r][head_key][q] # 0
      BY <2>1, <2>3, <1>2, <1>3 DEF HeadHistory, Position
    <2>4. QED BY <2>2, <2>3 DEF HeadHistory
  <1>9. QED BY <1>6, <1>7, <1>8

\* No action takes a request out of "ended", and none but its own touches the
\* history of its head.
LEMMA HistoriesStep ==
  ASSUME HeadInv, [Next]_vars, NEW x \in Request, pc'[x] # "ended"
  PROVE  HeadHistory(x)'
  <1>1. Types /\ Types'
    BY TypesStep DEF HeadInv
  <1>2. ASSUME pc[x] # "ended" PROVE HeadHistory(x)
    BY <1>2 DEF HeadInv
  <1>3. ASSUME NEW r \in Request, Step(r) PROVE HeadHistory(x)'
    <2>1. CASE x = r
      BY <2>1, <1>1, <1>2, <1>3, HistoryGrows DEF Step
    <2>2. CASE x # r
      <3>1. position[r] \in Position /\ attempt[r] \in Nat \ {0}
        BY <1>1 DEF Types
      <3>2. slots'[x] = NoSlots \/ slots'[x] = slots[x]
        <4>1. put(r, head_key, position[r], attempt[r])
          BY <1>3 DEF Step
        <4>2. QED BY <2>2, <3>1, <4>1, <1>1, HeadAssumption, PutEffect
      <3>3. pc'[x] = pc[x] /\ position'[x] = position[x] /\ attempt'[x] = attempt[x]
        BY <2>2, <1>1, <1>3 DEF Step, Types
      <3>4. QED BY <1>1, <1>2, <3>2, <3>3, HistoryKept DEF Put
    <2>3. QED BY <2>1, <2>2
  <1>4. ASSUME NEW r \in Request, Answer(r) PROVE HeadHistory(x)'
    <2>1. /\ slots' = slots /\ attempt' = attempt
          /\ pc[x] # "ended"
          /\ \/ pc'[x] = pc[x] /\ position'[x] = position[x]
             \/ /\ pc[x] # "idle"
                /\ \/ pc'[x] = "idle" /\ position'[x] = position[x] + 1
                   \/ pc'[x] = "done" /\ position'[x] = position[x]
      BY <1>1, <1>4 DEF Answer, cacheVars, Types
    <2>2. \A p \in Position : Put(x, p)' <=> Put(x, p)
      BY <2>1, <1>1 DEF Put, Types, Position
    <2>3. QED BY <2>1, <2>2, <1>1, <1>2, HistoryKept
  <1>5. ASSUME NEW r \in Request,
               ReadHead(r) \/ GiveUp(r) \/ \E s \in StageKey : ReadStage(r, s)
        PROVE  HeadHistory(x)'
    <2>1. /\ slots' = slots /\ attempt' = attempt /\ position' = position
          /\ pc[x] # "ended"
          /\ pc'[x] = "idle" <=> pc[x] = "idle"
      BY <1>1, <1>5 DEF ReadHead, ReadStage, GiveUp, get_history, cacheVars, Types
    <2>2. QED BY <2>1, <1>1, <1>2, HistoryKept DEF Put
  <1>6. ASSUME NEW r \in Request, StartOver(r) \/ End(r) PROVE HeadHistory(x)'
    <2>1. slots'[r] = NoSlots /\ \A y \in Request : y # r => slots'[y] = slots[y]
      BY <1>1, <1>6, EvictRequestEffect DEF StartOver, End
    <2>2. CASE x = r
      BY <2>1, <2>2, HeadAssumption DEF HeadHistory, NoSlots
    <2>3. CASE x # r
      <3>1. pc'[x] = pc[x] /\ position'[x] = position[x] /\ attempt'[x] = attempt[x]
        BY <2>3, <1>1, <1>6 DEF StartOver, End, Types
      <3>2. QED BY <2>1, <2>3, <3>1, <1>1, <1>2, HistoryKept DEF Put
    <2>4. QED BY <2>2, <2>3
  <1>7. ASSUME NEW r \in Request, NEW s \in StageKey, s # head_key,
               NEW p \in Position, NEW a \in Nat \ {0},
               put(r, s, p, a), UNCHANGED threadVars
        PROVE  HeadHistory(x)'
    <2>1. \/ slots'[x] = NoSlots
          \/ slots'[x] = slots[x]
          \/ x = r /\ slots'[x] = [slots[r] EXCEPT ![s][p] = a]
      BY <1>1, <1>7, PutEffect
    <2>2. slots'[x] = NoSlots \/ slots'[x][head_key] = slots[x][head_key]
      BY <2>1, <1>1, <1>7, HeadAssumption DEF Types
    <2>3. QED BY <2>2, <1>1, <1>2, <1>7, HistoryKept DEF threadVars, Put
  <1>8. ASSUME NEW m \in mirrors, DeliverMirror(m) PROVE HeadHistory(x)'
    <2>1. /\ m.req \in Request /\ m.stage \in StageKey /\ m.stage # head_key
          /\ m.at \in Position /\ m.from \in Nat \ {0}
      BY <1>1 DEF Types, Pushed
    <2>2. put(m.req, m.stage, m.at, m.from) /\ UNCHANGED threadVars
      BY <1>8 DEF DeliverMirror
    <2>3. QED BY <2>1, <2>2, <1>7
  <1>9. CASE (\E m \in mirrors : LoseMirror(m)) \/ UNCHANGED vars
    BY <1>1, <1>2, <1>9, HistoryKept DEF LoseMirror, vars, cacheVars, threadVars, Put
  <1>10. QED
    BY <1>3, <1>4, <1>5, <1>6, <1>8, <1>9 DEF Next, Thread

\* What a full replay reads is the whole attempt.
LEMMA WholeHistory ==
  ASSUME Types, NEW r \in Request, HeadHistory(r), pc[r] # "idle",
         DOMAIN history(r, head_key) # {}
  PROVE  history(r, head_key) = [p \in 0..position[r] |-> attempt[r]]
  <1>1. position[r] \in Position /\ position[r] \in 0..MaxPosition
    BY DEF Types, Position
  <1>2. slots[r][head_key][0] # 0 /\ 0 \in Position
    BY HistoryStartsAtZero
  <1>3. \A p \in Position : slots[r][head_key][p] # 0 <=> p \in 0..position[r]
    BY <1>1, <1>2 DEF HeadHistory, Put, Position
  <1>4. {p \in Position : \A q \in 0..p : slots[r][head_key][q] # 0} = 0..position[r]
    BY <1>1, <1>3, BoundAssumption DEF Position
  <1>5. \A p \in 0..position[r] : slots[r][head_key][p] = attempt[r]
    BY <1>1, <1>3, BoundAssumption DEF HeadHistory, Position
  <1>6. QED BY <1>4, <1>5 DEF history

LEMMA ReplaysStep ==
  ASSUME HeadInv, [Next]_vars
  PROVE  ReplaysTheWholeAttempt'
  <1> SUFFICES ASSUME NEW x \in Request, pc'[x] = "replay",
                      replayed'[x].stage = head_key
               PROVE  replayed'[x].inputs = [p \in 0..position'[x] |-> attempt'[x]]
    BY DEF ReplaysTheWholeAttempt
  <1>1. Types
    BY DEF HeadInv
  <1>2. ASSUME pc[x] = "replay", replayed'[x] = replayed[x],
               position'[x] = position[x], attempt'[x] = attempt[x]
        PROVE  replayed'[x].inputs = [p \in 0..position'[x] |-> attempt'[x]]
    BY <1>2 DEF HeadInv, ReplaysTheWholeAttempt
  <1>3. ASSUME NEW r \in Request, ReadHead(r)
        PROVE  replayed'[x].inputs = [p \in 0..position'[x] |-> attempt'[x]]
    <2>1. CASE x # r
      BY <2>1, <1>1, <1>2, <1>3 DEF ReadHead, Types
    <2>2. CASE x = r
      <3>1. /\ pc[x] \in {"waiting", "fallback"}
            /\ DOMAIN history(x, head_key) # {}
            /\ replayed'[x] = [stage |-> head_key, inputs |-> history(x, head_key)]
            /\ position' = position /\ attempt' = attempt
        BY <2>2, <1>1, <1>3 DEF ReadHead, Types
      <3>2. HeadHistory(x)
        BY <3>1 DEF HeadInv
      <3>3. history(x, head_key) = [p \in 0..position[x] |-> attempt[x]]
        BY <3>1, <3>2, <1>1, WholeHistory
      <3>4. QED BY <3>1, <3>3
    <2>3. QED BY <2>1, <2>2
  <1>4. ASSUME NEW r \in Request, NEW s \in StageKey \ {head_key}, ReadStage(r, s)
        PROVE  replayed'[x].inputs = [p \in 0..position'[x] |-> attempt'[x]]
    <2>1. x # r
      BY <1>1, <1>4 DEF ReadStage, Types
    <2>2. QED BY <2>1, <1>1, <1>2, <1>4 DEF ReadStage, Types
  <1>5. ASSUME NEW r \in Request,
               Step(r) \/ Answer(r) \/ StartOver(r) \/ GiveUp(r) \/ End(r)
        PROVE  replayed'[x].inputs = [p \in 0..position'[x] |-> attempt'[x]]
    <2>1. x # r
      BY <1>1, <1>5 DEF Step, Answer, StartOver, GiveUp, End, Types
    <2>2. QED
      BY <2>1, <1>1, <1>2, <1>5 DEF Step, Answer, StartOver, GiveUp, End, Types
  <1>6. CASE \/ \E m \in mirrors : DeliverMirror(m) \/ LoseMirror(m)
             \/ UNCHANGED vars
    BY <1>2, <1>6 DEF DeliverMirror, LoseMirror, vars, threadVars
  <1>7. QED
    BY <1>3, <1>4, <1>5, <1>6 DEF Next, Thread

\* HeadInv is inductive.
LEMMA HeadInvariant == Spec => []HeadInv
  <1>1. HeadInv /\ [Next]_vars => HeadInv'
    <2> SUFFICES ASSUME HeadInv, [Next]_vars PROVE HeadInv'
      OBVIOUS
    <2>1. Types'
      BY TypesStep DEF HeadInv
    <2>2. \A r \in Request : pc'[r] # "ended" => HeadHistory(r)'
      BY HistoriesStep
    <2>3. ReplaysTheWholeAttempt'
      BY ReplaysStep
    <2>4. QED BY <2>1, <2>2, <2>3 DEF HeadInv
  <1>2. QED BY <1>1, InitHeadInv, PTL DEF Spec

\* Whatever the budget, the prompts and the order in which pushes arrive, a full
\* replay sends the inputs of all positions of the running attempt up to the
\* failed one, never a part of them (get_history, _replay_through_chain).
THEOREM FullReplayIsWhole == Spec => []ReplaysTheWholeAttempt
  <1>1. HeadInv => ReplaysTheWholeAttempt
    BY DEF HeadInv
  <1>2. QED BY <1>1, HeadInvariant, PTL

-----------------------------------------------------------------------------
(* The order of use.                                                        *)

\* The request that is used is in the order once, and last.
LEMMA MoveToEndEffect ==
  ASSUME by_request \in Seq(Request), Once(by_request), NEW r \in Request
  PROVE  LET order == move_to_end(r)
         IN /\ order \in Seq(Request) /\ Once(order)
            /\ \A x : Contains(order, x) <=> Contains(by_request, x) \/ x = r
            /\ Len(order) > 0 /\ order[Len(order)] = r
  BY MovedToEnd DEF move_to_end

-----------------------------------------------------------------------------
(* Bytes.                                                                   *)

Contents == [StageKey -> [Position -> Nat]]

LEMMA CellsFinite == \A C \in SUBSET (StageKey \X Position) : IsFiniteSet(C)
<1>1. IsFiniteSet(Position)
  BY BoundAssumption, FS_Interval DEF Position
<1>2. IsFiniteSet(StageKey \X Position)
  BY <1>1, FiniteAssumption, FS_Product
<1> QED
  BY <1>2, FS_Subset

LEMMA WeightIsNat ==
  ASSUME NEW r \in Request, NEW h
  PROVE  Weight(r, h) \in Nat
<1> DEFINE f == [k \in StageKey \X Position |-> Bytes[r][k[2]]]
           C == {k \in StageKey \X Position : h[k[1]][k[2]] # 0}
<1>1. IsFiniteSet(C)
  BY CellsFinite
<1>2. \A k \in C : f[k] \in Nat
  BY BytesAssumption
<1> HIDE DEF f, C
<1>3. SumFunctionOnSet(f, C) \in Nat
  BY <1>1, <1>2, SumIsNat
<1> QED
  BY <1>3 DEF Weight, f, C

LEMMA NothingWeighsNothing ==
  ASSUME NEW r \in Request
  PROVE  Weight(r, NoSlots) = 0
<1>1. {k \in StageKey \X Position : NoSlots[k[1]][k[2]] # 0} = {}
  BY DEF NoSlots
<1> QED
  BY <1>1, SumOfNone DEF Weight

\* An input adds its length.
LEMMA InputWeighs ==
  ASSUME NEW r \in Request, NEW h \in Contents, NEW s \in StageKey, NEW p \in Position,
         h[s][p] = 0, NEW a \in Nat \ {0}
  PROVE  Weight(r, [h EXCEPT ![s][p] = a]) = Weight(r, h) + Bytes[r][p]
<1> DEFINE f == [k \in StageKey \X Position |-> Bytes[r][k[2]]]
           g == [h EXCEPT ![s][p] = a]
           C == {k \in StageKey \X Position : h[k[1]][k[2]] # 0}
           D == {k \in StageKey \X Position : g[k[1]][k[2]] # 0}
<1>1. \A x \in StageKey, y \in Position : g[x][y] = IF x = s /\ y = p THEN a ELSE h[x][y]
  BY DEF Contents
<1> HIDE DEF g
<1>2. <<s, p>> \in D /\ D \ {<<s, p>>} = C
  <2>1. <<s, p>> \in D
    BY <1>1
  <2>2. ASSUME NEW k \in StageKey \X Position
        PROVE  k \in D \ {<<s, p>>} <=> k \in C
    <3>1. k = <<k[1], k[2]>> /\ k[1] \in StageKey /\ k[2] \in Position
      OBVIOUS
    <3>2. k = <<s, p>> <=> k[1] = s /\ k[2] = p
      BY <3>1
    <3> QED
      BY <1>1, <3>1, <3>2
  <2> QED
    BY <2>1, <2>2
<1>3. IsFiniteSet(D)
  BY CellsFinite
<1>4. (\A k \in D : f[k] \in Nat) /\ f[<<s, p>>] = Bytes[r][p] /\ Bytes[r][p] \in Nat
  BY BytesAssumption
<1>5. Weight(r, h) = SumFunctionOnSet(f, C) /\ Weight(r, g) = SumFunctionOnSet(f, D)
  BY DEF Weight
<1> HIDE DEF f, C, D
<1>6. SumFunctionOnSet(f, D) = f[<<s, p>>] + SumFunctionOnSet(f, C)
  BY <1>2, <1>3, <1>4, SumWithout
<1>7. SumFunctionOnSet(f, C) \in Nat
  BY <1>5, WeightIsNat
<1>8. Weight(r, g) = Weight(r, h) + Bytes[r][p]
  BY <1>4, <1>5, <1>6, <1>7
<1> QED
  BY <1>8 DEF g

Weights(h) == [r \in Request |-> Weight(r, h[r])]

LEMMA WeightsAreNat == \A h : \A r \in Request : Weights(h)[r] = Weight(r, h[r]) /\ Weights(h)[r] \in Nat
  BY WeightIsNat DEF Weights

LEMMA TotalIsNat ==
  ASSUME NEW h
  PROVE  Total(h) \in Nat /\ Total(h) = SumFunctionOnSet(Weights(h), Request)
  BY FiniteAssumption, WeightsAreNat, SumIsNat DEF Total, Weights

\* What changes for one request changes the total.
LEMMA TotalOfOther ==
  ASSUME NEW g, NEW h, NEW r \in Request, \A x \in Request : x # r => g[x] = h[x]
  PROVE  Total(g) + Weight(r, h[r]) = Total(h) + Weight(r, g[r])
<1> DEFINE S == Request \ {r}
<1>1. IsFiniteSet(Request) /\ IsFiniteSet(S)
  BY FiniteAssumption, FS_Subset
<1>2. SumFunctionOnSet(Weights(g), Request)
        = Weights(g)[r] + SumFunctionOnSet(Weights(g), S)
  BY <1>1, WeightsAreNat, SumWithout
<1>3. SumFunctionOnSet(Weights(h), Request)
        = Weights(h)[r] + SumFunctionOnSet(Weights(h), S)
  BY <1>1, WeightsAreNat, SumWithout
<1>4. SumFunctionOnSet(Weights(g), S) = SumFunctionOnSet(Weights(h), S)
  <2>1. \A x \in S : Weights(g)[x] = Weights(h)[x]
    BY WeightsAreNat
  <2> HIDE DEF S
  <2> QED
    BY <1>1, <2>1, SameSum
<1>5. SumFunctionOnSet(Weights(g), S) \in Nat
  <2>1. \A x \in S : Weights(g)[x] \in Nat
    BY WeightsAreNat
  <2> HIDE DEF S
  <2> QED
    BY <1>1, <2>1, SumIsNat
<1> HIDE DEF S
<1> QED
  BY <1>2, <1>3, <1>4, <1>5, TotalIsNat, WeightsAreNat

-----------------------------------------------------------------------------
(* Evictions.                                                               *)

LEMMA FreedIs ==
  ASSUME NEW order \in Seq(Request), Once(order), NEW k \in 0..Len(order), NEW h
  PROVE  Freed(order, h, k) = SumFunctionOnSet(Weights(h), ImageOf(order, 1..k))
<1> DEFINE S == 1..k
           f == [i \in DOMAIN order |-> Weight(order[i], h[order[i]])]
<1>1. IsFiniteSet(S) /\ S \subseteq DOMAIN order
  <2>1. IsFiniteSet(S)
    BY FS_Interval
  <2> QED
    BY <2>1
<1>2. \A i, j \in S : order[i] = order[j] => i = j
  BY <1>1 DEF Once
<1>3. \A i \in S : f[i] = Weights(h)[order[i]] /\ f[i] \in Nat
  BY <1>1, WeightsAreNat
<1>4. Freed(order, h, k) = SumFunctionOnSet(f, S)
  BY DEF Freed
<1> HIDE DEF f, S
<1>5. SumFunctionOnSet(f, S) = SumFunctionOnSet(Weights(h), ImageOf(order, S))
  BY <1>1, <1>2, <1>3, SumOfImage
<1> QED
  BY <1>4, <1>5 DEF S

\* Popping stops as soon as the rest fits, or when nothing is left.
LEMMA PoppedIs ==
  ASSUME NEW order \in Seq(Request), NEW h, NEW used
  PROVE  LET k == Popped(order, h, used)
         IN  k \in 0..Len(order) /\ (used - Freed(order, h, k) <= max_bytes \/ k = Len(order))
<1> DEFINE T == {k \in 0..Len(order) : used - Freed(order, h, k) <= max_bytes \/ k = Len(order)}
<1>1. T \in SUBSET Nat /\ Len(order) \in T
  OBVIOUS
<1> HIDE DEF T
<1>2. \E m \in T : \A n \in T : m <= n
  BY <1>1, Least
<1>3. Min(T) \in T
  BY <1>2 DEF Min
<1>4. Popped(order, h, used) = Min(T)
  BY DEF Popped, T
<1> QED
  BY <1>3, <1>4 DEF T

\* What an eviction leaves: an exact count, within the budget, and the request
\* that was used last unless nothing is left.
LEMMA EvictionEffect ==
  ASSUME NEW order \in Seq(Request), Once(order), NEW h \in [Request -> Contents],
         \A x \in Request : h[x] # NoSlots => Contains(order, x),
         evict_if_needed(order, h, Total(h))
  PROVE  /\ by_request' \in Seq(Request) /\ Once(by_request')
         /\ bytes_used' = Total(slots') /\ bytes_used' <= max_bytes
         /\ \A x \in Request : slots'[x] # NoSlots => Contains(by_request', x)
         /\ by_request' = << >> \/ slots'[order[Len(order)]] = h[order[Len(order)]]
<1> DEFINE k == Popped(order, h, Total(h))
           out == ImageOf(order, 1..k)
           left == [r \in Request |-> IF r \in out THEN NoSlots ELSE h[r]]
<1>1. k \in 0..Len(order) /\ (Total(h) - Freed(order, h, k) <= max_bytes \/ k = Len(order))
  BY PoppedIs
<1>2. /\ by_request' = SubSeq(order, k + 1, Len(order)) /\ slots' = left
      /\ bytes_used' = Total(h) - Freed(order, h, k)
  BY DEF evict_if_needed, ImageOf
<1> HIDE DEF k
<1>3. out \in SUBSET Request
  BY <1>1 DEF ImageOf
<1> DEFINE rest == Request \ out
<1>4. \A x \in Request : left[x] = IF x \in out THEN NoSlots ELSE h[x]
  OBVIOUS
<1> HIDE DEF left
<1>5. IsFiniteSet(Request) /\ IsFiniteSet(out) /\ IsFiniteSet(rest)
  BY <1>3, FiniteAssumption, FS_Subset
<1>6. rest \in SUBSET Request /\ Request \ out = rest
  OBVIOUS
<1>7. \A x \in rest : left[x] = h[x]
  BY <1>4
<1>8. \A x \in out : left[x] = NoSlots
  BY <1>3, <1>4
<1>9. Freed(order, h, k) = SumFunctionOnSet(Weights(h), out)
  BY <1>1, FreedIs
<1> HIDE DEF out, rest
<1>10. Total(left) = SumFunctionOnSet(Weights(left), rest)
  <2>1. Total(left) = SumFunctionOnSet(Weights(left), out) + SumFunctionOnSet(Weights(left), rest)
    BY <1>3, <1>5, <1>6, WeightsAreNat, TotalIsNat, SumOfParts
  <2>2. \A x \in out : Weights(left)[x] = 0
    BY <1>3, <1>8, WeightsAreNat, NothingWeighsNothing
  <2>3. SumFunctionOnSet(Weights(left), out) = 0
    BY <1>5, <2>2, SumOfZeros
  <2>4. SumFunctionOnSet(Weights(left), rest) \in Nat
    BY <1>5, <1>6, WeightsAreNat, SumIsNat
  <2> QED
    BY <2>1, <2>3, <2>4
<1>11. Total(h) = SumFunctionOnSet(Weights(h), out) + SumFunctionOnSet(Weights(h), rest)
  BY <1>3, <1>5, <1>6, WeightsAreNat, TotalIsNat, SumOfParts
<1>12. SumFunctionOnSet(Weights(h), rest) = SumFunctionOnSet(Weights(left), rest)
  <2>1. \A x \in rest : Weights(h)[x] = Weights(left)[x]
    BY <1>6, <1>7, WeightsAreNat
  <2> QED
    BY <1>5, <2>1, SameSum
<1>13. SumFunctionOnSet(Weights(h), out) \in Nat /\ SumFunctionOnSet(Weights(h), rest) \in Nat
  BY <1>3, <1>5, <1>6, WeightsAreNat, SumIsNat
<1>14. bytes_used' = Total(left)
  BY <1>2, <1>9, <1>10, <1>11, <1>12, <1>13
<1>15. \A x \in Request : x \in out <=> \E i \in 1..k : order[i] = x
  BY DEF out, ImageOf
<1>16. bytes_used' <= max_bytes
  <2>1. CASE Total(h) - Freed(order, h, k) <= max_bytes
    BY <1>2, <2>1
  <2>2. CASE k = Len(order)
    <3>1. \A x \in rest : left[x] = NoSlots
      BY <1>6, <1>7, <1>15, <2>2 DEF Contains, rest
    <3>2. \A x \in rest : Weights(left)[x] = 0
      BY <1>6, <3>1, WeightsAreNat, NothingWeighsNothing
    <3>3. Total(left) = 0
      BY <1>5, <1>10, <3>2, SumOfZeros
    <3> QED
      BY <1>14, <3>3, BytesAssumption
  <2> QED
    BY <1>1, <2>1, <2>2
<1> DEFINE t == SubSeq(order, k + 1, Len(order))
<1>17. /\ t \in Seq(Request) /\ Len(t) = Len(order) - k /\ DOMAIN t = 1..(Len(order) - k)
       /\ \A i \in 1..(Len(order) - k) : t[i] = order[k + i]
       /\ k \in Nat /\ Len(order) \in Nat /\ k <= Len(order) /\ DOMAIN order = 1..Len(order)
  <2>1. k \in Nat /\ Len(order) \in Nat /\ k <= Len(order) /\ DOMAIN order = 1..Len(order)
    BY <1>1
  <2> QED
    BY <1>1, <2>1, WithoutFirst
<1> HIDE DEF t
<1>18. Once(t)
  <2> SUFFICES ASSUME NEW i \in 1..(Len(order) - k), NEW j \in 1..(Len(order) - k), t[i] = t[j]
               PROVE  i = j
    BY <1>17 DEF Once
  <2>1. k + i \in DOMAIN order /\ k + j \in DOMAIN order /\ order[k + i] = order[k + j]
    BY <1>17
  <2>2. k + i = k + j
    BY <2>1 DEF Once
  <2> QED
    BY <1>17, <2>2
<1>19. ASSUME NEW x \in Request, left[x] # NoSlots
       PROVE  Contains(t, x)
  <2>1. x \notin out /\ h[x] # NoSlots
    BY <1>4, <1>8, <1>19
  <2>2. PICK i \in 1..Len(order) : order[i] = x
    BY <2>1 DEF Contains
  <2>3. ~(i <= k)
    BY <1>15, <1>17, <2>1, <2>2
  <2>4. i - k \in 1..Len(t) /\ k + (i - k) = i
    BY <1>17, <2>2, <2>3
  <2>5. t[i - k] = order[k + (i - k)]
    BY <1>17, <2>4
  <2> QED
    BY <2>2, <2>4, <2>5 DEF Contains
<1>20. t = << >> \/ left[order[Len(order)]] = h[order[Len(order)]]
  <2>1. CASE k = Len(order)
    <3>1. Len(t) = 0
      BY <1>17, <2>1
    <3> QED
      BY <1>17, <3>1
  <2>2. CASE k < Len(order)
    <3>1. Len(order) \in DOMAIN order /\ order[Len(order)] \in Request
      BY <1>17, <2>2
    <3>2. ASSUME NEW i \in 1..k
          PROVE  order[i] # order[Len(order)]
      <4>1. i \in DOMAIN order /\ i # Len(order)
        BY <1>17, <2>2
      <4> QED
        BY <3>1, <4>1 DEF Once
    <3>3. order[Len(order)] \notin out
      BY <1>15, <3>1, <3>2
    <3> QED
      BY <1>4, <3>1, <3>3
  <2> QED
    BY <1>17, <2>1, <2>2
<1>21. by_request' = t /\ slots' = left
  BY <1>2 DEF t
<1> QED
  BY <1>14, <1>16, <1>17, <1>18, <1>19, <1>20, <1>21

-----------------------------------------------------------------------------
(* The count and the order of use, through every action.                    *)

CacheInv ==
  /\ by_request \in Seq(Request) /\ Once(by_request)
  /\ AccountsForItsBytes

LEMMA InitCache == Init => CacheInv
<1> SUFFICES ASSUME Init PROVE CacheInv
  OBVIOUS
<1>1. by_request = << >> /\ bytes_used = 0 /\ slots = [r \in Request |-> NoSlots]
  BY DEF Init
<1>2. \A r \in Request : Weights(slots)[r] = 0 /\ slots[r] = NoSlots
  BY <1>1, WeightsAreNat, NothingWeighsNothing
<1>3. Total(slots) = 0
  BY <1>2, FiniteAssumption, TotalIsNat, SumOfZeros
<1> QED
  BY <1>1, <1>2, <1>3, BytesAssumption DEF CacheInv, Once, AccountsForItsBytes

LEMMA GetHistoryAccounts ==
  ASSUME CacheInv, NEW r \in Request, get_history(r)
  PROVE  CacheInv'
<1>1. /\ by_request' \in Seq(Request) /\ Once(by_request')
      /\ \A x : Contains(by_request, x) => Contains(by_request', x)
  BY MoveToEndEffect DEF get_history, CacheInv
<1> QED
  BY <1>1 DEF get_history, CacheInv, AccountsForItsBytes, Once

LEMMA PutAccounts ==
  ASSUME Types, CacheInv, NEW r \in Request, NEW s \in StageKey, NEW p \in Position,
         NEW a \in Nat \ {0}, put(r, s, p, a)
  PROVE  /\ CacheInv'
         /\ by_request' = << >> \/ slots'[r][s][p] # 0
<1> PICK order : order = move_to_end(r)
  OBVIOUS
<1>1. /\ order \in Seq(Request) /\ Once(order)
      /\ \A x : Contains(order, x) <=> Contains(by_request, x) \/ x = r
      /\ Len(order) > 0 /\ order[Len(order)] = r
  BY MoveToEndEffect DEF CacheInv
<1>2. slots \in [Request -> Contents]
  BY DEF Types, Contents
<1>3. CASE slots[r][s][p] # 0
  <2>1. by_request' = order /\ slots' = slots /\ bytes_used' = bytes_used
    BY <1>3 DEF put
  <2>2. \A x \in Request : slots'[x] # NoSlots => Contains(by_request', x)
    BY <1>1, <2>1 DEF CacheInv, AccountsForItsBytes
  <2>3. bytes_used' = Total(slots') /\ bytes_used' <= max_bytes
    BY <2>1 DEF CacheInv, AccountsForItsBytes
  <2> QED
    BY <1>1, <1>3, <2>1, <2>2, <2>3 DEF CacheInv, AccountsForItsBytes
<1>4. CASE slots[r][s][p] = 0
  <2> DEFINE h == [slots EXCEPT ![r][s][p] = a]
  <2>1. h \in [Request -> Contents] /\ h[r][s][p] = a
    BY <1>2 DEF Contents
  <2>2. \A x \in Request : h[x] = IF x = r THEN [slots[r] EXCEPT ![s][p] = a] ELSE slots[x]
    BY <1>2
  <2>3. evict_if_needed(order, h, bytes_used + Bytes[r][p])
    BY <1>4 DEF put
  <2> HIDE DEF h
  <2>4. bytes_used + Bytes[r][p] = Total(h)
    <3>1. slots[r] \in Contents
      BY <1>2
    <3>2. Weight(r, h[r]) = Weight(r, slots[r]) + Bytes[r][p]
      BY <1>4, <2>2, <3>1, InputWeighs
    <3>3. Total(h) + Weight(r, slots[r]) = Total(slots) + Weight(r, h[r])
      BY <2>2, TotalOfOther
    <3>4. /\ Total(h) \in Nat /\ Total(slots) \in Nat
          /\ Weight(r, slots[r]) \in Nat /\ Weight(r, h[r]) \in Nat
      BY TotalIsNat, WeightIsNat
    <3>5. bytes_used = Total(slots) /\ Bytes[r][p] \in Nat
      BY BytesAssumption DEF CacheInv, AccountsForItsBytes
    <3> QED
      BY <3>2, <3>3, <3>4, <3>5
  <2>5. \A x \in Request : h[x] # NoSlots => Contains(order, x)
    BY <1>1, <2>2 DEF CacheInv, AccountsForItsBytes
  <2>6. evict_if_needed(order, h, Total(h))
    BY <2>3, <2>4
  <2>7. /\ by_request' \in Seq(Request) /\ Once(by_request')
        /\ bytes_used' = Total(slots') /\ bytes_used' <= max_bytes
        /\ \A x \in Request : slots'[x] # NoSlots => Contains(by_request', x)
        /\ by_request' = << >> \/ slots'[order[Len(order)]] = h[order[Len(order)]]
    BY <1>1, <2>1, <2>5, <2>6, EvictionEffect
  <2>8. by_request' = << >> \/ slots'[r][s][p] # 0
    BY <1>1, <2>1, <2>7
  <2> QED
    BY <2>7, <2>8 DEF CacheInv, AccountsForItsBytes
<1> QED
  BY <1>3, <1>4

LEMMA EvictRequestAccounts ==
  ASSUME Types, CacheInv, NEW r \in Request, evict_request(r)
  PROVE  CacheInv'
<1>1. /\ by_request' = RemoveFirst(by_request, r)
      /\ slots' = [slots EXCEPT ![r] = NoSlots]
      /\ bytes_used' = bytes_used - Weight(r, slots[r])
  BY DEF evict_request
<1>2. /\ by_request' \in Seq(Request) /\ Once(by_request')
      /\ \A x : Contains(by_request', x) <=> Contains(by_request, x) /\ x # r
  BY <1>1, RemoveFirstEffect DEF CacheInv
<1>3. \A x \in Request : slots'[x] = IF x = r THEN NoSlots ELSE slots[x]
  BY <1>1 DEF Types
<1>4. PICK h : h = slots'
  OBVIOUS
<1>5. Total(h) + Weight(r, slots[r]) = Total(slots) + Weight(r, h[r])
  BY <1>3, <1>4, TotalOfOther
<1>6. Weight(r, h[r]) = 0
  BY <1>3, <1>4, NothingWeighsNothing
<1>7. Total(h) \in Nat /\ Total(slots) \in Nat /\ Weight(r, slots[r]) \in Nat
  BY TotalIsNat, WeightIsNat
<1>8. bytes_used = Total(slots) /\ bytes_used <= max_bytes /\ max_bytes \in Nat
  BY BytesAssumption DEF CacheInv, AccountsForItsBytes
<1>9. bytes_used' = Total(h) /\ bytes_used' <= max_bytes
  BY <1>1, <1>5, <1>6, <1>7, <1>8
<1>10. \A x \in Request : slots'[x] # NoSlots => Contains(by_request', x)
  BY <1>2, <1>3 DEF CacheInv, AccountsForItsBytes
<1> QED
  BY <1>2, <1>4, <1>9, <1>10 DEF CacheInv, AccountsForItsBytes

LEMMA CacheStep == Types /\ CacheInv /\ [Next]_vars => CacheInv'
<1> SUFFICES ASSUME Types, CacheInv, [Next]_vars PROVE CacheInv'
  OBVIOUS
<1>1. CASE UNCHANGED cacheVars
  BY <1>1 DEF cacheVars, CacheInv, AccountsForItsBytes, Once
<1>2. ASSUME NEW r \in Request, Step(r)
      PROVE  CacheInv'
  <2>1. put(r, head_key, position[r], attempt[r])
    BY <1>2 DEF Step
  <2>2. position[r] \in Position /\ attempt[r] \in Nat \ {0}
    BY DEF Types
  <2> QED
    BY <2>1, <2>2, PutAccounts, HeadAssumption
<1>3. ASSUME NEW r \in Request, StartOver(r) \/ End(r)
      PROVE  CacheInv'
  BY <1>3, EvictRequestAccounts DEF StartOver, End
<1>4. ASSUME NEW r \in Request, ReadHead(r) \/ \E s \in StageKey : ReadStage(r, s)
      PROVE  CacheInv'
  BY <1>4, GetHistoryAccounts DEF ReadHead, ReadStage
<1>5. ASSUME NEW r \in Request, Answer(r) \/ GiveUp(r)
      PROVE  CacheInv'
  BY <1>1, <1>5 DEF Answer, GiveUp
<1>6. ASSUME NEW m \in mirrors, DeliverMirror(m)
      PROVE  CacheInv'
  <2>1. m.req \in Request /\ m.stage \in StageKey /\ m.at \in Position /\ m.from \in Nat \ {0}
    BY DEF Types, Pushed
  <2>2. put(m.req, m.stage, m.at, m.from)
    BY <1>6 DEF DeliverMirror
  <2> QED
    BY <2>1, <2>2, PutAccounts
<1>7. ASSUME NEW m \in mirrors, LoseMirror(m)
      PROVE  CacheInv'
  BY <1>1, <1>7 DEF LoseMirror
<1> QED
  BY <1>1, <1>2, <1>3, <1>4, <1>5, <1>6, <1>7 DEF Next, Thread, vars

LEMMA TypesHold == Spec => []Types
<1>1. HeadInv => Types
  BY DEF HeadInv
<1> QED
  BY <1>1, HeadInvariant, PTL

LEMMA CacheInvariant == Spec => []CacheInv
  BY TypesHold, InitCache, CacheStep, PTL DEF Spec

\* Whatever the budget, the prompts and the order in which inputs come, come
\* twice or are evicted: _bytes_used is the number of bytes that are held, and is
\* within the budget (_store_unlocked, evict_request, _evict_if_needed).
THEOREM BytesAreAccountedFor == Spec => []AccountsForItsBytes
<1>1. CacheInv => AccountsForItsBytes
  BY DEF CacheInv
<1> QED
  BY <1>1, CacheInvariant, PTL

\* A step loses the input it has just put only when every other request has gone
\* before it (_slots, _evict_if_needed).
THEOREM OldestGoFirst == Spec => LastUsedGoesLast
<1> DEFINE Act == \A r \in Request :
                    pc[r] = "idle" /\ pc'[r] = "waiting"
                      => slots'[r][head_key][position[r]] # 0 \/ by_request' = << >>
<1>1. Types /\ CacheInv /\ [Next]_vars => Act
  <2> SUFFICES ASSUME Types, CacheInv, [Next]_vars,
                      NEW r \in Request, pc[r] = "idle", pc'[r] = "waiting"
               PROVE  slots'[r][head_key][position[r]] # 0 \/ by_request' = << >>
    OBVIOUS
  <2>1. Step(r)
    <3>1. ASSUME NEW x \in Request, Step(x), x # r
          PROVE  FALSE
      BY <3>1 DEF Step, Types
    <3>2. ASSUME NEW x \in Request, ReadHead(x) \/ StartOver(x) \/ End(x) \/ GiveUp(x) \/ Answer(x)
          PROVE  FALSE
      BY <3>2 DEF ReadHead, StartOver, End, GiveUp, Answer, Types
    <3>3. ASSUME NEW x \in Request, NEW s \in StageKey, ReadStage(x, s)
          PROVE  FALSE
      BY <3>3 DEF ReadStage, Types
    <3>4. ASSUME UNCHANGED vars \/ \E m \in mirrors : DeliverMirror(m) \/ LoseMirror(m)
          PROVE  FALSE
      BY <3>4 DEF DeliverMirror, LoseMirror, vars, threadVars
    <3> QED
      BY <3>1, <3>2, <3>3, <3>4 DEF Next, Thread
  <2>2. put(r, head_key, position[r], attempt[r])
    BY <2>1 DEF Step
  <2>3. position[r] \in Position /\ attempt[r] \in Nat \ {0}
    BY DEF Types
  <2> QED
    BY <2>2, <2>3, PutAccounts, HeadAssumption
<1> QED
  BY <1>1, TypesHold, CacheInvariant, PTL DEF Spec, LastUsedGoesLast

Replayable(h) == h.stage \in StageKey /\ DOMAIN h.inputs \subseteq Position

LEMMA ReplayedStep ==
  ASSUME Types, \A r \in Request : Replayable(replayed[r]), [Next]_vars, NEW x \in Request
  PROVE  Replayable(replayed'[x])
<1>1. Replayable(Nothing)
  BY HeadAssumption DEF Replayable, Nothing
<1>2. ASSUME NEW r \in Request, NEW s \in StageKey
      PROVE  Replayable([stage |-> s, inputs |-> history(r, s)])
  BY DEF Replayable, history
<1>3. ASSUME NEW r \in Request, NEW v, Replayable(v), replayed' = [replayed EXCEPT ![r] = v]
      PROVE  Replayable(replayed'[x])
  BY <1>3 DEF Types
<1>4. CASE replayed' = replayed
  BY <1>4
<1>5. ASSUME NEW r \in Request, Answer(r) \/ StartOver(r) \/ GiveUp(r)
      PROVE  Replayable(replayed'[x])
  BY <1>1, <1>3, <1>5 DEF Answer, StartOver, GiveUp
<1>6. ASSUME NEW r \in Request, ReadHead(r)
      PROVE  Replayable(replayed'[x])
  BY <1>2, <1>3, <1>4, <1>6, HeadAssumption DEF ReadHead
<1>7. ASSUME NEW r \in Request, NEW s \in StageKey, ReadStage(r, s)
      PROVE  Replayable(replayed'[x])
  BY <1>2, <1>3, <1>4, <1>7 DEF ReadStage
<1>8. ASSUME NEW r \in Request, Step(r) \/ End(r)
      PROVE  replayed' = replayed
  BY <1>8 DEF Step, End
<1>9. ASSUME UNCHANGED vars \/ \E m \in mirrors : DeliverMirror(m) \/ LoseMirror(m)
      PROVE  replayed' = replayed
  BY <1>9 DEF DeliverMirror, LoseMirror, vars, threadVars
<1> QED
  BY <1>4, <1>5, <1>6, <1>7, <1>8, <1>9 DEF Next, Thread

\* The cache and the threads keep their types; the order of use names a request
\* once, and the count of bytes is never negative.
THEOREM CacheTypes == Spec => []TypeOK
<1> DEFINE Replays == \A r \in Request : Replayable(replayed[r])
<1>1. Init => Replays
  BY HeadAssumption DEF Init, Replayable, Nothing
<1>2. Types /\ Replays /\ [Next]_vars => Replays'
  BY ReplayedStep
<1>3. Types /\ CacheInv /\ Replays => TypeOK
  <2> SUFFICES ASSUME Types, CacheInv, Replays PROVE TypeOK
    OBVIOUS
  <2>1. bytes_used \in Nat
    BY TotalIsNat DEF CacheInv, AccountsForItsBytes
  <2> QED
    BY <2>1 DEF Types, CacheInv, Once, Replayable, TypeOK
<1> HIDE DEF Replays
<1> QED
  BY <1>1, <1>2, <1>3, TypesHold, CacheInvariant, PTL DEF Spec
=============================================================================
