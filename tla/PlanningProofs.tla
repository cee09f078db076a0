---------------------------- MODULE PlanningProofs ----------------------------
(***************************************************************************)
(* Proofs about the scheduler and the coordinator's planning.              *)
(***************************************************************************)
EXTENDS Planning, CommonLemmas

-----------------------------------------------------------------------------
(* Specifications.                                                          *)

\* A profiled fleet, or a part of one: numbers where the cost model and the
\* memory check read them.
Knobs(c) ==
  c \in [devices : {c.devices}, hosts : {<< >>}, mem : Seq(Nat), time : {c.time},
         total : {c.total}, free : {c.free}, rate : {c.rate}, lat : {c.lat},
         activation : Nat, hop : Nat, slo : Nat, penalty : Nat, concurrency : Nat,
         pool : Nat, mode : {"throughput", "latency", "blended"}, alpha : Nat,
         eager : BOOLEAN, backups : BOOLEAN, subsets : BOOLEAN, search : Nat]

Order(c, o) == o \in Seq(ToSet(c.devices)) /\ o # << >> /\ IsInjective(o)

Measures(c) ==
  LET D == ToSet(c.devices)
  IN /\ \A d \in D : c.total[d] \in Nat /\ c.free[d] \in Nat
     /\ \A d \in D : \A i \in 1..Layers(c) : c.time[d][i] \in Nat
     /\ \A s, d \in D : Measured(c, s, d) => c.rate[<<s, d>>] \in Nat /\ c.lat[<<s, d>>] \in Nat

IsSpec(c) == Knobs(c) /\ Order(c, c.devices) /\ Measures(c)

\* Only the devices are other ones.
LEMMA Reordered ==
  ASSUME NEW c, Knobs(c), NEW o
  PROVE  /\ Knobs(with_devices(c, o))
         /\ with_devices(c, o).devices = o
         /\ with_devices(c, o).mem = c.mem /\ with_devices(c, o).time = c.time
         /\ with_devices(c, o).total = c.total /\ with_devices(c, o).free = c.free
         /\ with_devices(c, o).rate = c.rate /\ with_devices(c, o).lat = c.lat
         /\ with_devices(c, o).hosts = c.hosts /\ with_devices(c, o).slo = c.slo
         /\ with_devices(c, o).activation = c.activation /\ with_devices(c, o).hop = c.hop
         /\ with_devices(c, o).penalty = c.penalty /\ with_devices(c, o).pool = c.pool
         /\ with_devices(c, o).concurrency = c.concurrency
         /\ with_devices(c, o).mode = c.mode /\ with_devices(c, o).alpha = c.alpha
         /\ with_devices(c, o).eager = c.eager /\ with_devices(c, o).backups = c.backups
  BY DEF Knobs, with_devices

LEMMA KnobTypes ==
  ASSUME NEW c, Knobs(c)
  PROVE  /\ c.hosts = << >> /\ c.mem \in Seq(Nat) /\ Layers(c) \in Nat
         /\ c.activation \in Nat /\ c.hop \in Nat /\ c.slo \in Nat /\ c.penalty \in Nat
         /\ c.concurrency \in Nat /\ c.pool \in Nat /\ c.alpha \in Nat
         /\ c.mode \in {"throughput", "latency", "blended"}
         /\ c.eager \in BOOLEAN /\ c.backups \in BOOLEAN
  BY DEF Knobs, Layers

LEMMA CandidateIsSpec ==
  ASSUME NEW c, IsSpec(c), NEW o, Order(c, o)
  PROVE  IsSpec(with_devices(c, o))
<1> DEFINE k == with_devices(c, o)
<1>1. Knobs(k) /\ k.devices = o /\ k.mem = c.mem /\ k.time = c.time /\ k.total = c.total
      /\ k.free = c.free /\ k.rate = c.rate /\ k.lat = c.lat
  BY Reordered DEF IsSpec
<1>2. ToSet(o) \subseteq ToSet(c.devices) /\ o \in Seq(ToSet(o))
  BY DEF Order, ToSet
<1> HIDE DEF k
<1>3. Order(k, k.devices)
  BY <1>1, <1>2 DEF Order
<1>4. Measures(k)
  BY <1>1, <1>2 DEF IsSpec, Measures, Layers, Measured
<1> QED
  BY <1>1, <1>3, <1>4 DEF IsSpec, k

LEMMA SpecOrder ==
  ASSUME NEW c, IsSpec(c)
  PROVE  /\ M(c) \in Nat \ {0} /\ DOMAIN c.devices = 1..M(c)
         /\ \A n \in 1..M(c) : c.devices[n] \in ToSet(c.devices)
         /\ \A m, n \in 1..M(c) : c.devices[m] = c.devices[n] => m = n
         /\ \A d \in ToSet(c.devices) : \E n \in 1..M(c) : c.devices[n] = d
  BY DEF IsSpec, Order, M, ToSet, IsInjective

-----------------------------------------------------------------------------
(* The cost model and the memory check give numbers.                        *)

LEMMA BytesAreNat ==
  ASSUME NEW c, Knobs(c), NEW s \in Nat \ {0}, NEW e \in Nat, e <= Layers(c)
  PROVE  Sum(c.mem, s, e) \in Nat
<1>1. IsFiniteSet(s..e)
  BY FS_Interval
<1>2. \A i \in s..e : c.mem[i] \in Nat
  BY KnobTypes DEF Layers
<1> QED
  BY <1>1, <1>2, SumIsNat DEF Sum

LEMMA MultiplierIsNat ==
  ASSUME NEW c, IsSpec(c)
  PROVE  Multiplier(c) \in Nat
<1>1. c.pool \in Nat /\ c.concurrency \in Nat /\ M(c) \in Nat
  BY KnobTypes, SpecOrder DEF IsSpec
<1>2. c.concurrency * M(c) \in Nat
  BY <1>1
<1> QED
  BY <1>1, <1>2, MaxOfTwo DEF Multiplier

LEMMA StageTimeIsNat ==
  ASSUME NEW c, IsSpec(c), NEW d \in ToSet(c.devices),
         NEW s \in Nat \ {0}, NEW e \in Nat, e <= Layers(c)
  PROVE  StageTime(c, d, s, e) \in Nat
<1>1. IsFiniteSet(s..e)
  BY FS_Interval
<1>2. \A i \in s..e : c.time[d][i] \in Nat
  <2>1. \A i \in s..e : i \in 1..Layers(c)
    BY KnobTypes DEF IsSpec
  <2> QED
    BY <2>1 DEF IsSpec, Measures
<1>3. Sum(c.time[d], s, e) \in Nat
  BY <1>1, <1>2, SumIsNat DEF Sum
<1> QED
  BY <1>3, MultiplierIsNat DEF StageTime

LEMMA CommTimeIsNat ==
  ASSUME NEW c, IsSpec(c), NEW s \in ToSet(c.devices), NEW d \in ToSet(c.devices),
         Measured(c, s, d)
  PROVE  CommTime(c, s, d) \in Nat
<1>1. c.activation \in Nat /\ c.hop \in Nat /\ c.pool \in Nat
  BY KnobTypes DEF IsSpec
<1>2. c.rate[<<s, d>>] \in Nat /\ c.lat[<<s, d>>] \in Nat
  BY DEF IsSpec, Measures
<1>3. c.activation * c.rate[<<s, d>>] \in Nat
  BY <1>1, <1>2
<1>4. c.activation * c.rate[<<s, d>>] + c.lat[<<s, d>>] + c.hop \in Nat
  BY <1>1, <1>2, <1>3
<1> QED
  BY <1>1, <1>4 DEF CommTime

LEMMA BudgetIsNat ==
  ASSUME NEW c, IsSpec(c), NEW d \in ToSet(c.devices)
  PROVE  Budget(c, d) \in Nat
  BY DEF IsSpec, Measures, Budget

\* A placement over the devices of c, in their order, that lies within the layers.
Shape(c, p) ==
  /\ DOMAIN p = 1..M(c) /\ p = [n \in DOMAIN p |-> p[n]]
  /\ \A n \in 1..M(c) : /\ p[n].device = c.devices[n]
                        /\ p[n].start \in Nat \ {0}
                        /\ p[n].end \in Nat /\ p[n].end <= Layers(c)

LEMMA ShapeBytes ==
  ASSUME NEW c, Knobs(c), NEW p, Shape(c, p), NEW n \in 1..M(c)
  PROVE  StageBytes(c, p[n]) \in Nat
<1>1. p[n].start \in Nat \ {0} /\ p[n].end \in Nat /\ p[n].end <= Layers(c)
  BY DEF Shape
<1> QED
  BY <1>1, BytesAreNat DEF StageBytes

StagesAt(R, p, node) == {i \in DOMAIN p : p[i].device \in DOMAIN R /\ R[p[i].device] = node}

LEMMA BackupMemory ==
  ASSUME NEW c, IsSpec(c), NEW p, Shape(c, p), NEW R, NEW node
  PROVE  /\ IsFiniteSet(StagesAt(R, p, node))
         /\ \A i \in StagesAt(R, p, node) : [j \in DOMAIN p |-> StageBytes(c, p[j])][i] \in Nat
         /\ backup_memory_for(c, node, R, p)
              = SumFunctionOnSet([j \in DOMAIN p |-> StageBytes(c, p[j])], StagesAt(R, p, node))
         /\ backup_memory_for(c, node, R, p) \in Nat
<1> DEFINE b == [j \in DOMAIN p |-> StageBytes(c, p[j])]
<1>1. DOMAIN p = 1..M(c) /\ M(c) \in Nat
  BY SpecOrder DEF Shape
<1>2. IsFiniteSet(1..M(c))
  BY <1>1, FS_Interval
<1>3. StagesAt(R, p, node) \subseteq 1..M(c)
  BY <1>1 DEF StagesAt
<1>4. IsFiniteSet(StagesAt(R, p, node))
  BY <1>2, <1>3, FS_Subset
<1>5. \A i \in StagesAt(R, p, node) : b[i] \in Nat
  BY <1>1, <1>3, ShapeBytes DEF IsSpec
<1>6. backup_memory_for(c, node, R, p) = SumFunctionOnSet(b, StagesAt(R, p, node))
  BY DEF backup_memory_for, StagesAt
<1> HIDE DEF b
<1>7. SumFunctionOnSet(b, StagesAt(R, p, node)) \in Nat
  BY <1>4, <1>5, SumIsNat
<1> QED
  BY <1>4, <1>5, <1>6, <1>7 DEF b

LEMMA BackupIsNat ==
  ASSUME NEW c, IsSpec(c), NEW p, Shape(c, p), NEW R, NEW node
  PROVE  backup_memory_for(c, node, R, p) \in Nat
  BY BackupMemory

\* Without a table nothing is kept for anybody, whatever the placement is.
LEMMA NoBackupMemory ==
  ASSUME NEW c, NEW p, NEW node
  PROVE  backup_memory_for(c, node, << >>, p) = 0
<1>1. {i \in DOMAIN p : p[i].device \in DOMAIN << >> /\ << >>[p[i].device] = node} = {}
  OBVIOUS
<1> QED
  BY <1>1, SumOfNone DEF backup_memory_for

-----------------------------------------------------------------------------
(* Ways to cut the layers.                                                  *)

\* The cuts of layers 1..y into n ranges.
CutsTo(c, n, y) ==
  {e \in [1..n -> 1..Layers(c)] : e[n] = y /\ \A k \in 2..n : e[k - 1] < e[k]}

CutOf(c, e) == Placed(c.devices, e)

LEMMA CutStages ==
  ASSUME NEW c, NEW n \in Nat \ {0}, NEW y, NEW e \in CutsTo(c, n, y)
  PROVE  /\ DOMAIN e = 1..n /\ DOMAIN CutOf(c, e) = 1..n /\ n \in 1..n /\ e[n] = y
         /\ \A k \in 1..n : /\ e[k] \in 1..Layers(c)
                            /\ CutOf(c, e)[k].device = c.devices[k]
                            /\ k = 1 => CutOf(c, e)[k].start = 1
                            /\ k # 1 => CutOf(c, e)[k].start = e[k - 1] + 1
                            /\ CutOf(c, e)[k].end = e[k]
         /\ \A k \in 2..n : k - 1 \in 1..n /\ e[k - 1] < e[k]
  BY DEF CutsTo, CutOf, Placed

LEMMA FunctionIsSeq ==
  ASSUME NEW S, NEW n \in Nat, NEW e \in [1..n -> S]
  PROVE  e \in Seq(S) /\ Len(e) = n
<1>1. e \in Seq(S)
  BY SeqDef
<1> QED
  BY <1>1

\* Every range has a layer, so the n-th one ends at layer n at the earliest.
LEMMA CutGrows ==
  ASSUME NEW c, Knobs(c), NEW n \in Nat \ {0}, NEW y, NEW e \in CutsTo(c, n, y)
  PROVE  \A k \in 1..n : k <= e[k]
<1> DEFINE G == {k \in 1..n : k <= e[k]}
<1>1. \A k \in 1..n : e[k] \in Nat \ {0}
  BY CutStages, KnobTypes
<1>2. 1 \in G
  BY <1>1
<1>3. ASSUME NEW k \in 1..(n - 1), k \in G
      PROVE  k + 1 \in G
  <2>1. k + 1 \in 2..n /\ (k + 1) - 1 = k /\ k + 1 \in 1..n
    OBVIOUS
  <2>2. e[k] < e[k + 1]
    BY <2>1, CutStages
  <2> QED
    BY <1>1, <1>3, <2>1, <2>2
<1> HIDE DEF G
<1>4. \A k \in 1..n : k \in G
  BY <1>2, <1>3, UpTo
<1> QED
  BY <1>4 DEF G

\* Where a range lies.
LEMMA CutRange ==
  ASSUME NEW c, Knobs(c), NEW n \in Nat \ {0}, NEW y, NEW e \in CutsTo(c, n, y), NEW k \in 1..n
  PROVE  /\ CutOf(c, e)[k].start \in Nat \ {0} /\ CutOf(c, e)[k].start <= CutOf(c, e)[k].end
         /\ CutOf(c, e)[k].end \in Nat /\ CutOf(c, e)[k].end <= Layers(c)
<1>0. /\ e[k] \in 1..Layers(c) /\ CutOf(c, e)[k].end = e[k]
      /\ k = 1 => CutOf(c, e)[k].start = 1
      /\ k # 1 => CutOf(c, e)[k].start = e[k - 1] + 1
  BY CutStages
<1>1. e[k] \in Nat \ {0} /\ e[k] <= Layers(c) /\ Layers(c) \in Nat
  BY <1>0, KnobTypes
<1>2. CASE k = 1
  <2>1. CutOf(c, e)[k].start = 1 /\ CutOf(c, e)[k].end = e[k]
    BY <1>0, <1>2
  <2> QED
    BY <1>1, <2>1
<1>3. CASE k # 1
  <2>1. k \in 2..n /\ k - 1 \in 1..n
    BY <1>3
  <2>2. e[k - 1] < e[k] /\ e[k - 1] \in Nat
    BY <2>1, CutStages, KnobTypes
  <2>3. CutOf(c, e)[k].start = e[k - 1] + 1 /\ CutOf(c, e)[k].end = e[k]
    BY <1>0, <1>3
  <2> QED
    BY <1>1, <2>2, <2>3
<1> QED
  BY <1>2, <1>3

LEMMA CutShape ==
  ASSUME NEW c, IsSpec(c), NEW y, NEW e \in CutsTo(c, M(c), y)
  PROVE  Shape(c, CutOf(c, e))
<1>1. M(c) \in Nat \ {0}
  BY SpecOrder
<1>2. DOMAIN CutOf(c, e) = 1..M(c) /\ \A k \in 1..M(c) : CutOf(c, e)[k].device = c.devices[k]
  <2> DEFINE m == M(c)
  <2>1. DOMAIN e = 1..m
    BY DEF CutsTo
  <2> QED
    BY <2>1 DEF CutOf, Placed
<1>3. \A k \in 1..M(c) : /\ CutOf(c, e)[k].start \in Nat \ {0}
                         /\ CutOf(c, e)[k].end \in Nat /\ CutOf(c, e)[k].end <= Layers(c)
  BY <1>1, CutRange DEF IsSpec
<1>4. CutOf(c, e) = [n \in DOMAIN CutOf(c, e) |-> CutOf(c, e)[n]]
  BY DEF CutOf, Placed
<1> QED
  BY <1>2, <1>3, <1>4 DEF Shape

\* A cut of more ranges is one of fewer ranges and another range.
LEMMA CutAppended ==
  ASSUME NEW c, Knobs(c), NEW n \in Nat \ {0}, NEW s, NEW e \in CutsTo(c, n, s),
         NEW y \in 1..Layers(c), s < y
  PROVE  /\ Append(e, y) \in CutsTo(c, n + 1, y)
         /\ \A k \in 1..n : Append(e, y)[k] = e[k] /\ CutOf(c, Append(e, y))[k] = CutOf(c, e)[k]
         /\ Append(e, y)[n + 1] = y
         /\ CutOf(c, Append(e, y))[n + 1]
              = [device |-> c.devices[n + 1], start |-> s + 1, end |-> y]
<1> DEFINE f == Append(e, y)
<1>1. e \in [1..n -> 1..Layers(c)]
  BY DEF CutsTo
<1>2. f \in [1..(n + 1) -> 1..Layers(c)] /\ f[n + 1] = y /\ \A k \in 1..n : f[k] = e[k]
  <2> DEFINE S == 1..Layers(c)
  <2>1. n \in Nat /\ e \in [1..n -> S] /\ y \in S /\ f = Append(e, y)
    BY <1>1
  <2> HIDE DEF S, f
  <2>2. e \in Seq(S) /\ Len(e) = n
    BY <2>1, FunctionIsSeq
  <2>3. f \in Seq(S) /\ Len(f) = n + 1 /\ f[n + 1] = y /\ \A k \in 1..n : f[k] = e[k]
    BY <2>1, <2>2, AppendProperties
  <2>4. f \in [1..(n + 1) -> S]
    BY <2>3, LenProperties
  <2> QED
    BY <2>3, <2>4 DEF S
<1> HIDE DEF f
<1>3. e[n] = s /\ \A k \in 2..n : e[k - 1] < e[k]
  BY DEF CutsTo
<1>4. ASSUME NEW k \in 2..(n + 1)
      PROVE  f[k - 1] < f[k]
  <2>1. CASE k = n + 1
    <3>1. k - 1 = n /\ n \in 1..n
      BY <2>1
    <3> QED
      BY <1>2, <1>3, <2>1, <3>1
  <2>2. CASE k # n + 1
    <3>1. k \in 2..n /\ k \in 1..n /\ k - 1 \in 1..n
      BY <2>2
    <3> QED
      BY <1>2, <1>3, <3>1
  <2> QED
    BY <2>1, <2>2
<1>5. f \in CutsTo(c, n + 1, y)
  BY <1>2, <1>4 DEF CutsTo
<1>6. DOMAIN f = 1..(n + 1) /\ DOMAIN e = 1..n
  BY <1>1, <1>2
<1>7. ASSUME NEW k \in 1..n
      PROVE  CutOf(c, f)[k] = CutOf(c, e)[k]
  <2>1. k \in 1..(n + 1) /\ (k # 1 => k - 1 \in 1..n)
    OBVIOUS
  <2> QED
    BY <1>2, <1>6, <2>1 DEF CutOf, Placed
<1>8. CutOf(c, f)[n + 1] = [device |-> c.devices[n + 1], start |-> s + 1, end |-> y]
  <2>1. n + 1 \in 1..(n + 1) /\ n + 1 # 1 /\ (n + 1) - 1 = n /\ n \in 1..n
    OBVIOUS
  <2>2. f[(n + 1) - 1] = s
    BY <1>2, <1>3, <2>1
  <2> QED
    BY <1>2, <1>6, <2>1, <2>2 DEF CutOf, Placed
<1> QED
  BY <1>2, <1>5, <1>7, <1>8 DEF f

LEMMA CutShortened ==
  ASSUME NEW c, Knobs(c), NEW n \in Nat \ {0}, NEW y, NEW f \in CutsTo(c, n + 1, y)
  PROVE  \E e \in CutsTo(c, n, f[n]) :
           f = Append(e, y) /\ f[n] \in n..(y - 1) /\ y \in 1..Layers(c) /\ f[n] \in 1..Layers(c)
<1> DEFINE e == [k \in 1..n |-> f[k]]
<1>1. f \in [1..(n + 1) -> 1..Layers(c)] /\ f[n + 1] = y /\ \A k \in 2..(n + 1) : f[k - 1] < f[k]
  BY DEF CutsTo
<1>2. n \in 1..n /\ n \in 1..(n + 1) /\ n + 1 \in 2..(n + 1) /\ (n + 1) - 1 = n
  OBVIOUS
<1>3. e \in [1..n -> 1..Layers(c)] /\ e[n] = f[n] /\ \A k \in 1..n : e[k] = f[k]
  BY <1>1, <1>2
<1> HIDE DEF e
<1>4. ASSUME NEW k \in 2..n
      PROVE  e[k - 1] < e[k]
  <2>1. k \in 1..n /\ k - 1 \in 1..n /\ k \in 2..(n + 1)
    OBVIOUS
  <2> QED
    BY <1>1, <1>3, <2>1
<1>5. e \in CutsTo(c, n, f[n])
  BY <1>3, <1>4 DEF CutsTo
<1>6. y \in 1..Layers(c)
  BY <1>1, <1>2
<1>7. f = Append(e, y)
  <2> DEFINE S == 1..Layers(c)
             g == Append(e, y)
  <2>1. g \in [1..(n + 1) -> 1..Layers(c)] /\ g[n + 1] = y /\ \A k \in 1..n : g[k] = e[k]
    <3>1. n \in Nat /\ e \in [1..n -> S] /\ y \in S /\ g = Append(e, y)
      BY <1>3, <1>6
    <3> HIDE DEF S, g
    <3>2. e \in Seq(S) /\ Len(e) = n
      BY <3>1, FunctionIsSeq
    <3>3. g \in Seq(S) /\ Len(g) = n + 1 /\ g[n + 1] = y /\ \A k \in 1..n : g[k] = e[k]
      BY <3>1, <3>2, AppendProperties
    <3>4. g \in [1..(n + 1) -> S]
      BY <3>3, LenProperties
    <3> QED
      BY <3>3, <3>4 DEF S
  <2>2. \A k \in 1..(n + 1) : k = n + 1 \/ k \in 1..n
    OBVIOUS
  <2>3. \A k \in 1..(n + 1) : f[k] = g[k]
    BY <1>1, <1>3, <2>1, <2>2
  <2> QED
    BY <1>1, <2>1, <2>3
<1>8. n <= f[n]
  BY <1>2, CutGrows
<1>9. f[n] < y /\ y \in 1..Layers(c) /\ f[n] \in 1..Layers(c)
  BY <1>1, <1>2
<1>10. f[n] \in n..(y - 1)
  BY <1>8, <1>9, KnobTypes
<1> QED
  BY <1>5, <1>7, <1>9, <1>10

-----------------------------------------------------------------------------
(* What a cut costs, range by range.                                        *)

CostSum(c, e) == SumFunction([k \in DOMAIN CutOf(c, e) |-> CutCost(c, CutOf(c, e), k)])
CostMax(c, e) == Max({CutCost(c, CutOf(c, e), k) : k \in DOMAIN CutOf(c, e)})

\* What one more range, layers s+1..y on the n-th device, costs, and when it may
\* be added.
StepCost(c, n, s, y) ==
  StageTime(c, c.devices[n], s + 1, y) + CommTime(c, c.devices[n - 1], c.devices[n])

MayStep(c, R, ref, n, s, y) ==
  /\ memory_check(c, c.devices[n], s + 1, y, R, ref)
  /\ Measured(c, c.devices[n - 1], c.devices[n])
  /\ WithinCap(c, StepCost(c, n, s, y))

LEMMA CostsAreNat ==
  ASSUME NEW c, IsSpec(c), NEW n \in Nat \ {0}, n <= M(c), NEW y, NEW e \in CutsTo(c, n, y),
         NEW R, NEW ref, Allowed(c, R, ref, CutOf(c, e))
  PROVE  /\ \A k \in 1..n : CutCost(c, CutOf(c, e), k) \in Nat
         /\ CostSum(c, e) \in Nat /\ CostMax(c, e) \in Nat
<1> DEFINE p == CutOf(c, e)
           f == [k \in DOMAIN p |-> CutCost(c, p, k)]
<1>0. M(c) \in Nat \ {0} /\ Knobs(c)
  BY SpecOrder DEF IsSpec
<1>1. DOMAIN p = 1..n /\ \A k \in 1..n : p[k].device = c.devices[k]
  BY DEF CutsTo, CutOf, Placed
<1>2. ASSUME NEW k \in 1..n
      PROVE  CutCost(c, p, k) \in Nat
  <2>1. k \in 1..M(c) /\ c.devices[k] \in ToSet(c.devices)
    BY <1>0, SpecOrder
  <2>2. p[k].start \in Nat \ {0} /\ p[k].end \in Nat /\ p[k].end <= Layers(c)
    BY <1>0, CutRange
  <2>3. StageTime(c, p[k].device, p[k].start, p[k].end) \in Nat
    BY <1>1, <2>1, <2>2, StageTimeIsNat
  <2>4. CASE k = 1
    BY <2>3, <2>4 DEF CutCost
  <2>5. CASE k # 1
    <3>1. k - 1 \in 1..n /\ k - 1 \in 1..M(c) /\ k > 1
      BY <1>0, <2>5
    <3>2. p[k - 1].device \in ToSet(c.devices) /\ p[k].device \in ToSet(c.devices)
      BY <1>1, <2>1, <3>1, SpecOrder
    <3>3. Measured(c, p[k - 1].device, p[k].device)
      BY <1>1, <3>1 DEF Allowed
    <3>4. CommTime(c, p[k - 1].device, p[k].device) \in Nat
      BY <3>2, <3>3, CommTimeIsNat
    <3> QED
      BY <2>3, <2>5, <3>4 DEF CutCost
  <2> QED
    BY <2>4, <2>5
<1>3. IsFiniteSet(1..n)
  BY <1>0, FS_Interval
<1>4. CostSum(c, e) \in Nat
  <2>1. DOMAIN f = 1..n /\ \A k \in 1..n : f[k] \in Nat
    BY <1>1, <1>2
  <2>2. CostSum(c, e) = SumFunctionOnSet(f, DOMAIN f)
    BY DEF CostSum, SumFunction
  <2> HIDE DEF f
  <2> QED
    BY <1>3, <2>1, <2>2, SumIsNat
<1>5. CostMax(c, e) \in Nat
  <2> DEFINE T == {CutCost(c, p, k) : k \in DOMAIN p}
  <2>1. T \in SUBSET Nat
    BY <1>1, <1>2
  <2>2. T # {}
    BY <1>0, <1>1
  <2>3. IsFiniteSet(T)
    <3>1. T = ImageOf(f, 1..n)
      BY <1>1 DEF ImageOf
    <3> QED
      BY <1>3, <3>1, ImageIsFinite
  <2>4. CostMax(c, e) = Max(T)
    BY DEF CostMax
  <2> HIDE DEF T
  <2> QED
    BY <2>1, <2>2, <2>3, <2>4, MaxOf
<1> QED
  BY <1>2, <1>4, <1>5

Larger(a, b) == Max({a, b})

\* Cut f is cut e, which ends at layer s, and the layers after it up to y.
Grows(c, n, s, e, y, f) ==
  /\ Knobs(c) /\ n \in Nat \ {0} /\ e \in CutsTo(c, n, s)
  /\ y \in 1..Layers(c) /\ s < y /\ f = Append(e, y)

LEMMA CutCosts ==
  ASSUME NEW c, NEW n, NEW s, NEW e, NEW y, NEW f, Grows(c, n, s, e, y, f)
  PROVE  /\ f \in CutsTo(c, n + 1, y) /\ DOMAIN CutOf(c, f) = 1..(n + 1)
         /\ \A k \in 1..n : CutOf(c, f)[k] = CutOf(c, e)[k]
         /\ CutOf(c, f)[n + 1].device = c.devices[n + 1]
         /\ CutOf(c, f)[n + 1].start = s + 1 /\ CutOf(c, f)[n + 1].end = y
         /\ CutOf(c, f)[n].device = c.devices[n]
         /\ \A k \in 1..n : CutCost(c, CutOf(c, f), k) = CutCost(c, CutOf(c, e), k)
         /\ CutCost(c, CutOf(c, f), n + 1) = StepCost(c, n + 1, s, y)
<1>0. /\ Knobs(c) /\ n \in Nat \ {0} /\ e \in CutsTo(c, n, s)
      /\ y \in 1..Layers(c) /\ s < y /\ f = Append(e, y)
  BY DEF Grows
<1>1. /\ Append(e, y) \in CutsTo(c, n + 1, y)
      /\ \A k \in 1..n : CutOf(c, Append(e, y))[k] = CutOf(c, e)[k]
      /\ CutOf(c, Append(e, y))[n + 1]
           = [device |-> c.devices[n + 1], start |-> s + 1, end |-> y]
  BY <1>0, CutAppended
<1>2. /\ f \in CutsTo(c, n + 1, y) /\ \A k \in 1..n : CutOf(c, f)[k] = CutOf(c, e)[k]
      /\ CutOf(c, f)[n + 1] = [device |-> c.devices[n + 1], start |-> s + 1, end |-> y]
  BY <1>0, <1>1
<1>3. DOMAIN CutOf(c, f) = 1..(n + 1)
  BY <1>0, <1>2 DEF CutsTo, CutOf, Placed
<1>4. CutOf(c, f)[n].device = c.devices[n]
  BY <1>0, <1>2 DEF CutsTo, CutOf, Placed
<1>5. ASSUME NEW k \in 1..n
      PROVE  CutCost(c, CutOf(c, f), k) = CutCost(c, CutOf(c, e), k)
  <2>1. CutOf(c, f)[k] = CutOf(c, e)[k]
    BY <1>2
  <2>2. k # 1 => CutOf(c, f)[k - 1] = CutOf(c, e)[k - 1]
    BY <1>0, <1>2
  <2> QED
    BY <2>1, <2>2 DEF CutCost
<1>6. CutCost(c, CutOf(c, f), n + 1) = StepCost(c, n + 1, s, y)
  <2>1. n + 1 # 1 /\ (n + 1) - 1 = n
    BY <1>0
  <2>2. /\ CutOf(c, f)[n + 1].device = c.devices[n + 1]
        /\ CutOf(c, f)[n + 1].start = s + 1 /\ CutOf(c, f)[n + 1].end = y
    BY <1>2
  <2> QED
    BY <1>4, <2>1, <2>2 DEF CutCost, StepCost
<1> QED
  BY <1>2, <1>3, <1>4, <1>5, <1>6

LEMMA AllowedGrows ==
  ASSUME NEW c, NEW n, NEW s, NEW e, NEW y, NEW f, Grows(c, n, s, e, y, f), NEW R, NEW ref
  PROVE  Allowed(c, R, ref, CutOf(c, f))
           <=> Allowed(c, R, ref, CutOf(c, e)) /\ MayStep(c, R, ref, n + 1, s, y)
<1> DEFINE p == CutOf(c, f)
           q == CutOf(c, e)
           A(r, k) == /\ memory_check(c, r[k].device, r[k].start, r[k].end, R, ref)
                      /\ k > 1 => Measured(c, r[k - 1].device, r[k].device)
                      /\ WithinCap(c, CutCost(c, r, k))
<1>1. /\ DOMAIN p = 1..(n + 1) /\ \A k \in 1..n : p[k] = q[k]
      /\ p[n + 1].device = c.devices[n + 1] /\ p[n + 1].start = s + 1 /\ p[n + 1].end = y
      /\ p[n].device = c.devices[n]
      /\ \A k \in 1..n : CutCost(c, p, k) = CutCost(c, q, k)
      /\ CutCost(c, p, n + 1) = StepCost(c, n + 1, s, y)
  BY CutCosts
<1>2. DOMAIN q = 1..n /\ n \in Nat \ {0}
  BY DEF Grows, CutsTo, CutOf, Placed
<1> HIDE DEF p, q
<1>3. ASSUME NEW k \in 1..n
      PROVE  A(p, k) <=> A(q, k)
  <2>1. p[k] = q[k] /\ CutCost(c, p, k) = CutCost(c, q, k)
    BY <1>1
  <2>2. k > 1 => p[k - 1] = q[k - 1]
    BY <1>1, <1>2
  <2> QED
    BY <2>1, <2>2
<1>4. A(p, n + 1) <=> MayStep(c, R, ref, n + 1, s, y)
  <2>1. n + 1 > 1 /\ (n + 1) - 1 = n
    BY <1>2
  <2>2. p[n + 1].device = c.devices[n + 1] /\ p[n + 1].start = s + 1 /\ p[n + 1].end = y
    BY <1>1
  <2> QED
    BY <1>1, <2>1, <2>2 DEF MayStep
<1>5. Allowed(c, R, ref, p) <=> \A k \in 1..(n + 1) : A(p, k)
  BY <1>1 DEF Allowed
<1>6. Allowed(c, R, ref, q) <=> \A k \in 1..n : A(q, k)
  BY <1>2 DEF Allowed
<1>7. \A k \in 1..(n + 1) : k = n + 1 \/ k \in 1..n
  BY <1>2
<1>8. n + 1 \in 1..(n + 1) /\ \A k \in 1..n : k \in 1..(n + 1)
  BY <1>2
<1> HIDE DEF A
<1>9. Allowed(c, R, ref, p) <=> Allowed(c, R, ref, q) /\ A(p, n + 1)
  BY <1>3, <1>5, <1>6, <1>7, <1>8
<1> QED
  BY <1>4, <1>9 DEF p, q

LEMMA CostsGrow ==
  ASSUME NEW c, IsSpec(c), NEW n, NEW s, NEW e, NEW y, NEW f, Grows(c, n, s, e, y, f),
         n + 1 <= M(c), NEW R, NEW ref, Allowed(c, R, ref, CutOf(c, f))
  PROVE  /\ StepCost(c, n + 1, s, y) \in Nat
         /\ CostSum(c, e) \in Nat /\ CostMax(c, e) \in Nat
         /\ CostSum(c, f) = CostSum(c, e) + StepCost(c, n + 1, s, y)
         /\ CostMax(c, f) = Larger(CostMax(c, e), StepCost(c, n + 1, s, y))
<1> DEFINE p == CutOf(c, f)
           q == CutOf(c, e)
           x == StepCost(c, n + 1, s, y)
           g == [k \in DOMAIN p |-> CutCost(c, p, k)]
           h == [k \in DOMAIN q |-> CutCost(c, q, k)]
<1>0. Knobs(c) /\ M(c) \in Nat /\ n \in Nat \ {0} /\ e \in CutsTo(c, n, s)
  BY SpecOrder DEF IsSpec, Grows
<1>1. /\ f \in CutsTo(c, n + 1, y) /\ DOMAIN p = 1..(n + 1)
      /\ \A k \in 1..n : CutCost(c, p, k) = CutCost(c, q, k)
      /\ CutCost(c, p, n + 1) = x
  BY CutCosts
<1>2. DOMAIN q = 1..n
  BY <1>0 DEF CutsTo, CutOf, Placed
<1>3. Allowed(c, R, ref, q)
  BY AllowedGrows
<1>4. n <= M(c) /\ n + 1 <= M(c) /\ n + 1 \in Nat \ {0}
  BY <1>0
<1>5. \A k \in 1..n : CutCost(c, q, k) \in Nat
  BY <1>0, <1>3, <1>4, CostsAreNat
<1>6. CostSum(c, e) \in Nat /\ CostMax(c, e) \in Nat
  BY <1>0, <1>3, <1>4, CostsAreNat
<1>7. \A k \in 1..(n + 1) : CutCost(c, p, k) \in Nat
  BY <1>1, <1>4, CostsAreNat
<1>8. x \in Nat
  <2>1. n + 1 \in 1..(n + 1)
    BY <1>0
  <2> QED
    BY <1>1, <1>7, <2>1
<1>9. CostSum(c, f) = CostSum(c, e) + x
  <2>1. CostSum(c, f) = SumFunctionOnSet(g, 1..(n + 1))
    BY <1>1 DEF CostSum, SumFunction
  <2>2. CostSum(c, e) = SumFunctionOnSet(h, 1..n)
    BY <1>2 DEF CostSum, SumFunction
  <2>0. IsFiniteSet(1..n)
    BY <1>0, FS_Interval
  <2>3. 1..(n + 1) = (1..n) \cup {n + 1} /\ n + 1 \notin 1..n /\ IsFiniteSet(1..n)
    BY <1>0, <2>0
  <2>4. \A k \in (1..n) \cup {n + 1} : g[k] \in Nat
    BY <1>1, <1>7, <2>3
  <2>5. \A k \in 1..n : g[k] = h[k]
    BY <1>1, <1>2, <2>3
  <2>6. g[n + 1] = x
    BY <1>1, <2>3
  <2> HIDE DEF g, h, x
  <2>7. SumFunctionOnSet(g, (1..n) \cup {n + 1}) = g[n + 1] + SumFunctionOnSet(g, 1..n)
    BY <2>3, <2>4, SumWith
  <2>8. SumFunctionOnSet(g, 1..n) = SumFunctionOnSet(h, 1..n)
    BY <2>3, <2>5, SameSum
  <2>10. CostSum(c, f) = SumFunctionOnSet(g, (1..n) \cup {n + 1})
    BY <2>1, <2>3
  <2>9. x \in Nat /\ SumFunctionOnSet(h, 1..n) \in Nat
    BY <1>6, <1>8, <2>2 DEF x
  <2> QED
    BY <2>2, <2>6, <2>7, <2>8, <2>9, <2>10
<1>10. CostMax(c, f) = Larger(CostMax(c, e), x)
  <2> DEFINE T == {CutCost(c, p, k) : k \in DOMAIN p}
             U == {CutCost(c, q, k) : k \in DOMAIN q}
             o == CostMax(c, e)
  <2>1. T = U \cup {x}
    <3>1. \A k \in 1..(n + 1) : k = n + 1 \/ k \in 1..n
      BY <1>0
    <3>2. n + 1 \in 1..(n + 1) /\ \A k \in 1..n : k \in 1..(n + 1)
      BY <1>0
    <3> QED
      BY <1>1, <1>2, <3>1, <3>2
  <2>2. U \in SUBSET Nat /\ U # {}
    <3>1. n \in 1..n
      BY <1>0
    <3> QED
      BY <1>2, <1>5, <3>1
  <2>3. IsFiniteSet(U)
    <3>1. U = ImageOf(h, 1..n)
      BY <1>2 DEF ImageOf
    <3>2. IsFiniteSet(1..n)
      BY <1>0, FS_Interval
    <3> QED
      BY <3>1, <3>2, ImageIsFinite
  <2>4. o = Max(U) /\ CostMax(c, f) = Max(T)
    BY DEF CostMax
  <2> HIDE DEF T, U, o, x
  <2>5. o \in U /\ o \in Nat /\ \A t \in U : t <= o
    BY <2>2, <2>3, <2>4, MaxOf
  <2>6. Max({o, x}) = IF o >= x THEN o ELSE x
    BY <1>8, <2>5, MaxOfTwo
  <2> DEFINE z == IF o >= x THEN o ELSE x
  <2>7. T \in SUBSET Nat /\ z \in T /\ \A t \in T : t <= z
    BY <1>8, <2>1, <2>2, <2>5
  <2> HIDE DEF z
  <2>8. Max(T) = z
    BY <2>7, MaxIs
  <2> QED
    BY <2>4, <2>6, <2>8 DEF o, x, z, Larger
<1> QED
  BY <1>6, <1>8, <1>9, <1>10

-----------------------------------------------------------------------------
(* The cells of the DP.                                                     *)

\* What a cell says is true: its ends are an allowed cut that costs what it says.
Sound(c, R, ref, n, y, x) ==
  x # Empty =>
    /\ x.ends \in CutsTo(c, n, y) /\ Allowed(c, R, ref, CutOf(c, x.ends))
    /\ x.sum = CostSum(c, x.ends) /\ x.max = CostMax(c, x.ends)

\* No allowed cut is cheaper.
Cheapest(c, R, ref, n, y, x) ==
  c.mode # "blended" =>
    \A e \in CutsTo(c, n, y) : Allowed(c, R, ref, CutOf(c, e)) =>
      x # Empty /\ _rank(c, x) <= CutRank(c, CutOf(c, e))

LEMMA RankIsCutRank ==
  ASSUME NEW c, Knobs(c), NEW x, NEW e, x.sum = CostSum(c, e), x.max = CostMax(c, e)
  PROVE  c.mode # "blended" => _rank(c, x) = CutRank(c, CutOf(c, e))
<1>1. c.mode \in {"throughput", "latency", "blended"}
  BY KnobTypes
<1> QED
  BY <1>1 DEF _rank, CutRank, CostSum, CostMax

LEMMA RankIsNat ==
  ASSUME NEW c, Knobs(c), NEW x, x.sum \in Nat, x.max \in Nat
  PROVE  _rank(c, x) \in Nat
<1>1. c.mode \in {"throughput", "latency", "blended"} /\ c.alpha \in Nat
  BY KnobTypes
<1>2. c.alpha * x.max \in Nat
  BY <1>1
<1> QED
  BY <1>1, <1>2 DEF _rank

LEMMA FirstBestIs ==
  ASSUME NEW c, NEW ext, NEW fits \in SUBSET Nat, fits # {},
         \A s \in fits : _rank(c, ext[s]) \in Nat
  PROVE  \E b \in fits : /\ FirstBest(c, ext, fits) = ext[b]
                         /\ \A t \in fits : _rank(c, ext[b]) <= _rank(c, ext[t])
<1> DEFINE rank(s) == _rank(c, ext[s])
           f == [s \in fits |-> rank(s)]
<1>3. \E b \in fits : \A t \in fits : rank(b) < rank(t) \/ (rank(b) = rank(t) /\ b <= t)
  <2>1. \A s \in fits : f[s] \in Nat /\ f[s] = rank(s)
    OBVIOUS
  <2> HIDE DEF f
  <2>2. \E b \in fits : \A t \in fits : f[b] < f[t] \/ (f[b] = f[t] /\ b <= t)
    BY <2>1, FirstLeast
  <2> QED
    BY <2>1, <2>2
<1> DEFINE w == CHOOSE s \in fits : \A t \in fits :
                  rank(s) < rank(t) \/ (rank(s) = rank(t) /\ s <= t)
<1>4. w \in fits /\ \A t \in fits : rank(w) < rank(t) \/ (rank(w) = rank(t) /\ w <= t)
  BY <1>3
<1>5. FirstBest(c, ext, fits) = ext[w]
  BY DEF FirstBest
<1> HIDE DEF w
<1> QED
  BY <1>4, <1>5

LEMMA OneRange ==
  ASSUME NEW c, NEW y
  PROVE  /\ \A e \in CutsTo(c, 1, y) : e = <<y>>
         /\ y \in 1..Layers(c) => <<y>> \in CutsTo(c, 1, y)
<1>1. 1..1 = {1} /\ 2..1 = {}
  OBVIOUS
<1>2. ASSUME NEW e \in CutsTo(c, 1, y)
      PROVE  e = <<y>>
  <2>1. e = [k \in 1..1 |-> e[k]] /\ e[1] = y
    BY DEF CutsTo
  <2>2. e = [k \in 1..1 |-> y]
    BY <1>1, <2>1
  <2> QED
    BY <2>2
<1>3. ASSUME y \in 1..Layers(c)
      PROVE  <<y>> \in CutsTo(c, 1, y)
  BY <1>1, <1>3 DEF CutsTo
<1> QED
  BY <1>2, <1>3

LEMMA FirstCellIsBest ==
  ASSUME NEW c, IsSpec(c), NEW R, NEW ref, NEW y \in 1..Layers(c)
  PROVE  /\ Sound(c, R, ref, 1, y, FirstCell(c, R, ref, y))
         /\ Cheapest(c, R, ref, 1, y, FirstCell(c, R, ref, y))
<1> DEFINE e == <<y>>
           p == CutOf(c, e)
           d == c.devices[1]
           cost == StageTime(c, d, 1, y)
           x == FirstCell(c, R, ref, y)
           g == [k \in DOMAIN p |-> CutCost(c, p, k)]
<1>0. Knobs(c) /\ M(c) \in Nat \ {0} /\ d \in ToSet(c.devices) /\ y \in Nat /\ y <= Layers(c)
  BY SpecOrder, KnobTypes DEF IsSpec
<1>1. e \in CutsTo(c, 1, y) /\ e # << >> /\ \A f \in CutsTo(c, 1, y) : f = e
  BY OneRange
<1>2. cost \in Nat
  BY <1>0, StageTimeIsNat
<1>3. DOMAIN p = {1} /\ p[1].device = d /\ p[1].start = 1 /\ p[1].end = y
  BY DEF CutOf, Placed
<1>4. CutCost(c, p, 1) = cost
  BY <1>2, <1>3 DEF CutCost
<1>5. CostSum(c, e) = cost
  <2>1. CostSum(c, e) = SumFunctionOnSet(g, {1}) /\ g[1] = cost
    BY <1>3, <1>4 DEF CostSum, SumFunction
  <2>2. IsFiniteSet({}) /\ {1} = {} \cup {1}
    BY FS_EmptySet
  <2>3. \A k \in {} \cup {1} : g[k] \in Nat
    BY <1>2, <2>1
  <2> HIDE DEF g, cost
  <2>4. SumFunctionOnSet(g, {} \cup {1}) = g[1] + SumFunctionOnSet(g, {})
    BY <2>2, <2>3, SumWith
  <2>5. SumFunctionOnSet(g, {}) = 0
    BY SumOfNone
  <2>6. SumFunctionOnSet(g, {1}) = g[1] + 0
    BY <2>2, <2>4, <2>5
  <2> QED
    BY <1>2, <2>1, <2>6
<1>6. CostMax(c, e) = cost
  <2>1. {CutCost(c, p, k) : k \in DOMAIN p} = {cost}
    BY <1>3, <1>4
  <2>2. Max({cost}) = cost
    <3>1. {cost} \in SUBSET Nat /\ cost \in {cost} /\ \A n \in {cost} : n <= cost
      BY <1>2
    <3> HIDE DEF cost
    <3> QED
      BY <3>1, MaxIs
  <2> QED
    BY <2>1, <2>2 DEF CostMax
<1>7. Allowed(c, R, ref, p) <=> memory_check(c, d, 1, y, R, ref) /\ WithinCap(c, cost)
  BY <1>3, <1>4 DEF Allowed
<1> HIDE DEF p, cost, d
<1>8. CASE memory_check(c, d, 1, y, R, ref) /\ WithinCap(c, cost)
  <2>1. x = [sum |-> cost, max |-> cost, ends |-> e]
    BY <1>8 DEF FirstCell, d, cost
  <2>2. x.ends = e /\ x.sum = cost /\ x.max = cost
    BY <2>1
  <2>3. x # Empty
    BY <1>1, <2>2 DEF Empty
  <2> HIDE DEF x, e
  <2>4. Sound(c, R, ref, 1, y, x)
    BY <1>1, <1>5, <1>6, <1>7, <1>8, <2>2 DEF Sound, p
  <2>5. c.mode # "blended" => _rank(c, x) = CutRank(c, CutOf(c, e))
    BY <1>0, <1>5, <1>6, <2>2, RankIsCutRank
  <2>6. _rank(c, x) \in Nat
    BY <1>0, <1>2, <2>2, RankIsNat
  <2>7. Cheapest(c, R, ref, 1, y, x)
    BY <1>1, <2>3, <2>5, <2>6 DEF Cheapest
  <2> QED
    BY <2>4, <2>7 DEF x
<1>9. CASE ~(memory_check(c, d, 1, y, R, ref) /\ WithinCap(c, cost))
  <2>1. x = Empty
    BY <1>9 DEF FirstCell, d, cost
  <2> HIDE DEF x, e
  <2>2. \A f \in CutsTo(c, 1, y) : ~Allowed(c, R, ref, CutOf(c, f))
    BY <1>1, <1>7, <1>9 DEF p
  <2> QED
    BY <2>1, <2>2 DEF Sound, Cheapest, x
<1> QED
  BY <1>8, <1>9

\* The cells of the row before, which the DP extends.
RowIsBest(c, R, ref, n, row) ==
  \A y \in 1..Layers(c) : Sound(c, R, ref, n, y, row[y]) /\ Cheapest(c, R, ref, n, y, row[y])

LEMMA ExtensionIsCut ==
  ASSUME NEW c, IsSpec(c), NEW R, NEW ref, NEW m \in Nat \ {0}, m + 1 <= M(c),
         NEW prev, RowIsBest(c, R, ref, m, prev),
         NEW y \in 1..Layers(c), NEW s \in m..(y - 1), prev[s] # Empty,
         MayStep(c, R, ref, m + 1, s, y),
         NEW x, x = Extended(c, prev[s], m + 1, s, y)
  PROVE  /\ x.ends \in CutsTo(c, m + 1, y) /\ Allowed(c, R, ref, CutOf(c, x.ends))
         /\ x.sum = CostSum(c, x.ends) /\ x.max = CostMax(c, x.ends)
         /\ x.sum \in Nat /\ x.max \in Nat
<1> DEFINE e == prev[s].ends
           f == Append(e, y)
           step == StepCost(c, m + 1, s, y)
<1>a. Knobs(c)
  BY DEF IsSpec
<1>b. Layers(c) \in Nat
  BY <1>a, KnobTypes
<1>0. Knobs(c) /\ s \in 1..Layers(c) /\ s < y /\ m + 1 \in Nat \ {0} /\ (m + 1) - 1 = m
  BY <1>a, <1>b
<1>1. /\ e \in CutsTo(c, m, s) /\ Allowed(c, R, ref, CutOf(c, e))
      /\ prev[s].sum = CostSum(c, e) /\ prev[s].max = CostMax(c, e)
  BY <1>0 DEF RowIsBest, Sound
<1>2. Grows(c, m, s, e, y, f)
  BY <1>0, <1>1 DEF Grows
<1>3. f \in CutsTo(c, m + 1, y)
  BY <1>2, CutCosts
<1>4. Allowed(c, R, ref, CutOf(c, f))
  BY <1>1, <1>2, AllowedGrows
<1>5. /\ CostSum(c, f) = CostSum(c, e) + step
      /\ CostMax(c, f) = Larger(CostMax(c, e), step)
  BY <1>2, <1>4, CostsGrow
<1>6. CostSum(c, f) \in Nat /\ CostMax(c, f) \in Nat
  BY <1>0, <1>3, <1>4, CostsAreNat
<1>7. /\ x.sum = prev[s].sum + step /\ x.max = Larger(prev[s].max, step)
      /\ x.ends = f
  BY <1>0 DEF Extended, StepCost, Larger
<1> QED
  BY <1>1, <1>3, <1>4, <1>5, <1>6, <1>7

\* An allowed cut has a cell of the row before that is not worse than its own
\* first ranges, and the cell may be extended like them.
LEMMA CutIsExtension ==
  ASSUME NEW c, IsSpec(c), c.mode # "blended", NEW R, NEW ref,
         NEW m \in Nat \ {0}, m + 1 <= M(c),
         NEW prev, RowIsBest(c, R, ref, m, prev),
         NEW y, NEW f \in CutsTo(c, m + 1, y), Allowed(c, R, ref, CutOf(c, f))
  PROVE  \E s \in m..(y - 1) :
           /\ prev[s] # Empty /\ MayStep(c, R, ref, m + 1, s, y)
           /\ _rank(c, Extended(c, prev[s], m + 1, s, y)) <= CutRank(c, CutOf(c, f))
<1> DEFINE s == f[m]
           step == StepCost(c, m + 1, s, y)
           x == Extended(c, prev[s], m + 1, s, y)
<1>0. Knobs(c) /\ c.mode \in {"throughput", "latency"}
  BY KnobTypes DEF IsSpec
<1>1. PICK e \in CutsTo(c, m, s) :
        f = Append(e, y) /\ s \in m..(y - 1) /\ y \in 1..Layers(c) /\ s \in 1..Layers(c)
  BY <1>0, CutShortened
<1> DEFINE b == prev[s].ends
           g == Append(b, y)
<1> HIDE DEF s
<1>2. s < y /\ m + 1 \in Nat \ {0} /\ (m + 1) - 1 = m
  BY <1>1
<1>3. Grows(c, m, s, e, y, f)
  BY <1>0, <1>1, <1>2 DEF Grows
<1>4. Allowed(c, R, ref, CutOf(c, e)) /\ MayStep(c, R, ref, m + 1, s, y)
  BY <1>3, AllowedGrows
<1>5. /\ prev[s] # Empty /\ _rank(c, prev[s]) <= CutRank(c, CutOf(c, e))
  BY <1>1, <1>4 DEF RowIsBest, Cheapest
<1>6. /\ b \in CutsTo(c, m, s) /\ Allowed(c, R, ref, CutOf(c, b))
      /\ prev[s].sum = CostSum(c, b) /\ prev[s].max = CostMax(c, b)
  BY <1>1, <1>5 DEF RowIsBest, Sound
<1>7. /\ step \in Nat /\ CostSum(c, e) \in Nat /\ CostMax(c, e) \in Nat
      /\ CostSum(c, f) = CostSum(c, e) + step
      /\ CostMax(c, f) = Larger(CostMax(c, e), step)
  BY <1>3, CostsGrow
<1>8. Grows(c, m, s, b, y, g)
  BY <1>0, <1>1, <1>2, <1>6 DEF Grows
<1>9. Allowed(c, R, ref, CutOf(c, g))
  BY <1>4, <1>6, <1>8, AllowedGrows
<1>10. CostSum(c, b) \in Nat /\ CostMax(c, b) \in Nat
  BY <1>8, <1>9, CostsGrow
<1>11. x.sum = CostSum(c, b) + step /\ x.max = Larger(CostMax(c, b), step)
  BY <1>2, <1>6 DEF Extended, StepCost, Larger
<1> HIDE DEF x, step, b, g
<1>12. _rank(c, x) <= CutRank(c, CutOf(c, f))
  <2>1. CASE c.mode = "throughput"
    <3>1. /\ _rank(c, x) = x.max /\ _rank(c, prev[s]) = prev[s].max
          /\ CutRank(c, CutOf(c, e)) = CostMax(c, e)
          /\ CutRank(c, CutOf(c, f)) = CostMax(c, f)
      BY <2>1 DEF _rank, CutRank, CostMax
    <3>2. Larger(CostMax(c, b), step) = IF CostMax(c, b) >= step THEN CostMax(c, b) ELSE step
      BY <1>7, <1>10, MaxOfTwo DEF Larger
    <3>3. Larger(CostMax(c, e), step) = IF CostMax(c, e) >= step THEN CostMax(c, e) ELSE step
      BY <1>7, MaxOfTwo DEF Larger
    <3>4. CostMax(c, b) <= CostMax(c, e)
      BY <1>5, <1>6, <3>1
    <3> QED
      BY <1>7, <1>10, <1>11, <3>1, <3>2, <3>3, <3>4
  <2>2. CASE c.mode = "latency"
    <3>1. /\ _rank(c, x) = x.sum /\ _rank(c, prev[s]) = prev[s].sum
          /\ CutRank(c, CutOf(c, e)) = CostSum(c, e)
          /\ CutRank(c, CutOf(c, f)) = CostSum(c, f)
      BY <2>2 DEF _rank, CutRank, CostSum
    <3> QED
      BY <1>5, <1>6, <1>7, <1>10, <1>11, <3>1
  <2> QED
    BY <1>0, <2>1, <2>2
<1> QED
  BY <1>1, <1>4, <1>5, <1>12 DEF x

LEMMA BestCellIsBest ==
  ASSUME NEW c, IsSpec(c), NEW R, NEW ref, NEW m \in Nat \ {0}, m + 1 <= M(c),
         NEW prev, RowIsBest(c, R, ref, m, prev), NEW y \in 1..Layers(c),
         NEW x, x = BestCell(c, R, ref, prev, m + 1, y)
  PROVE  Sound(c, R, ref, m + 1, y, x) /\ Cheapest(c, R, ref, m + 1, y, x)
<1> DEFINE n == m + 1
           E(s) == Extended(c, prev[s], n, s, y)
           ext == [s \in (n - 1)..(y - 1) |-> E(s)]
           fits == Fits(c, R, ref, prev, ext, n, y)
<1>0. Knobs(c) /\ n - 1 = m /\ y \in Nat
  BY DEF IsSpec
<1>1. \A s \in m..(y - 1) : ext[s] = E(s) /\ E(s).cost = StepCost(c, n, s, y)
  BY <1>0 DEF Extended, StepCost
<1>2. x = CellOf(c, ext, fits)
  BY DEF BestCell
<1>3. fits = {s \in m..(y - 1) : prev[s] # Empty /\ MayStep(c, R, ref, n, s, y)}
  <2> HIDE DEF ext, n, E
  <2> QED
    BY <1>0, <1>1 DEF Fits, MayStep
<1>4. fits \in SUBSET Nat
  BY <1>3
<1>5. ASSUME NEW s \in fits
      PROVE  /\ E(s).ends \in CutsTo(c, n, y) /\ Allowed(c, R, ref, CutOf(c, E(s).ends))
             /\ E(s).sum = CostSum(c, E(s).ends) /\ E(s).max = CostMax(c, E(s).ends)
             /\ E(s).sum \in Nat /\ E(s).max \in Nat /\ _rank(c, E(s)) \in Nat
  <2> DEFINE z == E(s)
  <2>1. s \in m..(y - 1) /\ prev[s] # Empty /\ MayStep(c, R, ref, m + 1, s, y)
    BY <1>3
  <2>2. z = Extended(c, prev[s], m + 1, s, y)
    OBVIOUS
  <2> HIDE DEF z
  <2>3. /\ z.ends \in CutsTo(c, m + 1, y) /\ Allowed(c, R, ref, CutOf(c, z.ends))
        /\ z.sum = CostSum(c, z.ends) /\ z.max = CostMax(c, z.ends)
        /\ z.sum \in Nat /\ z.max \in Nat
    BY <2>1, <2>2, ExtensionIsCut
  <2>4. _rank(c, z) \in Nat
    BY <1>0, <2>3, RankIsNat
  <2> QED
    BY <2>3, <2>4 DEF z
<1>6. \A s \in fits : _rank(c, ext[s]) \in Nat /\ ext[s] = E(s)
  BY <1>1, <1>3, <1>5
<1>7. CASE fits = {} \/ ~RanksBelowEmpty(c)
  <2>1. x = Empty
    BY <1>2, <1>7 DEF CellOf
  <2>2. ASSUME c.mode # "blended", NEW f \in CutsTo(c, n, y), Allowed(c, R, ref, CutOf(c, f))
        PROVE  FALSE
    <3>1. fits = {}
      BY <1>7, <2>2 DEF RanksBelowEmpty
    <3>2. \E s \in m..(y - 1) : prev[s] # Empty /\ MayStep(c, R, ref, m + 1, s, y)
      BY <2>2, CutIsExtension
    <3> QED
      BY <1>3, <3>1, <3>2
  <2> QED
    BY <2>1, <2>2 DEF Sound, Cheapest
<1>8. CASE fits # {} /\ RanksBelowEmpty(c)
  <2> HIDE DEF ext, fits, E, n
  <2>1. PICK b \in fits : /\ FirstBest(c, ext, fits) = ext[b]
                          /\ \A t \in fits : _rank(c, ext[b]) <= _rank(c, ext[t])
    BY <1>4, <1>6, <1>8, FirstBestIs
  <2> DEFINE z == E(b)
  <2>2. x = [sum |-> z.sum, max |-> z.max, ends |-> z.ends]
    BY <1>2, <1>6, <1>8, <2>1 DEF CellOf
  <2>3. x.sum = z.sum /\ x.max = z.max /\ x.ends = z.ends
    BY <2>2
  <2>4. /\ x.ends \in CutsTo(c, n, y) /\ Allowed(c, R, ref, CutOf(c, x.ends))
        /\ x.sum = CostSum(c, x.ends) /\ x.max = CostMax(c, x.ends)
    BY <1>5, <2>3
  <2>5. x # Empty
    <3>1. x.ends \in [1..n -> 1..Layers(c)] /\ n \in Nat \ {0}
      BY <2>4 DEF CutsTo, n
    <3>2. DOMAIN x.ends # {}
      <4>1. 1 \in 1..n /\ DOMAIN x.ends = 1..n
        BY <3>1
      <4> QED
        BY <4>1
    <3>3. x.ends # << >>
      BY <3>2
    <3> QED
      BY <3>3 DEF Empty
  <2>6. _rank(c, x) = _rank(c, z)
    BY <2>3 DEF _rank
  <2>7. ASSUME c.mode # "blended", NEW f \in CutsTo(c, n, y), Allowed(c, R, ref, CutOf(c, f))
        PROVE  _rank(c, x) <= CutRank(c, CutOf(c, f))
    <3>1. PICK s \in m..(y - 1) :
            /\ prev[s] # Empty /\ MayStep(c, R, ref, m + 1, s, y)
            /\ _rank(c, Extended(c, prev[s], m + 1, s, y)) <= CutRank(c, CutOf(c, f))
      BY <2>7, CutIsExtension DEF n
    <3>2. s \in fits
      BY <1>3, <3>1 DEF n
    <3>3. _rank(c, E(b)) <= _rank(c, E(s)) /\ _rank(c, E(b)) \in Nat /\ _rank(c, E(s)) \in Nat
      BY <1>6, <2>1, <3>2
    <3>4. _rank(c, E(s)) <= CutRank(c, CutOf(c, f))
      BY <3>1 DEF E, n
    <3>5. CutRank(c, CutOf(c, f)) \in Nat
      <4>1. n \in Nat \ {0} /\ n <= M(c)
        BY DEF n
      <4>2. CostSum(c, f) \in Nat /\ CostMax(c, f) \in Nat
        BY <2>7, <4>1, CostsAreNat
      <4> QED
        BY <4>2 DEF CutRank, CostSum, CostMax
    <3> QED
      BY <2>6, <3>3, <3>4, <3>5
  <2> QED
    BY <2>4, <2>5, <2>7 DEF Sound, Cheapest, n
<1> QED
  BY <1>7, <1>8

LEMMA RowsAreBest ==
  ASSUME NEW c, IsSpec(c), NEW R, NEW ref
  PROVE  /\ RowIsBest(c, R, ref, 1, FirstRow(c, R, ref))
         /\ \A m \in 1..(M(c) - 1) : \A prev : RowIsBest(c, R, ref, m, prev) =>
              RowIsBest(c, R, ref, m + 1, NextRow(c, R, ref, prev, m + 1))
<1>1. RowIsBest(c, R, ref, 1, FirstRow(c, R, ref))
  BY FirstCellIsBest DEF RowIsBest, FirstRow
<1>2. ASSUME NEW m \in 1..(M(c) - 1), NEW prev, RowIsBest(c, R, ref, m, prev)
      PROVE  RowIsBest(c, R, ref, m + 1, NextRow(c, R, ref, prev, m + 1))
  <2> DEFINE row == NextRow(c, R, ref, prev, m + 1)
  <2>1. m \in Nat \ {0} /\ m + 1 <= M(c) /\ m + 1 \in Nat \ {0} /\ m + 1 \in 1..(m + 1)
    BY SpecOrder
  <2>2. ASSUME NEW y \in 1..Layers(c)
        PROVE  Sound(c, R, ref, m + 1, y, row[y]) /\ Cheapest(c, R, ref, m + 1, y, row[y])
    <3>1. row[y] = IF y < m + 1 THEN Empty ELSE BestCell(c, R, ref, prev, m + 1, y)
      BY DEF NextRow
    <3> HIDE DEF row
    <3>2. CASE y < m + 1
      <4>1. ASSUME NEW e \in CutsTo(c, m + 1, y)
            PROVE  FALSE
        <5>1. Knobs(c)
          BY DEF IsSpec
        <5>2. m + 1 <= e[m + 1] /\ e[m + 1] = y
          BY <2>1, <5>1, CutGrows DEF CutsTo
        <5> QED
          BY <3>2, <5>2
      <4> QED
        BY <3>1, <3>2, <4>1 DEF Sound, Cheapest
    <3>3. CASE ~(y < m + 1)
      <4>1. row[y] = BestCell(c, R, ref, prev, m + 1, y)
        BY <3>1, <3>3
      <4> QED
        BY <1>2, <2>1, <4>1, BestCellIsBest
    <3> QED
      BY <3>2, <3>3
  <2> QED
    BY <2>2 DEF RowIsBest
<1> QED
  BY <1>1, <1>2

IsRows(g, c, R, ref, k) ==
  g = [n \in 1..k |-> IF n = 1 THEN FirstRow(c, R, ref) ELSE NextRow(c, R, ref, g[n - 1], n)]

LEMMA RowsExist ==
  ASSUME NEW c, NEW R, NEW ref, NEW m \in Nat \ {0}
  PROVE  \E g : IsRows(g, c, R, ref, m)
<1> DEFINE G == {k \in 1..m : \E g : IsRows(g, c, R, ref, k)}
<1>1. 1 \in G
  <2> DEFINE g == [n \in 1..1 |-> FirstRow(c, R, ref)]
  <2>1. g = [n \in 1..1 |-> IF n = 1 THEN FirstRow(c, R, ref)
                            ELSE NextRow(c, R, ref, g[n - 1], n)]
    OBVIOUS
  <2> HIDE DEF g
  <2> QED
    BY <2>1 DEF IsRows
<1>2. ASSUME NEW k \in 1..(m - 1), k \in G
      PROVE  k + 1 \in G
  <2>1. PICK g : IsRows(g, c, R, ref, k)
    BY <1>2
  <2> DEFINE h == [n \in 1..(k + 1) |-> IF n = k + 1 THEN NextRow(c, R, ref, g[k], k + 1)
                                        ELSE g[n]]
             F(n) == IF n = 1 THEN FirstRow(c, R, ref) ELSE NextRow(c, R, ref, h[n - 1], n)
  <2>2. \A n \in 1..k : g[n] = IF n = 1 THEN FirstRow(c, R, ref)
                               ELSE NextRow(c, R, ref, g[n - 1], n)
    <3> DEFINE z == [n \in 1..k |-> IF n = 1 THEN FirstRow(c, R, ref)
                                    ELSE NextRow(c, R, ref, g[n - 1], n)]
    <3>1. g = z
      BY <2>1 DEF IsRows
    <3>2. \A n \in 1..k : z[n] = IF n = 1 THEN FirstRow(c, R, ref)
                                 ELSE NextRow(c, R, ref, g[n - 1], n)
      OBVIOUS
    <3> QED
      BY <3>1, <3>2
  <2>3. ASSUME NEW n \in 1..(k + 1)
        PROVE  h[n] = F(n)
    <3>1. CASE n = k + 1
      <4>1. n # 1 /\ n - 1 = k /\ k \in 1..(k + 1) /\ k # k + 1
        BY <3>1
      <4>2. h[n] = NextRow(c, R, ref, g[k], k + 1) /\ h[k] = g[k]
        BY <3>1, <4>1
      <4> HIDE DEF h
      <4> QED
        BY <3>1, <4>1, <4>2
    <3>2. CASE n # k + 1
      <4>1. n \in 1..k /\ (n # 1 => n - 1 \in 1..(k + 1) /\ n - 1 # k + 1)
        BY <3>2
      <4>2. h[n] = g[n] /\ (n # 1 => h[n - 1] = g[n - 1])
        BY <3>2, <4>1
      <4> HIDE DEF h
      <4> QED
        BY <2>2, <4>1, <4>2
    <3> QED
      BY <3>1, <3>2
  <2>4. h = [n \in 1..(k + 1) |-> F(n)]
    BY <2>3
  <2> HIDE DEF h
  <2>5. IsRows(h, c, R, ref, k + 1)
    BY <2>4 DEF IsRows
  <2>6. k + 1 \in 1..m
    OBVIOUS
  <2> QED
    BY <2>5, <2>6
<1> HIDE DEF G
<1>3. m \in 1..m /\ 1 \in Int /\ m \in Int
  OBVIOUS
<1>4. \A k \in 1..m : k \in G
  BY <1>1, <1>2, <1>3, UpTo
<1> QED
  BY <1>3, <1>4 DEF G

\* What the DP returns.
LEMMA ForwardIsBest ==
  ASSUME NEW c, IsSpec(c), M(c) <= Layers(c), NEW R, NEW ref
  PROVE  /\ Sound(c, R, ref, M(c), Layers(c), _forward(c, R, ref))
         /\ Cheapest(c, R, ref, M(c), Layers(c), _forward(c, R, ref))
<1> DEFINE m == M(c)
           row == CHOOSE g : IsRows(g, c, R, ref, m)
           G == {k \in 1..m : RowIsBest(c, R, ref, k, row[k])}
<1>0. m \in Nat \ {0} /\ Layers(c) \in 1..Layers(c)
  <2>1. Knobs(c)
    BY DEF IsSpec
  <2>2. M(c) \in Nat \ {0}
    BY SpecOrder
  <2>3. Layers(c) \in Nat
    BY <2>1, KnobTypes
  <2> QED
    BY <2>2, <2>3
<1>1. IsRows(row, c, R, ref, m)
  BY <1>0, RowsExist
<1>2. _forward(c, R, ref) = row[m][Layers(c)]
  BY DEF _forward, IsRows
<1> HIDE DEF row
<1>3. \A n \in 1..m : row[n] = IF n = 1 THEN FirstRow(c, R, ref)
                               ELSE NextRow(c, R, ref, row[n - 1], n)
  <2> DEFINE z == [n \in 1..m |-> IF n = 1 THEN FirstRow(c, R, ref)
                                  ELSE NextRow(c, R, ref, row[n - 1], n)]
  <2>1. row = z
    BY <1>1 DEF IsRows
  <2>2. \A n \in 1..m : z[n] = IF n = 1 THEN FirstRow(c, R, ref)
                               ELSE NextRow(c, R, ref, row[n - 1], n)
    OBVIOUS
  <2> QED
    BY <2>1, <2>2
<1>4. 1 \in G
  <2>1. 1 \in 1..m
    BY <1>0
  <2>2. row[1] = FirstRow(c, R, ref)
    BY <1>3, <2>1
  <2> QED
    BY <2>1, <2>2, RowsAreBest
<1>5. ASSUME NEW k \in 1..(m - 1), k \in G
      PROVE  k + 1 \in G
  <2>1. k + 1 \in 1..m /\ k + 1 # 1 /\ (k + 1) - 1 = k
    BY <1>0
  <2>2. row[k + 1] = NextRow(c, R, ref, row[k], k + 1)
    BY <1>3, <2>1
  <2>3. RowIsBest(c, R, ref, k, row[k])
    BY <1>5
  <2>4. RowIsBest(c, R, ref, k + 1, NextRow(c, R, ref, row[k], k + 1))
    BY <2>3, RowsAreBest
  <2> QED
    BY <2>1, <2>2, <2>4
<1>6. m \in 1..m /\ 1 \in Int /\ m \in Int
  BY <1>0
<1> HIDE DEF G, m
<1>7. \A k \in 1..m : k \in G
  BY <1>4, <1>5, <1>6, UpTo
<1>8. RowIsBest(c, R, ref, m, row[m])
  BY <1>6, <1>7 DEF G
<1> QED
  BY <1>0, <1>2, <1>8 DEF RowIsBest, m

\* Without a table the DP does not depend on the reference placement.
LEMMA ForwardAlone ==
  ASSUME NEW c, IsSpec(c), M(c) <= Layers(c), NEW ref, NEW ref2
  PROVE  _forward(c, << >>, ref) = _forward(c, << >>, ref2)
<1> DEFINE m == M(c)
           R == << >>
           row == CHOOSE g : IsRows(g, c, R, ref, m)
           other == CHOOSE g : IsRows(g, c, R, ref2, m)
           G == {k \in 1..m : row[k] = other[k]}
<1>0. m \in Nat \ {0}
  BY SpecOrder
<1>1. IsRows(row, c, R, ref, m) /\ IsRows(other, c, R, ref2, m)
  BY <1>0, RowsExist
<1>2. _forward(c, R, ref) = row[m][Layers(c)] /\ _forward(c, R, ref2) = other[m][Layers(c)]
  BY DEF _forward, IsRows
<1> HIDE DEF row, other
<1>3. ASSUME NEW node, NEW s, NEW e
      PROVE  memory_check(c, node, s, e, R, ref) = memory_check(c, node, s, e, R, ref2)
  <2>1. backup_memory_for(c, node, R, ref) = 0 /\ backup_memory_for(c, node, R, ref2) = 0
    BY NoBackupMemory
  <2> QED
    BY <2>1 DEF memory_check
<1> HIDE DEF R
<1>4. FirstRow(c, R, ref) = FirstRow(c, R, ref2)
  <2>1. \A y : FirstCell(c, R, ref, y) = FirstCell(c, R, ref2, y)
    BY <1>3 DEF FirstCell
  <2> QED
    BY <2>1 DEF FirstRow
<1>5. ASSUME NEW prev, NEW n
      PROVE  NextRow(c, R, ref, prev, n) = NextRow(c, R, ref2, prev, n)
  <2>1. \A ext, y : Fits(c, R, ref, prev, ext, n, y) = Fits(c, R, ref2, prev, ext, n, y)
    BY <1>3 DEF Fits
  <2>2. \A y : BestCell(c, R, ref, prev, n, y) = BestCell(c, R, ref2, prev, n, y)
    BY <2>1 DEF BestCell
  <2> QED
    BY <2>2 DEF NextRow
<1>6. \A n \in 1..m : row[n] = IF n = 1 THEN FirstRow(c, R, ref)
                               ELSE NextRow(c, R, ref, row[n - 1], n)
  <2> DEFINE z == [n \in 1..m |-> IF n = 1 THEN FirstRow(c, R, ref)
                                  ELSE NextRow(c, R, ref, row[n - 1], n)]
  <2>1. row = z
    BY <1>1 DEF IsRows
  <2>2. \A n \in 1..m : z[n] = IF n = 1 THEN FirstRow(c, R, ref)
                               ELSE NextRow(c, R, ref, row[n - 1], n)
    OBVIOUS
  <2> QED
    BY <2>1, <2>2
<1>7. \A n \in 1..m : other[n] = IF n = 1 THEN FirstRow(c, R, ref2)
                                 ELSE NextRow(c, R, ref2, other[n - 1], n)
  <2> DEFINE z == [n \in 1..m |-> IF n = 1 THEN FirstRow(c, R, ref2)
                                  ELSE NextRow(c, R, ref2, other[n - 1], n)]
  <2>1. other = z
    BY <1>1 DEF IsRows
  <2>2. \A n \in 1..m : z[n] = IF n = 1 THEN FirstRow(c, R, ref2)
                               ELSE NextRow(c, R, ref2, other[n - 1], n)
    OBVIOUS
  <2> QED
    BY <2>1, <2>2
<1>8. 1 \in G
  BY <1>0, <1>4, <1>6, <1>7
<1>9. ASSUME NEW k \in 1..(m - 1), k \in G
      PROVE  k + 1 \in G
  <2>1. k + 1 \in 1..m /\ k + 1 # 1 /\ (k + 1) - 1 = k
    BY <1>0
  <2>2. /\ row[k + 1] = NextRow(c, R, ref, row[k], k + 1)
        /\ other[k + 1] = NextRow(c, R, ref2, other[k], k + 1)
    BY <1>6, <1>7, <2>1
  <2>3. row[k] = other[k]
    BY <1>9
  <2> QED
    BY <1>5, <2>1, <2>2, <2>3
<1>10. m \in 1..m /\ 1 \in Int /\ m \in Int
  BY <1>0
<1> HIDE DEF G, m
<1>11. \A k \in 1..m : k \in G
  BY <1>8, <1>9, <1>10, UpTo
<1>12. row[m] = other[m]
  BY <1>10, <1>11 DEF G
<1> QED
  BY <1>2, <1>12 DEF R

-----------------------------------------------------------------------------
(* The recovery table.                                                      *)

LEMMA HostsAreDevices ==
  ASSUME NEW c, IsSpec(c)
  PROVE  Hosts(c) = c.devices
<1>1. c.hosts = << >>
  BY KnobTypes DEF IsSpec
<1>2. c.devices \in Seq(ToSet(c.devices))
  BY DEF IsSpec, Order
<1>3. << >> \o c.devices = c.devices
  BY <1>2
<1> QED
  BY <1>1, <1>3 DEF Hosts

LEMMA StageOfIs ==
  ASSUME NEW c, IsSpec(c), NEW p, Shape(c, p), NEW n \in 1..M(c)
  PROVE  StageOf(p, c.devices[n]) = n /\ UsedBy(c, p, c.devices[n]) = StageBytes(c, p[n])
<1> DEFINE m == M(c)
           S == {p[i] : i \in 1..m}
           I == {i \in 1..Len(p) : p[i].device = c.devices[n]}
<1>1. m \in Nat \ {0} /\ DOMAIN p = 1..m /\ p = [i \in DOMAIN p |-> p[i]]
      /\ \A i \in 1..m : p[i].device = c.devices[i]
  BY SpecOrder DEF Shape
<1>2. Len(p) = m
  <2>1. p \in [1..m -> S]
    BY <1>1
  <2> HIDE DEF m, S
  <2> QED
    BY <1>1, <2>1, FunctionIsSeq
<1>3. I = {n}
  <2>1. \A i \in 1..m : c.devices[i] = c.devices[n] => i = n
    BY SpecOrder
  <2> QED
    BY <1>1, <1>2, <2>1
<1>4. Min({n}) = n
  <2>1. {n} \in SUBSET Nat /\ {n} # {}
    OBVIOUS
  <2> QED
    BY <2>1, MinOf
<1>5. StageOf(p, c.devices[n]) = n
  <2>1. StageOf(p, c.devices[n]) = IF I # {} THEN Min(I) ELSE 0
    BY DEF StageOf, SelectInSeq
  <2> HIDE DEF I
  <2> QED
    BY <1>3, <1>4, <2>1
<1> QED
  BY <1>5 DEF UsedBy

\* Nobody is used who has no stage.
LEMMA UsedByOther ==
  ASSUME NEW c, IsSpec(c), NEW p, Shape(c, p), NEW d, d \notin ToSet(c.devices)
  PROVE  UsedBy(c, p, d) = 0
<1> DEFINE m == M(c)
           S == {p[i] : i \in 1..m}
           I == {i \in 1..Len(p) : p[i].device = d}
<1>1. m \in Nat \ {0} /\ DOMAIN p = 1..m /\ p = [i \in DOMAIN p |-> p[i]]
      /\ \A i \in 1..m : p[i].device = c.devices[i] /\ c.devices[i] # d
  BY SpecOrder DEF Shape
<1>2. Len(p) = m
  <2>1. p \in [1..m -> S]
    BY <1>1
  <2> HIDE DEF m, S
  <2> QED
    BY <1>1, <2>1, FunctionIsSeq
<1>3. I = {}
  BY <1>1, <1>2
<1>5. StageOf(p, d) = 0
  <2>1. StageOf(p, d) = IF I # {} THEN Min(I) ELSE 0
    BY DEF StageOf, SelectInSeq
  <2> HIDE DEF I
  <2> QED
    BY <1>3, <2>1
<1> QED
  BY <1>5 DEF UsedBy

LEMMA BackupCostIsNat ==
  ASSUME NEW c, IsSpec(c), NEW p, Shape(c, p), NEW n \in 1..M(c),
         NEW k \in ToSet(c.devices), Measured(c, k, c.devices[n])
  PROVE  BackupCost(c, p[n], k) \in Nat
<1>1. /\ p[n].device = c.devices[n] /\ p[n].start \in Nat \ {0} /\ p[n].end \in Nat
      /\ p[n].end <= Layers(c) /\ c.devices[n] \in ToSet(c.devices)
  BY SpecOrder DEF Shape
<1>2. StageBytes(c, p[n]) \in Nat
  BY ShapeBytes DEF IsSpec
<1>3. c.rate[<<k, c.devices[n]>>] \in Nat /\ c.lat[<<k, c.devices[n]>>] \in Nat
  BY <1>1 DEF IsSpec, Measures
<1>4. Sum(c.time[k], p[n].start, p[n].end) \in Nat
  <2>1. IsFiniteSet(p[n].start..p[n].end)
    <3> DEFINE a == p[n].start
               b == p[n].end
    <3>1. a \in Int /\ b \in Int
      BY <1>1
    <3> HIDE DEF a, b
    <3>2. IsFiniteSet(a..b)
      BY <3>1, FS_Interval
    <3> QED
      BY <3>2 DEF a, b
  <2>2. \A i \in p[n].start..p[n].end : i \in 1..Layers(c)
    BY <1>1, KnobTypes DEF IsSpec
  <2>3. \A i \in p[n].start..p[n].end : c.time[k][i] \in Nat
    BY <2>2 DEF IsSpec, Measures
  <2> QED
    BY <2>1, <2>3, SumIsNat DEF Sum
<1>5. StageBytes(c, p[n]) * c.rate[<<k, c.devices[n]>>] \in Nat
  BY <1>2, <1>3
<1> QED
  BY <1>1, <1>3, <1>4, <1>5 DEF BackupCost

RoomAt(c, p, n, reserved, k) ==
  UsedBy(c, p, k) + (IF c.eager THEN reserved[k] ELSE 0) + StageBytes(c, p[n]) <= Budget(c, k)

LEMMA BestHostIsAble ==
  ASSUME NEW c, IsSpec(c), NEW p, Shape(c, p), NEW n \in 1..M(c), NEW reserved,
         NEW i, i = BestHost(c, p, p[n], reserved), i # 0
  PROVE  /\ i \in 1..M(c) /\ c.devices[i] # c.devices[n]
         /\ RoomAt(c, p, n, reserved, c.devices[i]) /\ Measured(c, c.devices[i], c.devices[n])
<1> DEFINE able == {a \in DOMAIN c.devices : /\ c.devices[a] # c.devices[n]
                                             /\ RoomAt(c, p, n, reserved, c.devices[a])
                                             /\ Measured(c, c.devices[a], c.devices[n])}
           cost(a) == BackupCost(c, p[n], c.devices[a])
           f == [a \in able |-> cost(a)]
<1>1. Hosts(c) = c.devices /\ p[n].device = c.devices[n] /\ DOMAIN c.devices = 1..M(c)
      /\ M(c) \in Nat
  BY HostsAreDevices, SpecOrder DEF Shape
<1>2. i = IF able = {} THEN 0
          ELSE CHOOSE a \in able : \A b \in able : cost(a) < cost(b) \/ (cost(a) = cost(b) /\ a <= b)
  BY <1>1 DEF BestHost, RoomAt
<1>3. able \in SUBSET Nat /\ \A a \in able : a \in 1..M(c) /\ f[a] = cost(a)
  BY <1>1
<1>4. \A a \in able : f[a] \in Nat
  <2>1. \A a \in able : c.devices[a] \in ToSet(c.devices) /\ Measured(c, c.devices[a], c.devices[n])
    BY <1>3, SpecOrder
  <2> QED
    BY <1>3, <2>1, BackupCostIsNat
<1>5. able # {}
  BY <1>2
<1>6. \E b \in able : \A t \in able : f[b] < f[t] \/ (f[b] = f[t] /\ b <= t)
  <2> HIDE DEF f, able
  <2> QED
    BY <1>3, <1>4, <1>5, FirstLeast
<1>7. \E b \in able : \A t \in able : cost(b) < cost(t) \/ (cost(b) = cost(t) /\ b <= t)
  BY <1>3, <1>6
<1>8. i \in able
  BY <1>2, <1>5, <1>7
<1> QED
  BY <1>1, <1>8

\* What holds of the table after the turns of the first k devices.
AfterTurns(c, p, k, acc) ==
  /\ acc.ok \in BOOLEAN
  /\ acc.ok =>
       LET R == acc.R
       IN /\ DOMAIN R = {c.devices[i] : i \in 1..k}
          /\ \A d \in DOMAIN R : /\ R[d] \in ToSet(c.devices) /\ R[d] # d
                                 /\ Measured(c, R[d], d)
          /\ DOMAIN acc.reserved = ToSet(c.devices)
          /\ \A h \in ToSet(c.devices) : acc.reserved[h] = backup_memory_for(c, h, R, p)
          /\ c.eager => \A d \in DOMAIN R :
               UsedBy(c, p, R[d]) + acc.reserved[R[d]] <= Budget(c, R[d])

LEMMA NothingIsAfterNoTurn ==
  ASSUME NEW c, IsSpec(c), NEW p
  PROVE  AfterTurns(c, p, 0, NothingAssigned(c))
<1> DEFINE a == NothingAssigned(c)
<1>1. a.ok = TRUE /\ a.R = << >> /\ a.reserved = [d \in ToSet(c.devices) |-> 0]
  BY HostsAreDevices DEF NothingAssigned
<1> HIDE DEF a
<1>2. DOMAIN << >> = {} /\ 1..0 = {}
  OBVIOUS
<1>3. \A h \in ToSet(c.devices) : a.reserved[h] = backup_memory_for(c, h, a.R, p)
  BY <1>1, NoBackupMemory
<1>4. DOMAIN a.R = {} /\ DOMAIN a.R = {c.devices[i] : i \in 1..0}
  BY <1>1, <1>2
<1>5. DOMAIN a.reserved = ToSet(c.devices)
  BY <1>1
<1> QED
  BY <1>1, <1>3, <1>4, <1>5 DEF AfterTurns, a

\* One backup more on host h.
LEMMA BackupAdded ==
  ASSUME NEW c, IsSpec(c), NEW p, Shape(c, p), NEW R, NEW n \in 1..M(c),
         c.devices[n] \notin DOMAIN R, NEW h, NEW Q, DOMAIN Q = DOMAIN R \cup {c.devices[n]},
         \A d \in DOMAIN R : Q[d] = R[d], Q[c.devices[n]] = h, NEW g
  PROVE  backup_memory_for(c, g, Q, p)
           = IF g = h THEN backup_memory_for(c, g, R, p) + StageBytes(c, p[n])
             ELSE backup_memory_for(c, g, R, p)
<1> DEFINE b == [j \in DOMAIN p |-> StageBytes(c, p[j])]
           S == StagesAt(R, p, g)
           T == StagesAt(Q, p, g)
<1>1. DOMAIN p = 1..M(c) /\ \A i \in 1..M(c) : p[i].device = c.devices[i]
  BY DEF Shape
<1>2. \A i \in 1..M(c) : c.devices[i] = c.devices[n] => i = n
  BY SpecOrder
<1>3. n \notin S
  BY <1>1 DEF StagesAt
<1>4. T = IF g = h THEN S \cup {n} ELSE S
  BY <1>1, <1>2 DEF StagesAt
<1>5. /\ IsFiniteSet(S) /\ \A i \in S : b[i] \in Nat
      /\ backup_memory_for(c, g, R, p) = SumFunctionOnSet(b, S)
      /\ backup_memory_for(c, g, R, p) \in Nat
  BY BackupMemory
<1>6. backup_memory_for(c, g, Q, p) = SumFunctionOnSet(b, T)
  BY BackupMemory
<1>7. b[n] = StageBytes(c, p[n]) /\ b[n] \in Nat
  BY <1>1, ShapeBytes DEF IsSpec
<1> HIDE DEF b, S, T
<1>8. SumFunctionOnSet(b, S \cup {n}) = b[n] + SumFunctionOnSet(b, S)
  BY <1>3, <1>5, <1>7, SumWith
<1>9. CASE g = h
  <2>1. backup_memory_for(c, g, Q, p) = b[n] + backup_memory_for(c, g, R, p)
    BY <1>4, <1>5, <1>6, <1>8, <1>9
  <2> QED
    BY <1>5, <1>7, <1>9, <2>1
<1>10. CASE g # h
  BY <1>4, <1>5, <1>6, <1>10
<1> QED
  BY <1>9, <1>10

LEMMA TurnKeepsTable ==
  ASSUME NEW c, IsSpec(c), NEW p, Shape(c, p), NEW n \in 1..M(c), NEW acc,
         AfterTurns(c, p, n - 1, acc)
  PROVE  AfterTurns(c, p, n, Assign(c, p, acc, c.devices[n]))
<1> DEFINE j == c.devices[n]
           stage == p[n]
           i == BestHost(c, p, stage, acc.reserved)
           new == Assign(c, p, acc, j)
<1>1. StageOf(p, j) = n /\ n # 0 /\ n \in Nat
  BY StageOfIs, SpecOrder
<1>2. CASE ~acc.ok
  <2>1. new = acc
    BY <1>2 DEF Assign
  <2> QED
    BY <1>2, <2>1 DEF AfterTurns
<1>3. CASE acc.ok /\ i = 0
  <2>1. new = [acc EXCEPT !.ok = FALSE]
    BY <1>1, <1>3 DEF Assign
  <2>2. new.ok = FALSE
    BY <2>1
  <2> HIDE DEF new
  <2> QED
    BY <2>2 DEF AfterTurns, new
<1>4. CASE acc.ok /\ i # 0
  <2> DEFINE h == c.devices[i]
             R == acc.R
             Q == new.R
             bytes == StageBytes(c, stage)
  <2>1. new = Assigned(acc, j, h, bytes)
    BY <1>1, <1>4, HostsAreDevices DEF Assign
  <2>2. /\ i \in 1..M(c) /\ h # j /\ RoomAt(c, p, n, acc.reserved, h) /\ Measured(c, h, j)
    BY <1>4, BestHostIsAble
  <2>3. h \in ToSet(c.devices) /\ j \in ToSet(c.devices) /\ bytes \in Nat
    BY <2>2, SpecOrder, ShapeBytes DEF IsSpec
  <2>4. /\ DOMAIN R = {c.devices[a] : a \in 1..(n - 1)}
        /\ \A d \in DOMAIN R : R[d] \in ToSet(c.devices) /\ R[d] # d /\ Measured(c, R[d], d)
        /\ DOMAIN acc.reserved = ToSet(c.devices)
        /\ \A g \in ToSet(c.devices) : acc.reserved[g] = backup_memory_for(c, g, R, p)
        /\ c.eager => \A d \in DOMAIN R :
             UsedBy(c, p, R[d]) + acc.reserved[R[d]] <= Budget(c, R[d])
    BY <1>4 DEF AfterTurns
  <2>5. new.ok = TRUE /\ Q = [d \in DOMAIN R \cup {j} |-> IF d = j THEN h ELSE R[d]]
        /\ new.reserved = [acc.reserved EXCEPT ![h] = @ + bytes]
    BY <2>1 DEF Assigned, Reserve
  <2>6. j \notin DOMAIN R
    <3>1. \A a \in 1..(n - 1) : a \in 1..M(c) /\ a # n
      BY <1>1, SpecOrder
    <3>2. \A a \in 1..(n - 1) : c.devices[a] # j
      BY <3>1, SpecOrder
    <3> QED
      BY <2>4, <3>2
  <2>7. DOMAIN Q = DOMAIN R \cup {j} /\ Q[j] = h /\ \A d \in DOMAIN R : Q[d] = R[d]
    BY <2>5, <2>6
  <2>8. DOMAIN Q = {c.devices[a] : a \in 1..n}
    <3>1. \A a \in 1..n : a = n \/ a \in 1..(n - 1)
      BY <1>1
    <3>2. n \in 1..n /\ \A a \in 1..(n - 1) : a \in 1..n
      BY <1>1
    <3> QED
      BY <2>4, <2>7, <3>1, <3>2
  <2> HIDE DEF new, R, Q, h, bytes, i
  <2>9. \A g : backup_memory_for(c, g, Q, p)
                 = IF g = h THEN backup_memory_for(c, g, R, p) + bytes
                   ELSE backup_memory_for(c, g, R, p)
    BY <2>6, <2>7, BackupAdded DEF bytes
  <2>10. \A g \in ToSet(c.devices) : new.reserved[g] = backup_memory_for(c, g, Q, p)
    BY <2>3, <2>4, <2>5, <2>9
  <2>11. DOMAIN new.reserved = ToSet(c.devices)
    BY <2>4, <2>5
  <2>12. \A d \in DOMAIN Q : Q[d] \in ToSet(c.devices) /\ Q[d] # d /\ Measured(c, Q[d], d)
    BY <2>2, <2>3, <2>4, <2>7 DEF h
  <2>13. ASSUME c.eager, NEW d \in DOMAIN Q
         PROVE  UsedBy(c, p, Q[d]) + new.reserved[Q[d]] <= Budget(c, Q[d])
    <3>1. CASE Q[d] = h
      <4>1. UsedBy(c, p, h) + acc.reserved[h] + bytes <= Budget(c, h)
        BY <2>2, <2>13 DEF RoomAt, bytes
      <4>2. new.reserved[h] = acc.reserved[h] + bytes
        BY <2>3, <2>4, <2>5
      <4>3. acc.reserved[h] \in Nat
        BY <2>3, <2>4, BackupIsNat
      <4>4. UsedBy(c, p, h) \in Nat
        BY <2>2, StageOfIs, ShapeBytes DEF h, IsSpec
      <4>5. Budget(c, h) \in Nat
        BY <2>3, BudgetIsNat
      <4> QED
        BY <2>3, <3>1, <4>1, <4>2, <4>3, <4>4, <4>5
    <3>2. CASE Q[d] # h
      <4>1. d \in DOMAIN R /\ Q[d] = R[d]
        BY <2>7, <3>2
      <4>2. new.reserved[R[d]] = acc.reserved[R[d]]
        BY <2>4, <2>5, <3>2, <4>1
      <4> QED
        BY <2>4, <2>13, <4>1, <4>2
    <3> QED
      BY <3>1, <3>2
  <2> QED
    BY <2>5, <2>8, <2>10, <2>11, <2>12, <2>13 DEF AfterTurns, Q, new
<1> QED
  BY <1>2, <1>3, <1>4 DEF AfterTurns

\* determine_recovery_table's function of the number of turns.
IsTurns(g, c, p, k) ==
  g = [n \in 0..k |-> IF n = 0 THEN NothingAssigned(c) ELSE Assign(c, p, g[n - 1], c.devices[n])]

LEMMA TurnsExist ==
  ASSUME NEW c, NEW p, NEW m \in Nat
  PROVE  \E g : IsTurns(g, c, p, m)
<1> DEFINE G == {k \in 0..m : \E g : IsTurns(g, c, p, k)}
<1>1. 0 \in G
  <2> DEFINE g == [n \in 0..0 |-> NothingAssigned(c)]
  <2>1. g = [n \in 0..0 |-> IF n = 0 THEN NothingAssigned(c)
                            ELSE Assign(c, p, g[n - 1], c.devices[n])]
    OBVIOUS
  <2> HIDE DEF g
  <2>2. IsTurns(g, c, p, 0)
    BY <2>1 DEF IsTurns
  <2> QED
    BY <2>2
<1>2. ASSUME NEW k \in 0..(m - 1), k \in G
      PROVE  k + 1 \in G
  <2>1. PICK g : IsTurns(g, c, p, k)
    BY <1>2
  <2> DEFINE h == [n \in 0..(k + 1) |-> IF n = k + 1 THEN Assign(c, p, g[k], c.devices[k + 1])
                                        ELSE g[n]]
             F(n) == IF n = 0 THEN NothingAssigned(c) ELSE Assign(c, p, h[n - 1], c.devices[n])
  <2>2. \A n \in 0..k : g[n] = IF n = 0 THEN NothingAssigned(c)
                               ELSE Assign(c, p, g[n - 1], c.devices[n])
    <3> DEFINE z == [n \in 0..k |-> IF n = 0 THEN NothingAssigned(c)
                                    ELSE Assign(c, p, g[n - 1], c.devices[n])]
    <3>1. g = z
      BY <2>1 DEF IsTurns
    <3>2. \A n \in 0..k : z[n] = IF n = 0 THEN NothingAssigned(c)
                                 ELSE Assign(c, p, g[n - 1], c.devices[n])
      OBVIOUS
    <3> QED
      BY <3>1, <3>2
  <2>3. ASSUME NEW n \in 0..(k + 1)
        PROVE  h[n] = F(n)
    <3>1. CASE n = k + 1
      <4>1. n # 0 /\ n - 1 = k /\ k \in 0..(k + 1) /\ k # k + 1
        BY <3>1
      <4>2. h[n] = Assign(c, p, g[k], c.devices[k + 1]) /\ h[k] = g[k]
        BY <3>1, <4>1
      <4> HIDE DEF h
      <4> QED
        BY <3>1, <4>1, <4>2
    <3>2. CASE n # k + 1
      <4>1. n \in 0..k /\ (n # 0 => n - 1 \in 0..(k + 1) /\ n - 1 # k + 1)
        BY <3>2
      <4>2. h[n] = g[n] /\ (n # 0 => h[n - 1] = g[n - 1])
        BY <3>2, <4>1
      <4> HIDE DEF h
      <4> QED
        BY <2>2, <4>1, <4>2
    <3> QED
      BY <3>1, <3>2
  <2>4. h = [n \in 0..(k + 1) |-> F(n)]
    BY <2>3
  <2> HIDE DEF h
  <2>5. IsTurns(h, c, p, k + 1)
    BY <2>4 DEF IsTurns
  <2>6. k + 1 \in 0..m
    OBVIOUS
  <2> QED
    BY <2>5, <2>6
<1> HIDE DEF G
<1>3. m \in 0..m /\ 0 \in Int /\ m \in Int
  OBVIOUS
<1>4. \A k \in 0..m : k \in G
  BY <1>1, <1>2, <1>3, UpTo
<1> QED
  BY <1>3, <1>4 DEF G

\* What a table promises for the placement it was made for.
TableFits(c, p, R) ==
  /\ DOMAIN R = ToSet(c.devices)
  /\ \A d \in DOMAIN R : /\ R[d] \in ToSet(c.devices) /\ R[d] # d /\ Measured(c, R[d], d)
  /\ c.eager => \A d \in DOMAIN R :
       UsedBy(c, p, R[d]) + backup_memory_for(c, R[d], R, p) <= Budget(c, R[d])

LEMMA TableIsFit ==
  ASSUME NEW c, IsSpec(c), NEW p, Shape(c, p), NEW t, t = determine_recovery_table(c, p)
  PROVE  /\ t.ok \in BOOLEAN
         /\ t.ok => TableFits(c, p, t.R)
         /\ ~t.ok => t = NoTable
<1> DEFINE m == M(c)
           after == CHOOSE g : IsTurns(g, c, p, m)
           G == {k \in 0..m : AfterTurns(c, p, k, after[k])}
           end == after[m]
<1>0. m \in Nat \ {0}
  BY SpecOrder
<1>1. IsTurns(after, c, p, m)
  BY <1>0, TurnsExist
<1>2. t = IF end.ok THEN [ok |-> TRUE, R |-> end.R] ELSE NoTable
  BY DEF determine_recovery_table, IsTurns
<1> HIDE DEF after
<1>3. \A n \in 0..m : after[n] = IF n = 0 THEN NothingAssigned(c)
                                 ELSE Assign(c, p, after[n - 1], c.devices[n])
  <2> DEFINE z == [n \in 0..m |-> IF n = 0 THEN NothingAssigned(c)
                                  ELSE Assign(c, p, after[n - 1], c.devices[n])]
  <2>1. after = z
    BY <1>1 DEF IsTurns
  <2>2. \A n \in 0..m : z[n] = IF n = 0 THEN NothingAssigned(c)
                               ELSE Assign(c, p, after[n - 1], c.devices[n])
    OBVIOUS
  <2> QED
    BY <2>1, <2>2
<1>4. 0 \in G
  <2>1. 0 \in 0..m
    BY <1>0
  <2>2. after[0] = NothingAssigned(c)
    BY <1>3, <2>1
  <2> QED
    BY <2>1, <2>2, NothingIsAfterNoTurn
<1>5. ASSUME NEW k \in 0..(m - 1), k \in G
      PROVE  k + 1 \in G
  <2>1. k + 1 \in 0..m /\ k + 1 \in 1..m /\ k + 1 # 0 /\ (k + 1) - 1 = k
    BY <1>0
  <2>2. after[k + 1] = Assign(c, p, after[k], c.devices[k + 1])
    BY <1>3, <2>1
  <2>3. AfterTurns(c, p, (k + 1) - 1, after[k])
    BY <1>5, <2>1
  <2>4. AfterTurns(c, p, k + 1, Assign(c, p, after[k], c.devices[k + 1]))
    BY <2>1, <2>3, TurnKeepsTable
  <2> QED
    BY <2>1, <2>2, <2>4
<1>6. m \in 0..m /\ 0 \in Int /\ m \in Int
  BY <1>0
<1> HIDE DEF G
<1>7. \A k \in 0..m : k \in G
  BY <1>4, <1>5, <1>6, UpTo
<1> HIDE DEF end
<1>8. AfterTurns(c, p, m, end)
  BY <1>6, <1>7 DEF G, end
<1>9. {c.devices[i] : i \in 1..m} = ToSet(c.devices)
  BY SpecOrder
<1>10. end.ok \in BOOLEAN
  BY <1>8 DEF AfterTurns
<1>11. CASE end.ok
  <2>1. t = [ok |-> TRUE, R |-> end.R]
    BY <1>2, <1>11
  <2>2. t.ok = TRUE /\ t.R = end.R
    BY <2>1
  <2>3. TableFits(c, p, end.R)
    <3> DEFINE R == end.R
    <3>1. /\ DOMAIN R = ToSet(c.devices)
          /\ \A d \in DOMAIN R : R[d] \in ToSet(c.devices) /\ R[d] # d /\ Measured(c, R[d], d)
          /\ \A h \in ToSet(c.devices) : end.reserved[h] = backup_memory_for(c, h, R, p)
          /\ c.eager => \A d \in DOMAIN R :
               UsedBy(c, p, R[d]) + end.reserved[R[d]] <= Budget(c, R[d])
      BY <1>8, <1>9, <1>11 DEF AfterTurns
    <3> HIDE DEF R
    <3>2. \A d \in DOMAIN R : end.reserved[R[d]] = backup_memory_for(c, R[d], R, p)
      BY <3>1
    <3> QED
      BY <3>1, <3>2 DEF TableFits, R
  <2> QED
    BY <2>2, <2>3
<1>12. CASE ~end.ok
  <2>1. t = NoTable
    BY <1>2, <1>12
  <2> QED
    BY <2>1 DEF NoTable
<1> QED
  BY <1>10, <1>11, <1>12

LEMMA TableForIsFit ==
  ASSUME NEW c, IsSpec(c), NEW p, Shape(c, p), NEW t, t = TableFor(c, p)
  PROVE  /\ t.ok \in BOOLEAN
         /\ t.ok /\ c.backups => TableFits(c, p, t.R)
         /\ ~c.backups => t.ok /\ t.R = << >>
         /\ ~t.ok => t = NoTable
<1>1. CASE c.backups
  <2>1. t = determine_recovery_table(c, p)
    BY <1>1 DEF TableFor
  <2> QED
    BY <1>1, <2>1, TableIsFit
<1>2. CASE ~c.backups
  <2>1. t = [ok |-> TRUE, R |-> << >>]
    BY <1>2 DEF TableFor
  <2> QED
    BY <1>2, <2>1
<1> QED
  BY <1>1, <1>2

-----------------------------------------------------------------------------
(* The uniform split is a cut.                                              *)

LEMMA UniformIsCut ==
  ASSUME NEW c, IsSpec(c), M(c) <= Layers(c)
  PROVE  \E e \in CutsTo(c, M(c), Layers(c)) : uniform_placement(c) = CutOf(c, e)
<1> DEFINE L == Layers(c)
           m == M(c)
           q == L \div m
           r == L % m
           up(n) == n * q + Min({n, r})
           e == [n \in 1..m |-> up(n)]
<1>0. L \in Nat /\ m \in Nat \ {0} /\ m <= L
  <2>1. Knobs(c)
    BY DEF IsSpec
  <2> QED
    BY <2>1, KnobTypes, SpecOrder
<1>1. uniform_placement(c) = CutOf(c, e)
  BY DEF uniform_placement, CutOf
<1>2. q \in Nat /\ r \in 0..(m - 1) /\ L = m * q + r
  <2> HIDE DEF L, m
  <2> QED
    BY <1>0, Division
<1> HIDE DEF q, r, L, m
<1>3. q # 0
  <2> SUFFICES ASSUME q = 0 PROVE FALSE
    OBVIOUS
  <2>1. m * q = 0
    BY <1>0
  <2> QED
    BY <1>0, <1>2, <2>1
<1>4. \A n \in Nat : up(n) = n * q + (IF n <= r THEN n ELSE r)
  BY <1>2, MinOfTwo
<1>5. \A n \in Nat : n * q \in Nat /\ (n + 1) * q = n * q + q
  BY <1>2, Multiples
<1> HIDE DEF up
<1>6. \A n \in Nat : up(n) \in Nat /\ up(n) < up(n + 1)
  <2> TAKE n \in Nat
  <2>1. n + 1 \in Nat
    OBVIOUS
  <2> DEFINE x == n * q
             y == (n + 1) * q
  <2>2. x \in Nat /\ y = x + q
    BY <1>5
  <2>3. up(n) = x + (IF n <= r THEN n ELSE r) /\ up(n + 1) = y + (IF n + 1 <= r THEN n + 1 ELSE r)
    BY <1>4, <2>1
  <2> HIDE DEF x, y
  <2> QED
    BY <1>2, <1>3, <2>2, <2>3
<1>7. up(m) = L
  <2>1. up(m) = m * q + (IF m <= r THEN m ELSE r)
    BY <1>0, <1>4
  <2> QED
    BY <1>0, <1>2, <2>1
<1>8. \A n \in 1..m : 1 <= up(n)
  <2> TAKE n \in 1..m
  <2>1. n - 1 \in Nat /\ (n - 1) + 1 = n
    BY <1>0
  <2>2. up(n - 1) \in Nat /\ up(n - 1) < up((n - 1) + 1)
    BY <1>6, <2>1
  <2>3. up(n - 1) < up(n)
    BY <2>1, <2>2
  <2>4. up(n) \in Nat
    BY <1>6
  <2> QED
    BY <2>2, <2>3, <2>4
<1>9. \A n \in 1..m : up(n) <= L
  <2> DEFINE G == {k \in 0..(m - 1) : up(m - k) <= L}
  <2>1. 0 \in G
    <3>1. m - 0 = m /\ 0 \in 0..(m - 1)
      BY <1>0
    <3> QED
      BY <1>0, <1>7, <3>1
  <2>2. ASSUME NEW k \in 0..((m - 1) - 1), k \in G
        PROVE  k + 1 \in G
    <3>1. m - (k + 1) \in Nat /\ (m - (k + 1)) + 1 = m - k /\ k + 1 \in 0..(m - 1) /\ m - k \in Nat
      BY <1>0
    <3>2. up(m - (k + 1)) \in Nat /\ up(m - (k + 1)) < up((m - (k + 1)) + 1) /\ up(m - k) \in Nat
      BY <1>6, <3>1
    <3>3. up(m - (k + 1)) < up(m - k) /\ up(m - k) <= L
      BY <2>2, <3>1, <3>2
    <3>4. up(m - (k + 1)) <= L
      BY <1>0, <3>2, <3>3
    <3> QED
      BY <3>1, <3>4
  <2> HIDE DEF G
  <2>3. 0 \in Int /\ m - 1 \in Int
    BY <1>0
  <2>4. \A k \in 0..(m - 1) : k \in G
    BY <2>1, <2>2, <2>3, UpTo
  <2> TAKE n \in 1..m
  <2>5. m - n \in 0..(m - 1) /\ m - (m - n) = n
    BY <1>0
  <2>6. up(m - (m - n)) <= L
    BY <2>4, <2>5 DEF G
  <2> QED
    BY <2>5, <2>6
<1>10. e \in [1..m -> 1..L] /\ e[m] = L
  <2>1. \A n \in 1..m : up(n) \in 1..L
    BY <1>0, <1>6, <1>8, <1>9
  <2>2. m \in 1..m
    BY <1>0
  <2> QED
    BY <1>7, <2>1, <2>2
<1>11. ASSUME NEW k \in 2..m
       PROVE  e[k - 1] < e[k]
  <2>1. k - 1 \in Nat /\ (k - 1) + 1 = k /\ k - 1 \in 1..m /\ k \in 1..m
    BY <1>0
  <2>2. up(k - 1) < up((k - 1) + 1)
    BY <1>6, <2>1
  <2>3. e[k - 1] = up(k - 1) /\ e[k] = up(k)
    BY <2>1
  <2> QED
    BY <2>1, <2>2, <2>3
<1> HIDE DEF e
<1>12. e \in CutsTo(c, m, L)
  BY <1>10, <1>11 DEF CutsTo, L
<1> QED
  BY <1>1, <1>12 DEF m, L

-----------------------------------------------------------------------------
(* The alternation over one candidate.                                      *)

IsTrue(v) == v = TRUE
IsFalse(v) == v = FALSE

\* A result has the sum of its stage times, unless it is a fallback.
Summed(c, x, e) == x.sum = CostSum(c, e) \/ (x.sum = 0 /\ IsFalse(x.converged) /\ c.backups)

\* A table for the devices of c: every one of them has a backup, or none has.
Backs(c, R) ==
  /\ c.backups => DOMAIN R = ToSet(c.devices)
  /\ ~c.backups => DOMAIN R = {}
  /\ \A d \in DOMAIN R : R[d] \in ToSet(c.devices) /\ Measured(c, R[d], d)

\* A result that answers a search: a cut that would be allowed without backups,
\* with what it costs, which fits with its backups; these are on the candidate's
\* own devices, over measured links.
Good(c, x) ==
  /\ \E e \in CutsTo(c, M(c), Layers(c)) :
       /\ x.placement = CutOf(c, e) /\ Summed(c, x, e) /\ x.max = CostMax(c, e)
       /\ Allowed(c, << >>, << >>, CutOf(c, e))
  /\ _memory_self_check(c, x.placement, x.recovery)
  /\ Backs(c, x.recovery)

\* As good as every cut that is allowed without backups.
Exact(c, x) ==
  \A e \in CutsTo(c, M(c), Layers(c)) :
    Allowed(c, << >>, << >>, CutOf(c, e)) => x.ok /\ _rank(c, x) <= CutRank(c, CutOf(c, e))

IsState(a) ==
  a = [psi |-> a.psi, r |-> a.r, best |-> a.best, iter |-> a.iter, ref |-> a.ref,
       cell |-> a.cell, over |-> a.over, answer |-> a.answer]

\* Without backups the first iteration has found what the others find again.
Settled(c, a) == a.r.ok /\ a.cell # Empty /\ a.psi = _backtrack(c, a.cell)

\* The state of solve_alternating.
Alternating(c, a) ==
  /\ IsState(a)
  /\ a.over \in BOOLEAN /\ a.iter \in 1..(max_iterations + 1)
  /\ ~a.over => a.iter <= max_iterations
  /\ Shape(c, a.psi)
  /\ a.r.ok \/ a.ref # << >> =>
       /\ Shape(c, a.ref) /\ a.r = TableFor(c, a.ref) /\ a.r.ok
       /\ a.cell = _forward(c, a.r.R, a.ref)
  /\ a.best.ok \in BOOLEAN
  /\ a.best.ok => Good(c, a.best)
  /\ IsFalse(a.best.converged)
  /\ a.iter = 1 => ~a.best.ok
  /\ ~c.backups /\ a.iter > 1 /\ ~a.over => Settled(c, a)
  /\ a.answer.ok \in BOOLEAN
  /\ a.answer.ok => Good(c, a.answer)
  /\ a.answer.converged \in BOOLEAN
  /\ a.answer.converged => a.answer.recovery = TableFor(c, a.answer.placement).R
  /\ ~c.backups /\ c.mode # "blended" =>
       /\ a.iter > 1 => Exact(c, a.best)
       /\ a.over => Exact(c, a.answer)

\* Without a table the reference placement is of no consequence.
LEMMA CheckAlone ==
  ASSUME NEW c, IsSpec(c), NEW p, Shape(c, p), NEW n \in 1..M(c), NEW ref
  PROVE  memory_check(c, p[n].device, p[n].start, p[n].end, << >>, ref)
           <=> StageBytes(c, p[n]) <= Budget(c, p[n].device)
<1>1. backup_memory_for(c, p[n].device, << >>, ref) = 0
  BY NoBackupMemory
<1>2. StageBytes(c, p[n]) \in Nat /\ StageBytes(c, p[n]) = Sum(c.mem, p[n].start, p[n].end)
  BY ShapeBytes DEF IsSpec, StageBytes
<1> QED
  BY <1>1, <1>2 DEF memory_check

LEMMA SelfCheckAlone ==
  ASSUME NEW c, IsSpec(c), NEW p, Shape(c, p), NEW R, _memory_self_check(c, p, R),
         NEW n \in 1..M(c)
  PROVE  /\ StageBytes(c, p[n]) <= Budget(c, p[n].device)
         /\ c.eager => StageBytes(c, p[n]) + backup_memory_for(c, p[n].device, R, p)
                         <= Budget(c, p[n].device)
<1> DEFINE d == p[n].device
           b == backup_memory_for(c, d, R, p)
           x == StageBytes(c, p[n])
<1>1. DOMAIN p = 1..M(c) /\ d \in ToSet(c.devices)
  BY SpecOrder DEF Shape
<1>2. b \in Nat /\ x \in Nat /\ Budget(c, d) \in Nat
  BY <1>1, BackupIsNat, ShapeBytes, BudgetIsNat DEF IsSpec
<1>3. x + (IF c.eager THEN b ELSE 0) <= Budget(c, d)
  BY <1>1 DEF _memory_self_check, memory_check, StageBytes
<1> HIDE DEF b, x, d
<1>4. x <= Budget(c, d) /\ (c.eager => x + b <= Budget(c, d))
  BY <1>2, <1>3
<1> QED
  BY <1>4 DEF b, x, d

LEMMA AllowedAlone ==
  ASSUME NEW c, IsSpec(c), NEW e \in CutsTo(c, M(c), Layers(c)), NEW R, NEW ref, NEW ref2,
         Allowed(c, R, ref, CutOf(c, e)),
         \/ R = << >>
         \/ \A n \in 1..M(c) :
              StageBytes(c, CutOf(c, e)[n]) <= Budget(c, CutOf(c, e)[n].device)
  PROVE  Allowed(c, << >>, ref2, CutOf(c, e))
<1> DEFINE p == CutOf(c, e)
<1>1. Shape(c, p) /\ DOMAIN p = 1..M(c)
  BY CutShape DEF Shape
<1> HIDE DEF p
<1>2. ASSUME NEW n \in 1..M(c)
      PROVE  memory_check(c, p[n].device, p[n].start, p[n].end, << >>, ref2)
  <2>1. StageBytes(c, p[n]) <= Budget(c, p[n].device)
    <3>1. CASE R = << >>
      <4>1. memory_check(c, p[n].device, p[n].start, p[n].end, << >>, ref)
        BY <1>1, <3>1 DEF Allowed, p
      <4> QED
        BY <1>1, <4>1, CheckAlone
    <3> QED
      BY <3>1 DEF p
  <2> QED
    BY <1>1, <2>1, CheckAlone
<1>3. \A n \in DOMAIN p : /\ n > 1 => Measured(c, p[n - 1].device, p[n].device)
                          /\ WithinCap(c, CutCost(c, p, n))
  BY DEF Allowed, p
<1> QED
  BY <1>1, <1>2, <1>3 DEF Allowed, p

\* What the alternation starts from.
LEMMA SeedShape ==
  ASSUME NEW c, IsSpec(c), M(c) <= Layers(c)
  PROVE  /\ Shape(c, uniform_placement(c)) /\ Shape(c, Seed(c))
         /\ ~c.backups => Seed(c) = uniform_placement(c)
<1> DEFINE u == uniform_placement(c)
           cell == _forward(c, << >>, u)
<1>1. Shape(c, u)
  BY UniformIsCut, CutShape
<1>2. cell # Empty => Shape(c, _backtrack(c, cell))
  BY ForwardIsBest, CutShape DEF Sound, _backtrack, CutOf
<1>3. Seed(c) = IF TableFor(c, u).ok \/ cell = Empty THEN u ELSE _backtrack(c, cell)
  BY DEF Seed, Repaired
<1>4. ~c.backups => TableFor(c, u).ok
  BY <1>1, TableForIsFit
<1> QED
  BY <1>1, <1>2, <1>3, <1>4

LEMMA StartAlternates ==
  ASSUME NEW c, IsSpec(c), M(c) <= Layers(c)
  PROVE  Alternating(c, Start(c)) /\ ~Start(c).over
<1> DEFINE a == Start(c)
<1>1. /\ a.psi = Seed(c) /\ a.r = NoTable /\ a.best = NotFound /\ a.iter = 1
      /\ a.ref = << >> /\ a.cell = Empty /\ a.over = FALSE /\ a.answer = NotFound
  BY DEF Start
<1>2. Shape(c, Seed(c))
  BY SeedShape
<1>3. NoTable.ok = FALSE /\ NotFound.ok = FALSE /\ NotFound.converged = FALSE
  BY DEF NoTable, NotFound
<1> HIDE DEF a
<1>4. ~(a.r.ok \/ a.ref # << >>) /\ a.best.ok = FALSE /\ IsFalse(a.best.converged)
      /\ a.answer.ok = FALSE /\ a.answer.converged = FALSE
  BY <1>1, <1>3 DEF IsFalse
<1>5. a.iter \in 1..(max_iterations + 1) /\ a.iter <= max_iterations /\ ~(a.iter > 1)
  BY <1>1 DEF max_iterations
<1>6. a.over = FALSE /\ Shape(c, a.psi)
  BY <1>1, <1>2
<1>8. IsState(a)
  BY DEF IsState, Start, a
<1>7. Alternating(c, a)
  BY <1>4, <1>5, <1>6, <1>8 DEF Alternating
<1> QED
  BY <1>6, <1>7 DEF a

LEMMA PlacedIsGood ==
  ASSUME NEW c, IsSpec(c), M(c) <= Layers(c), NEW R, NEW ref,
         NEW cell, cell = _forward(c, R, ref), cell # Empty,
         NEW x, x.placement = _backtrack(c, cell), x.recovery = R,
         x.sum = cell.sum, x.max = cell.max,
         _memory_self_check(c, x.placement, R), Backs(c, R)
  PROVE  Good(c, x)
<1> DEFINE e == cell.ends
<1>1. Sound(c, R, ref, M(c), Layers(c), cell)
  BY ForwardIsBest
<1>2. /\ e \in CutsTo(c, M(c), Layers(c)) /\ Allowed(c, R, ref, CutOf(c, e))
      /\ cell.sum = CostSum(c, e) /\ cell.max = CostMax(c, e)
  BY <1>1 DEF Sound
<1>3. x.placement = CutOf(c, e)
  BY DEF _backtrack, CutOf
<1> HIDE DEF e
<1>4. Shape(c, CutOf(c, e))
  BY <1>2, CutShape
<1>5. \A n \in 1..M(c) : StageBytes(c, CutOf(c, e)[n]) <= Budget(c, CutOf(c, e)[n].device)
  BY <1>3, <1>4, SelfCheckAlone
<1>6. Allowed(c, << >>, << >>, CutOf(c, e))
  BY <1>2, <1>5, AllowedAlone
<1>7. \E f \in CutsTo(c, M(c), Layers(c)) :
        /\ x.placement = CutOf(c, f) /\ Summed(c, x, f) /\ x.max = CostMax(c, f)
        /\ Allowed(c, << >>, << >>, CutOf(c, f))
  BY <1>2, <1>3, <1>6 DEF Summed
<1> QED
  BY <1>7 DEF Good

\* What _replace_history copies.
LEMMA CopiedFields ==
  ASSUME NEW y, NEW x, x = _replace_history(y)
  PROVE  /\ x.ok = y.ok /\ x.placement = y.placement /\ x.recovery = y.recovery
         /\ x.max = y.max /\ x.sum = 0 /\ IsFalse(x.converged)
  BY DEF _replace_history, IsFalse

\* The fallback is as good as the best result of the run, without its sum.
LEMMA FallBackIsGood ==
  ASSUME NEW c, c.backups, NEW y, Good(c, y), NEW x, x = _replace_history(y)
  PROVE  Good(c, x)
<1>1. /\ x.placement = y.placement /\ x.recovery = y.recovery
      /\ x.max = y.max /\ x.sum = 0 /\ IsFalse(x.converged)
  BY CopiedFields
<1>2. PICK e \in CutsTo(c, M(c), Layers(c)) :
        /\ y.placement = CutOf(c, e) /\ y.max = CostMax(c, e)
        /\ Allowed(c, << >>, << >>, CutOf(c, e))
  BY DEF Good
<1>3. Summed(c, x, e)
  BY <1>1 DEF Summed
<1>4. _memory_self_check(c, y.placement, y.recovery) /\ Backs(c, y.recovery)
  BY DEF Good
<1> QED
  BY <1>1, <1>2, <1>3, <1>4 DEF Good

LEMMA CellIsExact ==
  ASSUME NEW c, IsSpec(c), M(c) <= Layers(c), c.mode # "blended", NEW ref,
         NEW cell, cell = _forward(c, << >>, ref),
         NEW e \in CutsTo(c, M(c), Layers(c)), NEW ref2,
         Allowed(c, << >>, ref2, CutOf(c, e))
  PROVE  cell # Empty /\ _rank(c, cell) <= CutRank(c, CutOf(c, e))
<1>1. Allowed(c, << >>, ref, CutOf(c, e))
  BY AllowedAlone
<1>2. Cheapest(c, << >>, ref, M(c), Layers(c), cell)
  BY ForwardIsBest
<1> QED
  BY <1>1, <1>2 DEF Cheapest

LEMMA GoodCosts ==
  ASSUME NEW c, IsSpec(c), NEW x, Good(c, x)
  PROVE  /\ Shape(c, x.placement) /\ x.sum \in Nat /\ x.max \in Nat /\ _rank(c, x) \in Nat
<1>1. PICK e \in CutsTo(c, M(c), Layers(c)) :
        /\ x.placement = CutOf(c, e) /\ Summed(c, x, e) /\ x.max = CostMax(c, e)
        /\ Allowed(c, << >>, << >>, CutOf(c, e))
  BY DEF Good
<1>2. M(c) \in Nat \ {0} /\ M(c) <= M(c)
  BY SpecOrder
<1>3. CostSum(c, e) \in Nat /\ CostMax(c, e) \in Nat
  BY <1>1, <1>2, CostsAreNat
<1>4. Knobs(c)
  BY DEF IsSpec
<1>5. x.sum \in Nat /\ x.max \in Nat
  BY <1>1, <1>3 DEF Summed
<1> QED
  BY <1>1, <1>4, <1>5, CutShape, RankIsNat

Tried(a, table, cell) ==
  [a EXCEPT !.r = table, !.ref = a.psi, !.cell = cell, !.iter = @ + 1]
Moved(a, psi, top) == [a EXCEPT !.psi = psi, !.best = top]

LEMMA FinishFields ==
  ASSUME NEW x, IsState(x), NEW y, NEW z, z = Finish(x, y)
  PROVE  /\ IsState(z) /\ IsTrue(z.over) /\ z.answer = y /\ z.r = x.r /\ z.ref = x.ref
         /\ z.cell = x.cell /\ z.iter = x.iter /\ z.psi = x.psi /\ z.best = x.best
<1>1. DOMAIN x = {"psi", "r", "best", "iter", "ref", "cell", "over", "answer"}
  BY DEF IsState
<1>2. /\ DOMAIN z = DOMAIN x /\ IsTrue(z.over) /\ z.answer = y /\ z.r = x.r /\ z.ref = x.ref
      /\ z.cell = x.cell /\ z.iter = x.iter /\ z.psi = x.psi /\ z.best = x.best
  BY <1>1 DEF Finish, IsTrue
<1>3. z = [i \in DOMAIN z |-> z[i]]
  BY DEF Finish
<1>4. IsState(z)
  BY <1>1, <1>2, <1>3 DEF IsState
<1> QED
  BY <1>2, <1>4

LEMMA TriedFields ==
  ASSUME NEW a, IsState(a), NEW table, NEW cell, NEW z, z = Tried(a, table, cell)
  PROVE  /\ IsState(z) /\ z.r = table /\ z.ref = a.psi /\ z.cell = cell
         /\ z.iter = a.iter + 1 /\ z.psi = a.psi /\ z.best = a.best
         /\ z.over = a.over /\ z.answer = a.answer
<1>1. DOMAIN a = {"psi", "r", "best", "iter", "ref", "cell", "over", "answer"}
  BY DEF IsState
<1>2. /\ DOMAIN z = DOMAIN a /\ z.r = table /\ z.ref = a.psi /\ z.cell = cell
      /\ z.iter = a.iter + 1 /\ z.psi = a.psi /\ z.best = a.best
      /\ z.over = a.over /\ z.answer = a.answer
  BY <1>1 DEF Tried
<1>3. z = [i \in DOMAIN z |-> z[i]]
  BY DEF Tried
<1>4. IsState(z)
  BY <1>1, <1>2, <1>3 DEF IsState
<1> QED
  BY <1>2, <1>4

LEMMA MovedFields ==
  ASSUME NEW a, IsState(a), NEW psi, NEW top, NEW z, z = Moved(a, psi, top)
  PROVE  /\ IsState(z) /\ z.r = a.r /\ z.ref = a.ref /\ z.cell = a.cell
         /\ z.iter = a.iter /\ z.psi = psi /\ z.best = top
         /\ z.over = a.over /\ z.answer = a.answer
<1>1. DOMAIN a = {"psi", "r", "best", "iter", "ref", "cell", "over", "answer"}
  BY DEF IsState
<1>2. /\ DOMAIN z = DOMAIN a /\ z.r = a.r /\ z.ref = a.ref /\ z.cell = a.cell
      /\ z.iter = a.iter /\ z.psi = psi /\ z.best = top
      /\ z.over = a.over /\ z.answer = a.answer
  BY <1>1 DEF Moved
<1>3. z = [i \in DOMAIN z |-> z[i]]
  BY DEF Moved
<1>4. IsState(z)
  BY <1>1, <1>2, <1>3 DEF IsState
<1> QED
  BY <1>2, <1>4

\* What Placing leaves in the state, field by field.
LEMMA PlacingFields ==
  ASSUME NEW c, NEW a, IsState(a), NEW table, NEW cell, NEW psi, psi = _backtrack(c, cell),
         NEW fits, fits = _memory_self_check(c, psi, table.R),
         NEW new, new = Placing(c, a, table, cell)
  PROVE  /\ IsState(new)
         /\ new.iter = a.iter + 1 /\ new.r = table /\ new.ref = a.psi /\ new.cell = cell
         /\ cell = Empty =>
              /\ IsTrue(new.over) /\ new.answer = _replace_history(a.best)
              /\ new.psi = a.psi /\ new.best = a.best
         /\ cell # Empty =>
              /\ new.psi = psi
              /\ \/ new.best = a.best
                    /\ ~(fits /\ (~a.best.ok \/ _rank(c, cell) < _rank(c, a.best)))
                 \/ /\ fits
                    /\ IsTrue(new.best.ok) /\ new.best.placement = psi
                    /\ new.best.recovery = table.R /\ IsFalse(new.best.converged)
                    /\ new.best.sum = cell.sum /\ new.best.max = cell.max
              /\ \/ /\ table = a.r /\ psi = a.psi /\ fits
                    /\ IsTrue(new.over) /\ IsTrue(new.answer.ok) /\ new.answer.placement = psi
                    /\ new.answer.recovery = table.R /\ IsTrue(new.answer.converged)
                    /\ new.answer.sum = cell.sum /\ new.answer.max = cell.max
                 \/ /\ ~(table = a.r /\ psi = a.psi /\ fits) /\ a.iter = max_iterations
                    /\ IsTrue(new.over) /\ new.answer = _replace_history(new.best)
                 \/ /\ a.iter # max_iterations
                    /\ new.over = a.over /\ new.answer = a.answer
<1> DEFINE conv == table = a.r /\ psi = a.psi /\ fits
           found == [ok |-> TRUE, placement |-> psi, recovery |-> table.R,
                     sum |-> cell.sum, max |-> cell.max, converged |-> conv]
           better == fits /\ (~a.best.ok \/ _rank(c, cell) < _rank(c, a.best))
           best1 == IF better THEN [found EXCEPT !.converged = FALSE] ELSE a.best
           tried == Tried(a, table, cell)
           next == Moved(tried, psi, best1)
<1>1. /\ IsState(tried) /\ tried.r = table /\ tried.ref = a.psi /\ tried.cell = cell
      /\ tried.iter = a.iter + 1 /\ tried.psi = a.psi /\ tried.best = a.best
      /\ tried.over = a.over /\ tried.answer = a.answer
  BY TriedFields
<1>2. /\ IsTrue(found.ok) /\ found.placement = psi /\ found.recovery = table.R
      /\ found.sum = cell.sum /\ found.max = cell.max /\ (found.converged <=> conv)
      /\ (conv => IsTrue(found.converged))
  BY DEF IsTrue
<1>3. \/ best1 = a.best /\ ~better
      \/ /\ better
         /\ IsTrue(best1.ok) /\ best1.placement = psi /\ best1.recovery = table.R
         /\ IsFalse(best1.converged) /\ best1.sum = cell.sum /\ best1.max = cell.max
  <2>1. CASE better
    BY <2>1 DEF IsTrue, IsFalse
  <2>2. CASE ~better
    BY <2>2
  <2> QED
    BY <2>1, <2>2
<1>4. new = IF cell = Empty THEN Finish(tried, _replace_history(a.best))
            ELSE IF found.converged THEN Finish(next, found)
            ELSE IF a.iter = max_iterations THEN Finish(next, _replace_history(best1))
            ELSE next
  BY DEF Placing, Stable, Tried, Moved, FallBack
<1> HIDE DEF found, best1, tried
<1>5. /\ IsState(next) /\ next.r = table /\ next.ref = a.psi /\ next.cell = cell
      /\ next.iter = a.iter + 1 /\ next.psi = psi /\ next.best = best1
      /\ next.over = a.over /\ next.answer = a.answer
  <2> DEFINE b == best1
  <2> HIDE DEF b
  <2>1. b = best1
    BY DEF b
  <2>2. next = Moved(tried, psi, b)
    BY <2>1
  <2> HIDE DEF next
  <2>3. /\ IsState(next) /\ next.r = tried.r /\ next.ref = tried.ref
        /\ next.cell = tried.cell /\ next.iter = tried.iter /\ next.psi = psi
        /\ next.best = b /\ next.over = tried.over /\ next.answer = tried.answer
    BY <1>1, <2>2, MovedFields
  <2> QED
    BY <1>1, <2>1, <2>3
<1> HIDE DEF next
<1>7. CASE cell = Empty
  <2>1. new = Finish(tried, _replace_history(a.best))
    BY <1>4, <1>7
  <2> DEFINE d == _replace_history(a.best)
  <2> HIDE DEF d
  <2>3. new = Finish(tried, d) /\ IsState(tried)
    BY <1>1, <2>1 DEF d
  <2>4. /\ IsState(new) /\ IsTrue(new.over) /\ new.answer = d /\ new.r = tried.r
        /\ new.ref = tried.ref /\ new.cell = tried.cell /\ new.iter = tried.iter
        /\ new.psi = tried.psi /\ new.best = tried.best
    BY ONLY <2>3, FinishFields
  <2>2. /\ IsState(new) /\ IsTrue(new.over) /\ new.answer = _replace_history(a.best)
        /\ new.r = tried.r
        /\ new.ref = tried.ref /\ new.cell = tried.cell /\ new.iter = tried.iter
        /\ new.psi = tried.psi /\ new.best = tried.best
    BY <2>4 DEF d
  <2> QED
    BY <1>1, <1>7, <2>2
<1>8. CASE cell # Empty /\ found.converged
  <2>1. new = Finish(next, found)
    BY <1>4, <1>8
  <2>2. /\ IsState(new) /\ IsTrue(new.over) /\ new.answer = found /\ new.r = next.r
        /\ new.ref = next.ref /\ new.cell = next.cell /\ new.iter = next.iter
        /\ new.psi = next.psi /\ new.best = next.best
    BY <1>5, <2>1, FinishFields
  <2>3. new.best = best1 /\ new.psi = psi
    BY <1>5, <2>2
  <2>4. /\ table = a.r /\ psi = a.psi /\ fits
        /\ IsTrue(new.over) /\ IsTrue(new.answer.ok) /\ new.answer.placement = psi
        /\ new.answer.recovery = table.R /\ IsTrue(new.answer.converged)
        /\ new.answer.sum = cell.sum /\ new.answer.max = cell.max
    BY <1>2, <1>8, <2>2
  <2>5. IsState(new) /\ new.iter = a.iter + 1 /\ new.r = table /\ new.ref = a.psi /\ new.cell = cell
    BY <1>5, <2>2 
  <2> QED
    BY <1>3, <1>8, <2>3, <2>4, <2>5
<1>9. CASE cell # Empty /\ ~found.converged /\ a.iter = max_iterations
  <2>1. new = Finish(next, _replace_history(best1))
    BY <1>4, <1>9
  <2>2. /\ IsState(new) /\ IsTrue(new.over) /\ new.answer = _replace_history(best1)
        /\ new.r = next.r /\ new.ref = next.ref /\ new.cell = next.cell
        /\ new.iter = next.iter /\ new.psi = next.psi /\ new.best = next.best
    BY <1>5, <2>1, FinishFields
  <2>3. new.best = best1 /\ new.psi = psi
    BY <1>5, <2>2
  <2>4. IsTrue(new.over) /\ new.answer = _replace_history(new.best) /\ ~conv
    BY <1>2, <1>9, <2>2, <2>3
  <2>5. IsState(new) /\ new.iter = a.iter + 1 /\ new.r = table /\ new.ref = a.psi /\ new.cell = cell
    BY <1>5, <2>2 
  <2> QED
    BY <1>3, <1>9, <2>3, <2>4, <2>5
<1>10. CASE cell # Empty /\ ~found.converged /\ a.iter # max_iterations
  <2>1. new = next
    BY <1>4, <1>10
  <2>5. IsState(new) /\ new.iter = a.iter + 1 /\ new.r = table /\ new.ref = a.psi /\ new.cell = cell
    BY <1>5, <2>1 
  <2>6. new.best = best1 /\ new.psi = psi /\ new.over = a.over /\ new.answer = a.answer
    BY <1>5, <2>1
  <2> QED
    BY <1>3, <1>10, <2>5, <2>6
<1> QED
  BY <1>7, <1>8, <1>9, <1>10

LEMMA CutRankIsNat ==
  ASSUME NEW c, IsSpec(c), NEW e \in CutsTo(c, M(c), Layers(c)), NEW R, NEW ref,
         Allowed(c, R, ref, CutOf(c, e))
  PROVE  CutRank(c, CutOf(c, e)) \in Nat
<1>1. M(c) \in Nat \ {0} /\ M(c) <= M(c)
  BY SpecOrder
<1>2. CostSum(c, e) \in Nat /\ CostMax(c, e) \in Nat
  BY <1>1, CostsAreNat
<1> QED
  BY <1>2 DEF CutRank, CostSum, CostMax

\* Without backups what the DP places fits as it is.
LEMMA PlacedFits ==
  ASSUME NEW c, IsSpec(c), M(c) <= Layers(c), NEW ref,
         NEW cell, cell = _forward(c, << >>, ref), cell # Empty,
         NEW psi, psi = _backtrack(c, cell)
  PROVE  _memory_self_check(c, psi, << >>)
<1> DEFINE e == cell.ends
<1>1. Sound(c, << >>, ref, M(c), Layers(c), cell)
  BY ForwardIsBest
<1>2. e \in CutsTo(c, M(c), Layers(c)) /\ Allowed(c, << >>, ref, CutOf(c, e))
  BY <1>1 DEF Sound
<1>3. psi = CutOf(c, e)
  BY DEF _backtrack, CutOf
<1> HIDE DEF e
<1>4. Shape(c, psi)
  BY <1>2, <1>3, CutShape
<1>5. DOMAIN psi = 1..M(c)
  BY <1>4 DEF Shape
<1>6. ASSUME NEW n \in 1..M(c)
      PROVE  memory_check(c, psi[n].device, psi[n].start, psi[n].end, << >>, psi)
  <2>1. memory_check(c, psi[n].device, psi[n].start, psi[n].end, << >>, ref)
    BY <1>2, <1>3, <1>5 DEF Allowed
  <2> QED
    BY <1>4, <2>1, CheckAlone
<1> QED
  BY <1>5, <1>6 DEF _memory_self_check

LEMMA CellCosts ==
  ASSUME NEW c, IsSpec(c), M(c) <= Layers(c), NEW R, NEW ref,
         NEW cell, cell = _forward(c, R, ref), cell # Empty
  PROVE  Shape(c, _backtrack(c, cell)) /\ _rank(c, cell) \in Nat
<1> DEFINE e == cell.ends
<1>1. Sound(c, R, ref, M(c), Layers(c), cell)
  BY ForwardIsBest
<1>2. /\ e \in CutsTo(c, M(c), Layers(c)) /\ cell.sum = CostSum(c, e) /\ cell.max = CostMax(c, e)
      /\ Allowed(c, R, ref, CutOf(c, e))
  BY <1>1 DEF Sound
<1>3. _backtrack(c, cell) = CutOf(c, e)
  BY DEF _backtrack, CutOf
<1> HIDE DEF e
<1>4. M(c) \in Nat \ {0} /\ M(c) <= M(c)
  BY SpecOrder
<1>5. cell.sum \in Nat /\ cell.max \in Nat
  BY <1>2, <1>4, CostsAreNat
<1>6. Knobs(c)
  BY DEF IsSpec
<1> QED
  BY <1>2, <1>3, <1>5, <1>6, CutShape, RankIsNat

LEMMA SameRank ==
  ASSUME NEW c, NEW x, NEW y, x.sum = y.sum, x.max = y.max
  PROVE  _rank(c, x) = _rank(c, y)
  BY DEF _rank

\* Every turn of the loop keeps the alternation what it is.
LEMMA IterateAlternates ==
  ASSUME NEW c, IsSpec(c), M(c) <= Layers(c), NEW a, Alternating(c, a), ~a.over,
         NEW z, z = Iterate(c, a)
  PROVE  Alternating(c, z)
<1> DEFINE table == TableFor(c, a.psi)
           cell == _forward(c, table.R, a.psi)
           psi == _backtrack(c, cell)
           fits == _memory_self_check(c, psi, table.R)
<1>1. z = IF ~table.ok THEN Finish(a, _replace_history(a.best))
          ELSE Placing(c, a, table, cell)
  BY DEF Iterate, Turn, FallBack
<1>2. /\ IsState(a) /\ a.iter \in 1..(max_iterations + 1) /\ a.iter <= max_iterations
      /\ Shape(c, a.psi) /\ a.over \in BOOLEAN
      /\ a.best.ok \in BOOLEAN /\ (a.best.ok => Good(c, a.best)) /\ IsFalse(a.best.converged)
      /\ (a.iter = 1 => ~a.best.ok)
      /\ a.answer.ok \in BOOLEAN /\ (a.answer.ok => Good(c, a.answer))
      /\ a.answer.converged \in BOOLEAN
      /\ (a.answer.converged => a.answer.recovery = TableFor(c, a.answer.placement).R)
  BY DEF Alternating
<1>3. /\ table.ok \in BOOLEAN
      /\ table.ok /\ c.backups => TableFits(c, a.psi, table.R)
      /\ ~c.backups => table.ok /\ table.R = << >>
  BY <1>2, TableForIsFit
<1>4. table = TableFor(c, a.psi) /\ cell = _forward(c, table.R, a.psi) /\ psi = _backtrack(c, cell)
      /\ fits = _memory_self_check(c, psi, table.R)
  OBVIOUS
<1> HIDE DEF table, cell, psi, fits
<1>5. CASE ~table.ok
  <2> DEFINE d == _replace_history(a.best)
  <2>1. d = _replace_history(a.best)
    OBVIOUS
  <2> HIDE DEF d
  <2>2. z = Finish(a, d) /\ c.backups
    BY <1>1, <1>3, <1>5, <2>1
  <2>3. /\ IsState(z) /\ IsTrue(z.over) /\ z.answer = d /\ z.r = a.r /\ z.ref = a.ref
        /\ z.cell = a.cell /\ z.iter = a.iter /\ z.psi = a.psi /\ z.best = a.best
    BY <1>2, <2>2, FinishFields
  <2>4. z.over \in BOOLEAN /\ z.over
    BY <2>3 DEF IsTrue
  <2>5. /\ z.answer.ok \in BOOLEAN /\ (z.answer.ok => Good(c, z.answer))
        /\ z.answer.converged \in BOOLEAN /\ ~z.answer.converged
    <3>1. d.ok = a.best.ok /\ IsFalse(d.converged)
      BY <2>1, CopiedFields
    <3>2. d.ok => Good(c, d)
      BY <1>2, <2>1, <2>2, <3>1, FallBackIsGood
    <3> QED
      BY <1>2, <2>3, <3>1, <3>2 DEF IsFalse
  <2>6. z.r.ok \/ z.ref # << >> =>
          /\ Shape(c, z.ref) /\ z.r = TableFor(c, z.ref) /\ z.r.ok
          /\ z.cell = _forward(c, z.r.R, z.ref)
    BY <2>3 DEF Alternating
  <2> QED
    BY <1>2, <2>2, <2>3, <2>4, <2>5, <2>6 DEF Alternating
<1>6. CASE table.ok
  <2>1. z = Placing(c, a, table, cell)
    BY <1>1, <1>6
  <2>2. /\ IsState(z)
        /\ z.iter = a.iter + 1 /\ z.r = table /\ z.ref = a.psi /\ z.cell = cell
        /\ cell = Empty =>
             /\ IsTrue(z.over) /\ z.answer = _replace_history(a.best)
             /\ z.psi = a.psi /\ z.best = a.best
        /\ cell # Empty =>
             /\ z.psi = psi
             /\ \/ z.best = a.best
                   /\ ~(fits /\ (~a.best.ok \/ _rank(c, cell) < _rank(c, a.best)))
                \/ /\ fits
                   /\ IsTrue(z.best.ok) /\ z.best.placement = psi
                   /\ z.best.recovery = table.R /\ IsFalse(z.best.converged)
                   /\ z.best.sum = cell.sum /\ z.best.max = cell.max
             /\ \/ /\ table = a.r /\ psi = a.psi /\ fits
                   /\ IsTrue(z.over) /\ IsTrue(z.answer.ok) /\ z.answer.placement = psi
                   /\ z.answer.recovery = table.R /\ IsTrue(z.answer.converged)
                   /\ z.answer.sum = cell.sum /\ z.answer.max = cell.max
                \/ /\ ~(table = a.r /\ psi = a.psi /\ fits) /\ a.iter = max_iterations
                   /\ IsTrue(z.over) /\ z.answer = _replace_history(z.best)
                \/ /\ a.iter # max_iterations
                   /\ z.over = a.over /\ z.answer = a.answer
    BY <1>2, <1>4, <2>1, PlacingFields
  <2>3. Backs(c, table.R)
    <3>1. CASE c.backups
      BY <1>3, <1>6, <3>1 DEF TableFits, Backs
    <3>2. CASE ~c.backups
      BY <1>3, <3>2 DEF Backs
    <3> QED
      BY <3>1, <3>2
  <2>12. ASSUME ~c.backups
         PROVE  /\ cell = Empty => ~a.best.ok
                /\ cell # Empty /\ a.iter = max_iterations => table = a.r /\ psi = a.psi /\ fits
    <3>1. table = [ok |-> TRUE, R |-> << >>] /\ cell = _forward(c, << >>, a.psi)
      BY <1>3, <1>4, <2>12 DEF TableFor
    <3>2. cell # Empty => fits
      BY <1>3, <1>4, <2>12, PlacedFits
    <3>3. CASE a.iter = 1
      BY <1>2, <3>3 DEF max_iterations
    <3>4. CASE a.iter # 1
      <4>1. a.iter > 1
        BY <1>2, <3>4
      <4>2. a.r.ok /\ a.cell # Empty /\ a.psi = _backtrack(c, a.cell)
        BY <2>12, <4>1 DEF Alternating, Settled
      <4>3. a.r = TableFor(c, a.ref) /\ a.cell = _forward(c, a.r.R, a.ref)
        BY <4>2 DEF Alternating
      <4>4. a.r = [ok |-> TRUE, R |-> << >>]
        BY <2>12, <4>3 DEF TableFor
      <4>5. a.r.R = << >>
        BY <4>4
      <4>6. a.cell = cell
        BY <3>1, <4>3, <4>5, ForwardAlone
      <4> QED
        BY <1>4, <3>1, <3>2, <4>2, <4>4, <4>6
    <3> QED
      BY <3>3, <3>4
  <2>4. cell # Empty => Shape(c, psi) /\ _rank(c, cell) \in Nat
    BY <1>4, CellCosts
  <2>5. ASSUME NEW x, cell # Empty, fits, x.placement = psi, x.recovery = table.R,
               x.sum = cell.sum, x.max = cell.max
        PROVE  Good(c, x)
    <3> DEFINE R == table.R
    <3>1. /\ cell = _forward(c, R, a.psi) /\ x.placement = _backtrack(c, cell) /\ x.recovery = R
          /\ _memory_self_check(c, x.placement, R) /\ Backs(c, R)
      BY <1>4, <2>3, <2>5
    <3> HIDE DEF R
    <3> QED
      BY <2>5, <3>1, PlacedIsGood
  <2>6. z.best.ok \in BOOLEAN /\ (z.best.ok => Good(c, z.best)) /\ IsFalse(z.best.converged)
    <3>1. CASE z.best = a.best
      BY <1>2, <3>1
    <3>2. CASE z.best # a.best
      <4>1. cell # Empty /\ fits /\ IsTrue(z.best.ok) /\ z.best.placement = psi
            /\ z.best.recovery = table.R /\ IsFalse(z.best.converged)
            /\ z.best.sum = cell.sum /\ z.best.max = cell.max
        BY <2>2, <3>2
      <4>2. Good(c, z.best)
        BY <2>5, <4>1
      <4> QED
        BY <4>1, <4>2 DEF IsTrue
    <3> QED
      BY <3>1, <3>2
  <2>7. /\ z.answer.ok \in BOOLEAN /\ (z.answer.ok => Good(c, z.answer))
        /\ z.answer.converged \in BOOLEAN
        /\ (z.answer.converged => z.answer.recovery = TableFor(c, z.answer.placement).R)
        /\ z.over \in BOOLEAN
    <3>1. CASE \/ cell = Empty
               \/ /\ cell # Empty /\ ~(table = a.r /\ psi = a.psi /\ fits)
                  /\ a.iter = max_iterations
                  /\ IsTrue(z.over) /\ z.answer = _replace_history(z.best)
      <4>0. IsTrue(z.over) /\ z.answer = _replace_history(z.best)
        BY <2>2, <3>1
      <4>1. z.answer.ok = z.best.ok /\ IsFalse(z.answer.converged)
        BY <4>0, CopiedFields
      <4>2. z.answer.ok => c.backups
        BY <2>2, <2>12, <3>1, <4>1
      <4>3. z.answer.ok => Good(c, z.answer)
        BY <2>6, <4>0, <4>1, <4>2, FallBackIsGood
      <4> QED
        BY <2>6, <4>0, <4>1, <4>3 DEF IsTrue, IsFalse
    <3>2. CASE cell # Empty /\ IsTrue(z.over) /\ table = a.r /\ psi = a.psi /\ fits
               /\ IsTrue(z.answer.ok) /\ z.answer.placement = psi
               /\ z.answer.recovery = table.R /\ IsTrue(z.answer.converged)
               /\ z.answer.sum = cell.sum /\ z.answer.max = cell.max
      <4>1. Good(c, z.answer)
        BY <2>5, <3>2
      <4>2. z.answer.recovery = TableFor(c, z.answer.placement).R
        BY <1>4, <3>2
      <4> QED
        BY <3>2, <4>1, <4>2 DEF IsTrue
    <3>3. CASE z.over = a.over /\ z.answer = a.answer
      BY <1>2, <3>3
    <3> QED
      BY <2>2, <3>1, <3>2, <3>3
  <2>8. ASSUME ~c.backups, c.mode # "blended"
        PROVE  Exact(c, z.best) /\ (z.over => Exact(c, z.answer))
    <3>1. table.R = << >> /\ cell = _forward(c, << >>, a.psi)
      BY <1>3, <1>4, <2>8
    <3>2. ASSUME NEW x, cell # Empty => x.ok /\ _rank(c, x) \in Nat /\ _rank(c, x) <= _rank(c, cell)
          PROVE  Exact(c, x)
      <4> SUFFICES ASSUME NEW e \in CutsTo(c, M(c), Layers(c)),
                          Allowed(c, << >>, << >>, CutOf(c, e))
                   PROVE  x.ok /\ _rank(c, x) <= CutRank(c, CutOf(c, e))
        BY DEF Exact
      <4>1. cell # Empty /\ _rank(c, cell) <= CutRank(c, CutOf(c, e))
        BY <2>8, <3>1, CellIsExact
      <4>2. CutRank(c, CutOf(c, e)) \in Nat
        BY <2>8, CutRankIsNat
      <4>3. x.ok /\ _rank(c, x) \in Nat /\ _rank(c, x) <= _rank(c, cell) /\ _rank(c, cell) \in Nat
        BY <2>4, <3>2, <4>1
      <4> DEFINE u == _rank(c, x)
                 v == _rank(c, cell)
                 w == CutRank(c, CutOf(c, e))
      <4>4. u \in Nat /\ v \in Nat /\ w \in Nat /\ u <= v /\ v <= w
        BY <4>1, <4>2, <4>3
      <4> HIDE DEF u, v, w
      <4>5. u <= w
        BY <4>4
      <4> QED
        BY <4>3, <4>5 DEF u, w
    <3>3. cell # Empty => fits
      BY <1>4, <3>1, PlacedFits
    <3>4. ASSUME NEW x, IsTrue(x.ok), x.sum = cell.sum, x.max = cell.max
          PROVE  Exact(c, x)
      <4>1. _rank(c, x) = _rank(c, cell)
        BY <3>4, SameRank
      <4>2. cell # Empty => x.ok /\ _rank(c, x) \in Nat /\ _rank(c, x) <= _rank(c, cell)
        BY <2>4, <3>4, <4>1 DEF IsTrue
      <4> QED
        BY <3>2, <4>2
    <3>5. Exact(c, z.best)
      <4>1. CASE cell = Empty
        BY <3>2, <4>1
      <4>2. CASE cell # Empty /\ z.best = a.best
                 /\ ~(fits /\ (~a.best.ok \/ _rank(c, cell) < _rank(c, a.best)))
        <5>1. a.best.ok /\ ~(_rank(c, cell) < _rank(c, a.best))
          BY <3>3, <4>2
        <5>2. _rank(c, a.best) \in Nat
          BY <1>2, <5>1, GoodCosts
        <5> DEFINE u == _rank(c, a.best)
                   v == _rank(c, cell)
        <5>3. u \in Nat /\ v \in Nat /\ ~(v < u)
          BY <2>4, <4>2, <5>1, <5>2
        <5> HIDE DEF u, v
        <5>4. u <= v
          BY <5>3
        <5>5. cell # Empty => z.best.ok /\ _rank(c, z.best) \in Nat /\ _rank(c, z.best) <= _rank(c, cell)
          BY <4>2, <5>1, <5>3, <5>4 DEF u, v
        <5> QED
          BY <3>2, <5>5
      <4>3. CASE IsTrue(z.best.ok) /\ z.best.sum = cell.sum /\ z.best.max = cell.max
        BY <3>4, <4>3
      <4> QED
        BY <2>2, <4>1, <4>2, <4>3
    <3>6. ASSUME z.over
          PROVE  Exact(c, z.answer)
      <4>1. CASE cell = Empty
        BY <3>2, <4>1
      <4>2. CASE IsTrue(z.answer.ok) /\ z.answer.sum = cell.sum /\ z.answer.max = cell.max
        BY <3>4, <4>2
      <4>3. CASE /\ cell # Empty /\ ~(table = a.r /\ psi = a.psi /\ fits)
                 /\ a.iter = max_iterations
        BY <2>8, <2>12, <4>3
      <4>4. CASE z.over = a.over
        BY <3>6, <4>4
      <4> QED
        BY <2>2, <4>1, <4>2, <4>3, <4>4
    <3> QED
      BY <3>5, <3>6
  <2>9. /\ z.iter \in 1..(max_iterations + 1)
        /\ ~z.over => z.iter <= max_iterations
    <3>1. z.iter \in 1..(max_iterations + 1)
      BY <1>2, <2>2 DEF max_iterations
    <3>2. ASSUME ~z.over PROVE z.iter <= max_iterations
      <4>1. a.iter # max_iterations
        BY <2>2, <3>2 DEF IsTrue
      <4> QED
        BY <1>2, <2>2, <4>1 DEF max_iterations
    <3> QED
      BY <3>1, <3>2
  <2>10. Shape(c, z.psi)
    BY <1>2, <2>2, <2>4
  <2>11. /\ Shape(c, z.ref) /\ z.r = TableFor(c, z.ref) /\ z.r.ok
         /\ z.cell = _forward(c, z.r.R, z.ref)
    BY <1>2, <1>4, <1>6, <2>2
  <2>13. ASSUME ~z.over
         PROVE  Settled(c, z)
    <3>1. cell # Empty
      BY <2>2, <2>13 DEF IsTrue
    <3> QED
      BY <1>4, <1>6, <2>2, <3>1 DEF Settled
  <2>14. z.iter # 1
    BY <1>2, <2>2 DEF max_iterations
  <2> QED
    BY <2>2, <2>6, <2>7, <2>8, <2>9, <2>10, <2>11, <2>13, <2>14 DEF Alternating
<1> QED
  BY <1>3, <1>5, <1>6

-----------------------------------------------------------------------------
(* The orders that are searched.                                            *)

LEMMA FunctionsAreFinite ==
  ASSUME NEW S, IsFiniteSet(S), NEW T, IsFiniteSet(T)
  PROVE  IsFiniteSet([S -> T])
<1> DEFINE graph(f) == {<<i, f[i]>> : i \in S}
           g == [f \in [S -> T] |-> graph(f)]
           U == SUBSET (S \X T)
<1>1. IsFiniteSet(U)
  BY FS_Product, FS_SUBSET
<1>2. g \in [[S -> T] -> U]
  OBVIOUS
<1>3. ASSUME NEW f \in [S -> T], NEW h \in [S -> T], g[f] = g[h]
      PROVE  f = h
  <2>1. graph(f) = graph(h)
    BY <1>3
  <2>2. ASSUME NEW i \in S
        PROVE  f[i] = h[i]
    <3>1. <<i, f[i]>> \in graph(h)
      BY <2>1
    <3> QED
      BY <3>1
  <2> QED
    BY <2>2
<1> HIDE DEF U, g
<1>4. g \in Injection([S -> T], U)
  BY <1>2, <1>3 DEF Injection, IsInjective
<1> QED
  BY <1>1, <1>4, FS_Injection

Less(a, b) ==
  \E i \in DOMAIN a \cap DOMAIN b : a[i] < b[i] /\ \A j \in 1..(i - 1) : a[j] = b[j]

LEMMA LessIsTotal ==
  ASSUME NEW n \in Nat, NEW a \in [1..n -> Nat], NEW b \in [1..n -> Nat]
  PROVE  /\ ~Less(a, a)
         /\ a # b => Less(a, b) \/ Less(b, a)
<1>1. ~Less(a, a)
  BY DEF Less
<1>2. ASSUME a # b
      PROVE  Less(a, b) \/ Less(b, a)
  <2> DEFINE D == {i \in 1..n : a[i] # b[i]}
  <2>1. D # {} /\ D \in SUBSET Nat
    BY <1>2
  <2>2. PICK i \in D : \A j \in D : i <= j
    BY <2>1, Least
  <2>3. \A j \in 1..(i - 1) : a[j] = b[j]
    <3> TAKE j \in 1..(i - 1)
    <3>1. j \in 1..n /\ ~(i <= j)
      OBVIOUS
    <3> QED
      BY <2>2, <3>1
  <2>4. i \in 1..n /\ a[i] # b[i] /\ a[i] \in Nat /\ b[i] \in Nat
    OBVIOUS
  <2>5. a[i] < b[i] \/ b[i] < a[i]
    BY <2>4
  <2> QED
    BY <2>3, <2>4, <2>5 DEF Less
<1> QED
  BY <1>1, <1>2

LEMMA LessIsTransitive ==
  ASSUME NEW n \in Nat, NEW a \in [1..n -> Nat], NEW b \in [1..n -> Nat],
         NEW d \in [1..n -> Nat], Less(a, b), Less(b, d)
  PROVE  Less(a, d)
<1>1. PICK i \in 1..n : a[i] < b[i] /\ \A j \in 1..(i - 1) : a[j] = b[j]
  BY DEF Less
<1>2. PICK k \in 1..n : b[k] < d[k] /\ \A j \in 1..(k - 1) : b[j] = d[j]
  BY DEF Less
<1> DEFINE m == IF i <= k THEN i ELSE k
<1>3. m \in 1..n /\ m <= i /\ m <= k
  OBVIOUS
<1>4. \A j \in 1..(m - 1) : a[j] = b[j] /\ b[j] = d[j]
  BY <1>1, <1>2, <1>3
<1>5. a[m] < d[m]
  <2>1. CASE i < k
    <3>1. m = i /\ b[i] = d[i]
      BY <1>2, <2>1
    <3> QED
      BY <1>1, <3>1
  <2>2. CASE i = k
    <3>1. a[i] \in Nat /\ b[i] \in Nat /\ d[i] \in Nat /\ a[i] < b[i] /\ b[i] < d[i] /\ m = i
      BY <1>1, <1>2, <2>2
    <3> QED
      BY <3>1
  <2>3. CASE k < i
    <3>1. m = k /\ a[k] = b[k]
      BY <1>1, <2>3
    <3> QED
      BY <1>2, <3>1
  <2> QED
    BY <2>1, <2>2, <2>3
<1> HIDE DEF m
<1> QED
  BY <1>3, <1>4, <1>5 DEF Less

Sorted(a) ==
  [i \in DOMAIN a |-> CHOOSE x \in Range(a) : Cardinality({y \in Range(a) : y < x}) = i - 1]

LEMMA SortedIsFunction ==
  ASSUME NEW k \in Nat, NEW a \in [1..k -> Nat], IsInjective(a)
  PROVE  Sorted(a) \in [1..k -> Nat]
<1> DEFINE R == Range(a)
           L == {pair \in R \X R : pair[1] < pair[2]}
<1>1. R \in SUBSET Nat /\ \A x \in R : \E i \in 1..k : a[i] = x
  BY DEF Range
<1>2. a \in Bijection(1..k, R)
  BY DEF Bijection, Injection, Surjection, Range, IsInjective
<1> HIDE DEF R
<1>3. IsFiniteSet(1..k) /\ Cardinality(1..k) = k
  BY FS_Interval
<1>4. IsFiniteSet(R) /\ Cardinality(R) = k
  BY <1>2, <1>3, FS_Bijection DEF ExistsBijection
<1>5. StrictOrder(R, L)
  BY <1>1 DEF StrictOrder
<1>6. \A x, y \in R : <<x, y>> \in L <=> x < y
  OBVIOUS
<1> HIDE DEF L
<1>7. ASSUME NEW i \in 1..k
      PROVE  \E x \in R : Cardinality({y \in R : y < x}) = i - 1
  <2>0. i \in 1..Cardinality(R)
    BY <1>4
  <2>1. PICK x \in R : Cardinality(Predecessors(R, L, x)) = i - 1
    BY <1>4, <1>5, <2>0, RankExists
  <2>2. Predecessors(R, L, x) = {y \in R : y < x}
    BY <1>6 DEF Predecessors
  <2> QED
    BY <2>1, <2>2
<1>8. ASSUME NEW i \in 1..k
      PROVE  (CHOOSE x \in R : Cardinality({y \in R : y < x}) = i - 1) \in Nat
  BY <1>1, <1>7
<1> QED
  BY <1>8 DEF Sorted, R

Key(s) == Sorted(s) \o s

LEMMA KeyIs ==
  ASSUME NEW k \in Nat, NEW s \in [1..k -> Nat], IsInjective(s)
  PROVE  /\ Len(s) = k /\ Key(s) \in [1..(k + k) -> Nat]
         /\ \A i \in 1..k : Key(s)[k + i] = s[i]
<1> DEFINE t == Sorted(s)
<1>1. t \in [1..k -> Nat]
  BY SortedIsFunction
<1> HIDE DEF t
<1>2. t \in Seq(Nat) /\ s \in Seq(Nat) /\ Len(t) = k /\ Len(s) = k
  BY <1>1
<1> DEFINE r == t \o s
<1>3. r \in [1..(k + k) -> Nat] /\ \A i \in 1..k : r[k + i] = s[i]
  <2>1. r \in Seq(Nat) /\ Len(r) = k + k
    BY <1>2
  <2>2. ASSUME NEW i \in 1..k
        PROVE  r[k + i] = s[i]
    <3>1. k + i \in (Len(t) + 1)..(Len(t) + Len(s)) /\ (k + i) - Len(t) = i
      BY <1>2
    <3>2. r[k + i] = s[(k + i) - Len(t)]
      BY <1>2, <3>1, ConcatProperties
    <3> QED
      BY <3>1, <3>2
  <2> HIDE DEF r
  <2> QED
    BY <2>1, <2>2
<1> QED
  BY <1>2, <1>3 DEF Key, t, r

Earlier(a, b) == Len(a) < Len(b) \/ (Len(a) = Len(b) /\ Less(Key(a), Key(b)))

IsPerm(n, s) == \E k \in 1..n : s \in [1..k -> 1..n] /\ IsInjective(s)

LEMMA PermKey ==
  ASSUME NEW n \in Nat, NEW s, IsPerm(n, s)
  PROVE  /\ Len(s) \in 1..n /\ s \in [1..Len(s) -> 1..n] /\ IsInjective(s)
         /\ Key(s) \in [1..(Len(s) + Len(s)) -> Nat]
         /\ \A i \in 1..Len(s) : Key(s)[Len(s) + i] = s[i]
<1>1. PICK k \in 1..n : s \in [1..k -> 1..n] /\ IsInjective(s)
  BY DEF IsPerm
<1>2. k \in Nat /\ s \in [1..k -> Nat] /\ IsInjective(s)
  BY <1>1
<1>3. /\ Len(s) = k /\ Key(s) \in [1..(k + k) -> Nat]
      /\ \A i \in 1..k : Key(s)[k + i] = s[i]
  BY <1>2, KeyIs
<1> QED
  BY <1>1, <1>3

LEMMA EarlierIsOrder ==
  ASSUME NEW n \in Nat, NEW S, \A s \in S : IsPerm(n, s), NEW L,
         \A a, b \in S : <<a, b>> \in L <=> Earlier(a, b)
  PROVE  StrictOrder(S, L)
<1>1. ASSUME NEW x \in S
      PROVE  <<x, x>> \notin L
  <2>1. Len(x) + Len(x) \in Nat /\ Len(x) \in Nat /\ Key(x) \in [1..(Len(x) + Len(x)) -> Nat]
    BY PermKey
  <2> QED
    BY <2>1, LessIsTotal DEF Earlier
<1>2. ASSUME NEW x \in S, NEW y \in S, NEW z \in S, <<x, y>> \in L, <<y, z>> \in L
      PROVE  <<x, z>> \in L
  <2>1. /\ Len(x) \in Nat /\ Key(x) \in [1..(Len(x) + Len(x)) -> Nat]
        /\ Len(y) \in Nat /\ Key(y) \in [1..(Len(y) + Len(y)) -> Nat]
        /\ Len(z) \in Nat /\ Key(z) \in [1..(Len(z) + Len(z)) -> Nat]
    BY PermKey
  <2>2. Earlier(x, y) /\ Earlier(y, z)
    BY <1>2
  <2>3. CASE Len(x) = Len(y) /\ Len(y) = Len(z)
    <3> DEFINE m == Len(x) + Len(x)
    <3>1. m \in Nat /\ Key(x) \in [1..m -> Nat] /\ Key(y) \in [1..m -> Nat] /\ Key(z) \in [1..m -> Nat]
      BY <2>1, <2>3
    <3>2. Less(Key(x), Key(y)) /\ Less(Key(y), Key(z))
      BY <2>1, <2>2, <2>3 DEF Earlier
    <3> HIDE DEF m
    <3>3. Less(Key(x), Key(z))
      BY <3>1, <3>2, LessIsTransitive
    <3> QED
      BY <2>3, <3>3 DEF Earlier
  <2>4. CASE ~(Len(x) = Len(y) /\ Len(y) = Len(z))
    <3>1. Len(x) < Len(z)
      BY <2>1, <2>2, <2>4 DEF Earlier
    <3> QED
      BY <3>1 DEF Earlier
  <2> QED
    BY <2>3, <2>4
<1>3. ASSUME NEW x \in S, NEW y \in S, x # y
      PROVE  <<x, y>> \in L \/ <<y, x>> \in L
  <2>1. /\ Len(x) \in Nat /\ Key(x) \in [1..(Len(x) + Len(x)) -> Nat]
        /\ Len(y) \in Nat /\ Key(y) \in [1..(Len(y) + Len(y)) -> Nat]
        /\ x \in [1..Len(x) -> 1..n] /\ y \in [1..Len(y) -> 1..n]
        /\ \A i \in 1..Len(x) : Key(x)[Len(x) + i] = x[i]
        /\ \A i \in 1..Len(y) : Key(y)[Len(y) + i] = y[i]
    BY PermKey
  <2>2. CASE Len(x) = Len(y)
    <3> DEFINE m == Len(x) + Len(x)
    <3>1. m \in Nat /\ Key(x) \in [1..m -> Nat] /\ Key(y) \in [1..m -> Nat]
      BY <2>1, <2>2
    <3>2. Key(x) # Key(y)
      <4> DEFINE l == Len(x)
      <4>0. /\ x \in [1..l -> 1..n] /\ y \in [1..l -> 1..n]
            /\ \A i \in 1..l : Key(x)[l + i] = x[i] /\ Key(y)[l + i] = y[i]
        BY <2>1, <2>2
      <4> HIDE DEF l
      <4>1. PICK i \in 1..l : x[i] # y[i]
        <5> SUFFICES ASSUME \A i \in 1..l : x[i] = y[i]
                     PROVE  x = y
          BY <1>3
        <5> DEFINE D == 1..l
        <5>1. x = [i \in D |-> x[i]] /\ y = [i \in D |-> y[i]] /\ \A i \in D : x[i] = y[i]
          BY <4>0
        <5> HIDE DEF D
        <5> QED
          BY <5>1
      <4> QED
        BY <4>0, <4>1
    <3> HIDE DEF m
    <3>3. Less(Key(x), Key(y)) \/ Less(Key(y), Key(x))
      BY <3>1, <3>2, LessIsTotal
    <3> QED
      BY <2>2, <3>3 DEF Earlier
  <2>3. CASE Len(x) # Len(y)
    <3> DEFINE u == Len(x)
               v == Len(y)
    <3>1. u \in Nat /\ v \in Nat /\ u # v
      BY <2>1, <2>3
    <3> HIDE DEF u, v
    <3>2. u < v \/ v < u
      BY <3>1
    <3>3. Earlier(x, y) \/ Earlier(y, x)
      BY <3>2 DEF Earlier, u, v
    <3> QED
      BY <3>3
  <2> QED
    BY <2>2, <2>3
<1> QED
  BY <1>1, <1>2, <1>3 DEF StrictOrder

\* The candidates are sequences of devices of the fleet, each of them once.
LEMMA OrdersAreOrders ==
  ASSUME NEW c, IsSpec(c)
  PROVE  /\ Orders(c) \in Seq(ToSet(Orders(c)))
         /\ \A o \in ToSet(Orders(c)) : Order(c, o)
<1> DEFINE n == M(c)
           sizes == IF c.subsets THEN 2..n ELSE {n}
           S == {s \in UNION {[1..k -> 1..n] : k \in sizes} : IsInjective(s)}
           L == {pair \in S \X S : Earlier(pair[1], pair[2])}
           indices == [i \in 1..Cardinality(S) |->
                         CHOOSE s \in S : Cardinality({t \in S : Earlier(t, s)}) = i - 1]
<1>1. Orders(c) = IF c.search < n THEN <<c.devices>>
                  ELSE [i \in DOMAIN indices |->
                          [k \in DOMAIN indices[i] |-> c.devices[indices[i][k]]]]
  BY DEF Orders, Earlier, Key, Sorted, Less
<1>2. n \in Nat \ {0}
  BY SpecOrder
<1>3. sizes \subseteq 1..n
  BY <1>2
<1>4. \A s \in S : IsPerm(n, s)
  BY <1>3 DEF IsPerm
<1>5. IsFiniteSet(S)
  <2>1. IsFiniteSet(1..n)
    BY <1>2, FS_Interval
  <2>2. IsFiniteSet(SUBSET ((1..n) \X (1..n)))
    BY <2>1, FS_Product, FS_SUBSET
  <2> DEFINE U == {[1..k -> 1..n] : k \in 1..n}
             power == [k \in 1..n |-> [1..k -> 1..n]]
  <2>3. U = ImageOf(power, 1..n)
    BY DEF ImageOf
  <2>4. IsFiniteSet(ImageOf(power, 1..n))
    <3> HIDE DEF power
    <3> QED
      BY <2>1, ImageIsFinite
  <2>5. ASSUME NEW T \in U
        PROVE  IsFiniteSet(T)
    <3>1. PICK k \in 1..n : T = [1..k -> 1..n]
      OBVIOUS
    <3> DEFINE D == 1..k
               W == 1..n
    <3>2. IsFiniteSet(D) /\ IsFiniteSet(W) /\ T = [D -> W]
      BY <2>1, <3>1, FS_Interval
    <3> HIDE DEF D, W
    <3> QED
      BY <3>2, FunctionsAreFinite
  <2>6. S \subseteq UNION U
    BY <1>3
  <2>7. IsFiniteSet(U)
    BY <2>3, <2>4
  <2> HIDE DEF U, S
  <2>8. IsFiniteSet(UNION U)
    BY <2>5, <2>7, FS_UNION
  <2> QED
    BY <2>6, <2>8, FS_Subset
<1> HIDE DEF S
<1>6. \A a, b \in S : <<a, b>> \in L <=> Earlier(a, b)
  OBVIOUS
<1> HIDE DEF L, n
<1>7. StrictOrder(S, L)
  BY <1>2, <1>4, <1>6, EarlierIsOrder
<1>8. ASSUME NEW i \in 1..Cardinality(S)
      PROVE  indices[i] \in S
  <2>1. PICK s \in S : Cardinality(Predecessors(S, L, s)) = i - 1
    BY <1>5, <1>7, RankExists
  <2>2. Predecessors(S, L, s) = {t \in S : Earlier(t, s)}
    BY <1>6 DEF Predecessors
  <2>3. \E r \in S : Cardinality({t \in S : Earlier(t, r)}) = i - 1
    BY <2>1, <2>2
  <2> QED
    BY <2>3
<1>9. Cardinality(S) \in Nat
  BY <1>5, FS_CardinalityType
<1>10. DOMAIN indices = 1..Cardinality(S)
  OBVIOUS
<1> HIDE DEF indices
<1>11. ASSUME NEW i \in 1..Cardinality(S)
       PROVE  Order(c, [k \in DOMAIN indices[i] |-> c.devices[indices[i][k]]])
  <2> DEFINE s == indices[i]
             o == [k \in DOMAIN s |-> c.devices[s[k]]]
  <2>1. s \in S
    BY <1>8
  <2> HIDE DEF s
  <2>2. Len(s) \in 1..n /\ s \in [1..Len(s) -> 1..n] /\ IsInjective(s)
    BY <1>2, <1>4, <2>1, PermKey
  <2>3. /\ \A m \in 1..n : c.devices[m] \in ToSet(c.devices)
        /\ \A m, q \in 1..n : c.devices[m] = c.devices[q] => m = q
    BY SpecOrder DEF n
  <2>4. o \in [1..Len(s) -> ToSet(c.devices)] /\ DOMAIN o = 1..Len(s)
    BY <2>2, <2>3
  <2>5. o \in Seq(ToSet(c.devices)) /\ o # << >>
    BY <1>2, <2>2, <2>4
  <2>6. IsInjective(o)
    BY <2>2, <2>3 DEF IsInjective
  <2> QED
    BY <2>5, <2>6 DEF Order, s
<1>12. CASE c.search < n
  <2>1. Orders(c) = <<c.devices>>
    BY <1>1, <1>12
  <2>2. ToSet(Orders(c)) = {c.devices} /\ Orders(c) \in Seq(ToSet(Orders(c)))
    BY <2>1 DEF ToSet
  <2> QED
    BY <2>2 DEF IsSpec
<1>13. CASE ~(c.search < n)
  <2> DEFINE q == Orders(c)
  <2>1. q = [i \in DOMAIN indices |-> [k \in DOMAIN indices[i] |-> c.devices[indices[i][k]]]]
    BY <1>1, <1>13
  <2>2. \A i \in 1..Cardinality(S) : Order(c, q[i])
    BY <1>10, <1>11, <2>1
  <2>3. DOMAIN q = 1..Cardinality(S) /\ q = [i \in DOMAIN q |-> q[i]]
    BY <1>10, <2>1
  <2> HIDE DEF q
  <2>4. q \in [1..Cardinality(S) -> ToSet(q)]
    BY <2>3 DEF ToSet
  <2>5. q \in Seq(ToSet(q))
    BY <1>9, <2>4
  <2>6. \A o \in ToSet(q) : Order(c, o)
    BY <2>2, <2>3 DEF ToSet
  <2> QED
    BY <2>5, <2>6 DEF q
<1> QED
  BY <1>12, <1>13

-----------------------------------------------------------------------------
(* A profiled fleet is a specification.                                     *)

LEMMA SmallestIsNat ==
  ASSUME NEW x \in Seq(Nat), x # << >>, NEW k \in 1..Len(x)
  PROVE  Smallest(x, k) \in Nat
<1> DEFINE R == Range(x)
           upTo(y) == {i \in DOMAIN x : x[i] <= y}
           T == {y \in R : Cardinality(upTo(y)) >= k}
<1>1. Len(x) \in Nat \ {0} /\ DOMAIN x = 1..Len(x) /\ \A i \in 1..Len(x) : x[i] \in Nat
  BY EmptySeq
<1>2. R = ImageOf(x, 1..Len(x)) /\ IsFiniteSet(1..Len(x))
  BY <1>1, FS_Interval DEF Range, ImageOf
<1>3. IsFiniteSet(R)
  BY <1>2, ImageIsFinite
<1>4. R \in SUBSET Nat /\ R # {}
  BY <1>1 DEF Range
<1>5. PICK m \in R : \A y \in R : y <= m
  BY <1>3, <1>4, Greatest
<1>6. upTo(m) = 1..Len(x)
  BY <1>1, <1>5 DEF Range
<1>7. Cardinality(1..Len(x)) = Len(x)
  <2> DEFINE l == Len(x)
  <2>1. 1 \in Int /\ l \in Int /\ l >= 1
    BY <1>1
  <2> HIDE DEF l
  <2>2. Cardinality(1..l) = l
    BY <2>1, FS_Interval
  <2> QED
    BY <2>2 DEF l
<1>8. T # {} /\ T \in SUBSET Nat
  <2>1. Cardinality(upTo(m)) >= k
    <3> DEFINE u == Cardinality(upTo(m))
               l == Len(x)
    <3>1. u = l
      BY <1>6, <1>7
    <3>2. k \in 1..l /\ l \in Nat
      BY <1>1
    <3> HIDE DEF u, l
    <3>3. u >= k
      BY <3>1, <3>2
    <3> QED
      BY <3>3 DEF u
  <2>2. m \in T
    BY <2>1
  <2> QED
    BY <1>4, <2>2
<1>9. Smallest(x, k) = Min(T)
  BY DEF Smallest
<1> HIDE DEF T
<1> QED
  BY <1>8, <1>9, MinOf

LEMMA MedianIsNat ==
  ASSUME NEW x \in Seq(Nat) \ {<< >>}
  PROVE  median(x) \in Nat
<1> DEFINE n == Len(x)
           a == Smallest(x, (n + 1) \div 2)
           b == Smallest(x, (n \div 2) + 1)
<1>1. n \in Nat \ {0} /\ x \in Seq(Nat) /\ x # << >>
  BY EmptySeq
<1>2. median(x) = (a + b) \div 2
  BY DEF median
<1>3. (n + 1) \div 2 \in 1..n
  <2> HIDE DEF n
  <2> QED
    BY <1>1
<1>4. a \in Nat
  BY <1>1, <1>3, SmallestIsNat
<1>5. b \in Nat
  <2>1. CASE n = 1
    <3>1. (n \div 2) + 1 = 1
      BY <2>1
    <3> QED
      BY <1>1, <2>1, <3>1, SmallestIsNat
  <2>2. CASE n # 1
    <3>1. (n \div 2) + 1 \in 1..n
      <4> HIDE DEF n
      <4> QED
        BY <1>1, <2>2
    <3> QED
      BY <1>1, <3>1, SmallestIsNat
  <2> QED
    BY <2>1, <2>2
<1> HIDE DEF a, b, n
<1> QED
  BY <1>2, <1>4, <1>5

LEMMA FleetTypes ==
  ASSUME NEW f, Fleet(f)
  PROVE  /\ Order(f, f.devices) /\ f.mem \in Seq(Nat) /\ DOMAIN f.mem = 1..Len(f.mem)
         /\ \A d \in ToSet(f.devices) : f.total[d] \in Nat /\ f.free[d] \in Nat
         /\ \A d \in ToSet(f.devices) : \A i \in 1..Len(f.mem) : f.time[d][i] \in Seq(Nat) \ {<< >>}
         /\ \A s, d \in ToSet(f.devices) : s # d =>
              f.lat[<<s, d>>] \in Seq(Nat) \ {<< >>} /\ f.rate[<<s, d>>] \in Seq(Nat) \ {<< >>}
<1>1. f.mem \in Seq(Nat)
  BY DEF Fleet
<1>2. DOMAIN f.mem = 1..Len(f.mem)
  BY <1>1
<1>3. Order(f, f.devices)
  BY DEF Fleet, Order
<1>4. /\ \A d \in ToSet(f.devices) : f.total[d] \in Nat /\ f.free[d] \in Nat
      /\ \A d \in ToSet(f.devices) : \A i \in DOMAIN f.mem : f.time[d][i] \in Seq(Nat) \ {<< >>}
  BY DEF Fleet
<1>5. ASSUME NEW s \in ToSet(f.devices), NEW d \in ToSet(f.devices), s # d
      PROVE  f.lat[<<s, d>>] \in Seq(Nat) \ {<< >>} /\ f.rate[<<s, d>>] \in Seq(Nat) \ {<< >>}
  <2> DEFINE pair == <<s, d>>
  <2>1. pair \in {q \in ToSet(f.devices) \X ToSet(f.devices) : q[1] # q[2]}
    BY <1>5
  <2> QED
    BY <2>1 DEF Fleet
<1> QED
  BY <1>1, <1>2, <1>3, <1>4, <1>5

LEMMA LinkIsNat ==
  ASSUME NEW f, NEW pair, f.lat[pair] \in Seq(Nat) \ {<< >>}, f.rate[pair] \in Seq(Nat) \ {<< >>},
         NEW link, link = measure_peer(f, pair)
  PROVE  link.latency \in Nat /\ link.rate \in Nat
<1> DEFINE small == median(f.lat[pair])
           big == median(f.rate[pair])
<1>1. small \in Nat /\ big \in Nat
  BY MedianIsNat
<1>2. link.latency = small \div 2 /\ link.rate = IF big <= small THEN 0 ELSE (big - small) \div 2
  BY DEF measure_peer
<1> HIDE DEF small, big
<1> QED
  BY <1>1, <1>2

\* What the planning takes over from a fleet.
Kept(c, f) ==
  /\ c.devices = f.devices /\ c.mode = f.mode /\ c.backups = f.backups
  /\ c.eager = f.eager /\ Layers(c) = Layers(f)

LEMMA ProfiledIsSpec ==
  ASSUME NEW f, Fleet(f), NEW failed, NEW c, c = ClusterSpec(f, failed)
  PROVE  IsSpec(c) /\ Kept(c, f)
<1> DEFINE D == ToSet(f.devices)
           layers == merge_profiles(f)
           network == collect_network_profile(f, failed)
           F == DOMAIN f
<1>0. F = {"devices", "hosts", "mem", "time", "total", "free", "rate", "lat", "activation",
           "hop", "slo", "penalty", "concurrency", "pool", "mode", "alpha", "eager",
           "backups", "subsets", "search"}
  BY DEF Fleet
<1>1. /\ c.mem = layers.mem /\ c.time = layers.time /\ c.rate = network.rate
      /\ c.lat = network.lat /\ c.devices = f.devices /\ c.total = f.total /\ c.free = f.free
      /\ c.hosts = f.hosts /\ c.activation = f.activation /\ c.hop = f.hop /\ c.slo = f.slo
      /\ c.penalty = f.penalty /\ c.concurrency = f.concurrency /\ c.pool = f.pool
      /\ c.mode = f.mode /\ c.alpha = f.alpha /\ c.eager = f.eager /\ c.backups = f.backups
      /\ c.subsets = f.subsets /\ c.search = f.search
      /\ DOMAIN c = F
  <2> HIDE DEF layers, network
  <2>1. c = [f EXCEPT !.mem = layers.mem, !.time = layers.time,
                      !.rate = network.rate, !.lat = network.lat]
    BY DEF ClusterSpec, layers, network
  <2> QED
    BY <1>0, <2>1
<1>2. c = [x \in DOMAIN c |-> c[x]]
  BY DEF ClusterSpec
<1>3. /\ f.hosts = << >>
      /\ f.activation \in Nat /\ f.hop \in Nat /\ f.slo \in Nat /\ f.penalty \in Nat
      /\ f.concurrency \in Nat /\ f.pool \in Nat /\ f.alpha \in Nat /\ f.search \in Nat
      /\ f.mode \in {"throughput", "latency", "blended"}
      /\ f.eager \in BOOLEAN /\ f.backups \in BOOLEAN /\ f.subsets \in BOOLEAN
  BY DEF Fleet
<1>4. Order(f, f.devices) /\ f.devices[1] \in D
  <2>1. Order(f, f.devices)
    BY FleetTypes
  <2>2. f.devices \in Seq(D) /\ f.devices # << >>
    BY <2>1 DEF Order
  <2> QED
    BY <2>1, <2>2 DEF ToSet
<1>5. /\ layers.mem = [i \in 1..Len(f.mem) |-> f.mem[i] + estimate_kv_cache_bytes]
      /\ \A d \in D : \A i \in 1..Len(f.mem) : layers.time[d][i] = median(f.time[d][i])
  <2>1. DOMAIN f.mem = 1..Len(f.mem)
    BY FleetTypes
  <2> QED
    BY <2>1 DEF merge_profiles, profile_layers
<1>6. \A i \in 1..Len(f.mem) : f.mem[i] + estimate_kv_cache_bytes \in Nat
  BY FleetTypes DEF estimate_kv_cache_bytes
<1>7. c.mem \in Seq(Nat) /\ Layers(c) = Layers(f)
  <2>1. Len(f.mem) \in Nat
    BY FleetTypes
  <2> QED
    BY <1>1, <1>5, <1>6, <2>1 DEF Layers
<1>8. \A d \in D : \A i \in 1..Layers(c) : c.time[d][i] \in Nat
  <2> TAKE d \in D
  <2> TAKE i \in 1..Layers(c)
  <2>1. i \in 1..Len(f.mem)
    BY <1>7 DEF Layers
  <2>2. f.time[d][i] \in Seq(Nat) \ {<< >>}
    BY <2>1, FleetTypes
  <2>3. c.time[d][i] = median(f.time[d][i])
    <3> HIDE DEF layers
    <3> QED
      BY <1>1, <1>5, <2>1
  <2> QED
    BY <2>2, <2>3, MedianIsNat
<1>9. \A s, d \in D : Measured(c, s, d) => c.rate[<<s, d>>] \in Nat /\ c.lat[<<s, d>>] \in Nat
  <2> SUFFICES ASSUME NEW s \in D, NEW d \in D, Measured(c, s, d)
               PROVE  c.rate[<<s, d>>] \in Nat /\ c.lat[<<s, d>>] \in Nat
    OBVIOUS
  <2> DEFINE pair == <<s, d>>
             link == measure_peer(f, pair)
  <2>1. /\ s # d /\ network.rate[pair] = link.rate /\ network.lat[pair] = link.latency
    <3>1. pair \in DOMAIN network.rate
      BY <1>1 DEF Measured
    <3> QED
      BY <3>1 DEF collect_network_profile, MeasurePeer
  <2>2. f.lat[pair] \in Seq(Nat) \ {<< >>} /\ f.rate[pair] \in Seq(Nat) \ {<< >>}
    BY <2>1, FleetTypes
  <2>3. link.latency \in Nat /\ link.rate \in Nat
    <3> HIDE DEF pair
    <3> QED
      BY <2>2, LinkIsNat
  <2> QED
    BY <1>1, <2>1, <2>3
<1> HIDE DEF layers, network, F
<1>10. Knobs(c)
  BY <1>0, <1>1, <1>2, <1>3, <1>7 DEF Knobs
<1>11. Measures(c)
  <2>1. \A d \in D : c.total[d] \in Nat /\ c.free[d] \in Nat
    BY <1>1, FleetTypes
  <2> QED
    BY <1>1, <1>8, <1>9, <2>1 DEF Measures
<1>12. Order(c, c.devices)
  BY <1>1, <1>4 DEF Order
<1> QED
  BY <1>1, <1>7, <1>10, <1>11, <1>12 DEF IsSpec, Kept

-----------------------------------------------------------------------------
(* The inductive invariant.                                                 *)

\* A result of the search over the fleet s.
Found(s, x) ==
  \E o \in ToSet(Orders(s)) :
    LET c == with_devices(s, o)
    IN /\ M(c) <= Layers(c) /\ Good(c, x)
       /\ x.ok \in BOOLEAN /\ x.ok /\ x.converged \in BOOLEAN
       /\ x.converged => x.recovery = TableFor(c, x.placement).R

\* The rank of what a candidate costs without backups.
AloneRank(s, cell) == _rank(s, cell) + s.penalty * s.pool * Len(cell.ends)

\* Nothing over the order o without backups is cheaper than x.
Covers(s, o, x) ==
  LET cell == solve(with_devices(s, o), << >>)
  IN cell # Empty => x.ok /\ SearchRank(s, x) <= AloneRank(s, cell)

\* x covers the orders that are not left.
CoversAllBut(s, left, x) ==
  ~s.backups /\ s.mode # "blended" =>
    \A o \in ToSet(Orders(s)) : o \in left \/ Covers(s, o, x)

\* A result that places L layers on some of the devices D.
IsWhole(D, L, x) ==
  LET p == x.placement
      R == x.recovery
  IN /\ x.ok
     /\ p[1].start = 1 /\ p[Len(p)].end = L
     /\ \A n \in DOMAIN p : p[n].start <= p[n].end
     /\ \A n \in 2..Len(p) : p[n].start = p[n - 1].end + 1
     /\ \A m, n \in DOMAIN p : m # n => p[m].device # p[n].device
     /\ {p[n].device : n \in DOMAIN p} \cup Range(R) \subseteq D
     /\ DOMAIN R \in {{}, {p[n].device : n \in DOMAIN p}}

\* What a file holds is whole for the fleet of its fingerprint.
FileIsWhole(file) ==
  /\ file.result.ok \in BOOLEAN
  /\ file.result.ok => IsWhole(file.fp.devices, file.fp.layers, file.result)

Counters ==
  /\ pc \in {"waiting", "layers", "next", "alternate", "rename", "done", "failed"}
  /\ fleet \in Fleets
  /\ solves \in 1..MaxSolves /\ crashes \in 0..MaxCrashes
  /\ Planned \subseteq ToSet(fleet.devices)
  /\ profiled \subseteq Planned /\ heard \subseteq ToSet(fleet.devices)
  /\ attempt \in [Planned -> 0.._PROFILE_RPC_ATTEMPTS]
  /\ answer.from \in {"none", "cache", "search"}

Profiled ==
  /\ pc \in {"waiting", "layers"} => Fleet(spec)
  /\ pc \in {"next", "alternate", "rename", "done"} => IsSpec(spec)

Searching ==
  pc \in {"next", "alternate", "rename"} =>
    /\ orders \in Seq(ToSet(Orders(spec)))
    /\ best.ok \in BOOLEAN
    /\ best.ok => Found(spec, best)
    /\ CoversAllBut(spec, ToSet(orders), best)

Trying ==
  pc = "alternate" =>
    orders # << >> /\ M(Candidate) <= Layers(Candidate) /\ Alternating(Candidate, alt)

Saving == pc = "rename" => orders = << >> /\ best.ok /\ tmp.result.ok /\ tmp.result = best

Answered ==
  pc = "done" =>
    /\ IsWhole(Planned, Layers(spec), answer.result)
    /\ answer.from = "search" =>
         /\ Found(spec, answer.result) /\ CoversAllBut(spec, {}, answer.result)
         /\ DOMAIN answer.result.recovery # {} <=> spec.backups

IInv ==
  /\ Counters
  /\ Profiled
  /\ Searching
  /\ Trying
  /\ Saving
  /\ Answered
  /\ FileIsWhole(cache) /\ FileIsWhole(tmp)

-----------------------------------------------------------------------------
(* What the search finds.                                                   *)

\* A candidate costs what it costs in the whole fleet.
LEMMA CandidateCosts ==
  ASSUME NEW s, IsSpec(s), NEW o, Order(s, o), NEW c, c = with_devices(s, o)
  PROVE  /\ IsSpec(c) /\ c.devices = o /\ M(c) = Len(o) /\ ToSet(o) \subseteq ToSet(s.devices)
         /\ Layers(c) = Layers(s) /\ c.mode = s.mode /\ c.backups = s.backups /\ c.eager = s.eager
         /\ c.mem = s.mem /\ c.total = s.total /\ c.free = s.free /\ c.rate = s.rate
         /\ \A x : _rank(c, x) = _rank(s, x)
         /\ \A d : Budget(c, d) = Budget(s, d)
         /\ \A a, b : Measured(c, a, b) <=> Measured(s, a, b)
<1>1. /\ c.devices = o /\ c.mem = s.mem /\ c.total = s.total /\ c.free = s.free
      /\ c.rate = s.rate /\ c.mode = s.mode /\ c.alpha = s.alpha /\ c.backups = s.backups
      /\ c.eager = s.eager
  BY Reordered DEF IsSpec
<1>2. IsSpec(c)
  BY CandidateIsSpec
<1>3. ToSet(o) \subseteq ToSet(s.devices)
  BY DEF Order, ToSet
<1>4. /\ M(c) = Len(o) /\ Layers(c) = Layers(s)
      /\ \A d : Budget(c, d) = Budget(s, d)
      /\ \A a, b : Measured(c, a, b) <=> Measured(s, a, b)
  BY <1>1 DEF M, Layers, Budget, Measured
<1>5. \A x : _rank(c, x) = _rank(s, x)
  BY <1>1 DEF _rank
<1> QED
  BY <1>1, <1>2, <1>3, <1>4, <1>5

LEMMA ShapeLength ==
  ASSUME NEW c, IsSpec(c), NEW p, Shape(c, p)
  PROVE  Len(p) = M(c) /\ DOMAIN p = 1..M(c)
<1>1. M(c) \in Nat
  BY SpecOrder
<1>2. DOMAIN p = 1..M(c) /\ p = [n \in DOMAIN p |-> p[n]]
  BY DEF Shape
<1> DEFINE m == M(c)
<1> HIDE DEF m
<1>3. m \in Nat /\ DOMAIN p = 1..m /\ p = [n \in 1..m |-> p[n]]
  BY <1>1, <1>2 DEF m
<1>4. Len(p) = m
  BY <1>3
<1> QED
  BY <1>2, <1>4 DEF m

LEMMA FoundRank ==
  ASSUME NEW s, IsSpec(s), NEW x, Found(s, x)
  PROVE  x.ok /\ SearchRank(s, x) \in Nat
<1>1. PICK o \in ToSet(Orders(s)) :
        /\ Good(with_devices(s, o), x) /\ x.ok
  BY DEF Found
<1> DEFINE c == with_devices(s, o)
<1>2. Order(s, o)
  BY OrdersAreOrders
<1>3. IsSpec(c) /\ _rank(c, x) = _rank(s, x)
  BY <1>2, CandidateCosts
<1>4. Shape(c, x.placement) /\ _rank(c, x) \in Nat
  BY <1>1, <1>3, GoodCosts
<1>5. Len(x.placement) \in Nat
  BY <1>3, <1>4, ShapeLength, SpecOrder
<1>6. s.penalty \in Nat /\ s.pool \in Nat
  BY KnobTypes DEF IsSpec
<1> DEFINE u == _rank(s, x)
           l == Len(x.placement)
<1>7. u \in Nat /\ l \in Nat
  BY <1>3, <1>4, <1>5
<1> HIDE DEF u, l
<1>8. s.penalty * s.pool \in Nat
  BY <1>6
<1>9. s.penalty * s.pool * l \in Nat
  BY <1>7, <1>8
<1>10. u + s.penalty * s.pool * l \in Nat
  BY <1>7, <1>9
<1> QED
  BY <1>1, <1>10 DEF SearchRank, u, l

\* What the cost-only placement of a candidate is.
LEMMA AloneCell ==
  ASSUME NEW s, IsSpec(s), NEW o, Order(s, o), NEW c, c = with_devices(s, o),
         NEW cell, cell = solve(c, << >>), cell # Empty
  PROVE  /\ M(c) <= Layers(c) /\ cell.ends \in CutsTo(c, M(c), Layers(c))
         /\ Allowed(c, << >>, << >>, CutOf(c, cell.ends))
         /\ _rank(s, cell) \in Nat /\ Len(cell.ends) = Len(o) /\ AloneRank(s, cell) \in Nat
         /\ s.mode # "blended" => _rank(s, cell) = CutRank(c, CutOf(c, cell.ends))
<1> DEFINE u == uniform_placement(c)
           e == cell.ends
<1>0. /\ IsSpec(c) /\ M(c) = Len(o) /\ M(c) \in Nat \ {0} /\ c.mode = s.mode
      /\ _rank(c, cell) = _rank(s, cell)
  BY CandidateCosts, SpecOrder
<1>1. M(c) <= Layers(c) /\ cell = _forward(c, << >>, u)
  <2>1. ~(Layers(c) < M(c)) /\ cell = _forward(c, << >>, u)
    BY DEF solve
  <2>2. Layers(c) \in Nat
    BY <1>0, KnobTypes DEF IsSpec
  <2> DEFINE a == Layers(c)
             b == M(c)
  <2>3. a \in Nat /\ b \in Nat /\ ~(a < b)
    BY <1>0, <2>1, <2>2
  <2> HIDE DEF a, b
  <2>4. b <= a
    BY <2>3
  <2> QED
    BY <2>1, <2>4 DEF a, b
<1> HIDE DEF u
<1>2. Sound(c, << >>, u, M(c), Layers(c), cell)
  BY <1>0, <1>1, ForwardIsBest
<1>3. /\ e \in CutsTo(c, M(c), Layers(c)) /\ Allowed(c, << >>, u, CutOf(c, e))
      /\ cell.sum = CostSum(c, e) /\ cell.max = CostMax(c, e)
  BY <1>2 DEF Sound
<1> HIDE DEF e
<1>4. Allowed(c, << >>, << >>, CutOf(c, e))
  BY <1>0, <1>3, AllowedAlone
<1>5. _rank(c, cell) \in Nat
  BY <1>0, <1>1, CellCosts
<1>6. Len(e) = Len(o)
  <2> DEFINE m == M(c)
  <2>1. e \in [1..m -> 1..Layers(c)] /\ m \in Nat /\ m = Len(o)
    BY <1>0, <1>3 DEF CutsTo
  <2> HIDE DEF m
  <2> QED
    BY <2>1
<1>7. s.penalty \in Nat /\ s.pool \in Nat /\ Len(o) \in Nat
  BY <1>0, KnobTypes DEF IsSpec
<1>8. s.penalty * s.pool * Len(o) \in Nat
  <2>1. s.penalty * s.pool \in Nat
    BY <1>7
  <2> QED
    BY <1>7, <2>1
<1>9. AloneRank(s, cell) \in Nat
  <2> DEFINE r == _rank(s, cell)
             t == s.penalty * s.pool * Len(o)
  <2>1. r \in Nat /\ t \in Nat /\ AloneRank(s, cell) = r + t
    BY <1>0, <1>5, <1>6, <1>8 DEF AloneRank, e
  <2> HIDE DEF r, t
  <2> QED
    BY <2>1
<1>10. s.mode # "blended" => _rank(c, cell) = CutRank(c, CutOf(c, e))
  BY <1>0, <1>3, RankIsCutRank DEF IsSpec
<1> QED
  BY <1>0, <1>1, <1>3, <1>4, <1>5, <1>6, <1>9, <1>10 DEF e

LEMMA ExactCovers ==
  ASSUME NEW s, IsSpec(s), NEW o, Order(s, o), s.mode # "blended",
         NEW c, c = with_devices(s, o), NEW x, Exact(c, x), x.ok => Good(c, x)
  PROVE  Covers(s, o, x)
<1> DEFINE cell == solve(c, << >>)
<1> SUFFICES ASSUME cell # Empty
             PROVE  x.ok /\ SearchRank(s, x) <= AloneRank(s, cell)
  BY DEF Covers
<1>0. cell = solve(c, << >>)
  OBVIOUS
<1> HIDE DEF cell
<1>1. /\ cell.ends \in CutsTo(c, M(c), Layers(c)) /\ Allowed(c, << >>, << >>, CutOf(c, cell.ends))
      /\ _rank(s, cell) \in Nat /\ Len(cell.ends) = Len(o)
      /\ _rank(s, cell) = CutRank(c, CutOf(c, cell.ends))
  BY <1>0, AloneCell
<1>2. IsSpec(c) /\ _rank(c, x) = _rank(s, x) /\ M(c) = Len(o)
  BY CandidateCosts
<1>3. x.ok /\ _rank(s, x) <= _rank(s, cell)
  BY <1>1, <1>2 DEF Exact
<1>4. _rank(s, x) \in Nat /\ Len(x.placement) = Len(o)
  <2>1. Shape(c, x.placement) /\ _rank(c, x) \in Nat
    BY <1>2, <1>3, GoodCosts
  <2> QED
    BY <1>2, <2>1, ShapeLength
<1>5. s.penalty * s.pool * Len(o) \in Nat
  <2>1. s.penalty \in Nat /\ s.pool \in Nat /\ Len(o) \in Nat
    BY <1>2, KnobTypes, SpecOrder DEF IsSpec
  <2>2. s.penalty * s.pool \in Nat
    BY <2>1
  <2> QED
    BY <2>1, <2>2
<1> DEFINE u == _rank(s, x)
           v == _rank(s, cell)
           t == s.penalty * s.pool * Len(o)
<1>6. SearchRank(s, x) = u + t /\ AloneRank(s, cell) = v + t
  BY <1>1, <1>4 DEF SearchRank, AloneRank
<1>7. u \in Nat /\ v \in Nat /\ t \in Nat /\ u <= v
  BY <1>1, <1>3, <1>4, <1>5
<1> HIDE DEF u, v, t
<1>8. u + t <= v + t
  BY <1>7
<1> QED
  BY <1>3, <1>6, <1>8

LEMMA BetterCovers ==
  ASSUME NEW s, IsSpec(s), NEW o, Order(s, o), NEW x, Covers(s, o, x),
         x.ok => SearchRank(s, x) \in Nat,
         NEW y, x.ok => y.ok /\ SearchRank(s, y) \in Nat /\ SearchRank(s, y) <= SearchRank(s, x)
  PROVE  Covers(s, o, y)
<1> DEFINE cell == solve(with_devices(s, o), << >>)
<1> SUFFICES ASSUME cell # Empty
             PROVE  y.ok /\ SearchRank(s, y) <= AloneRank(s, cell)
  BY DEF Covers
<1>1. AloneRank(s, cell) \in Nat
  BY AloneCell
<1>2. x.ok /\ SearchRank(s, x) <= AloneRank(s, cell)
  BY DEF Covers
<1> DEFINE a == SearchRank(s, x)
           b == SearchRank(s, y)
           t == AloneRank(s, cell)
<1>3. a \in Nat /\ b \in Nat /\ t \in Nat /\ a <= t /\ b <= a
  BY <1>1, <1>2
<1> HIDE DEF a, b, t
<1>4. b <= t
  BY <1>3
<1> QED
  BY <1>2, <1>4 DEF b, t

LEMMA TooManyDevices ==
  ASSUME NEW s, IsSpec(s), NEW o, Order(s, o), Layers(s) < Len(o), NEW x
  PROVE  Covers(s, o, x)
<1> DEFINE c == with_devices(s, o)
<1>1. Layers(c) < M(c)
  BY CandidateCosts
<1>2. solve(c, << >>) = Empty
  BY <1>1 DEF solve
<1> QED
  BY <1>2 DEF Covers

\* The better of the two is kept.
LEMMA TheBetterOne ==
  ASSUME NEW s, IsSpec(s), NEW x, x.ok \in BOOLEAN, x.ok => Found(s, x),
         NEW y, y.ok \in BOOLEAN, y.ok => Found(s, y),
         NEW z, z = IF y.ok /\ Better(s, y, x) THEN y ELSE x
  PROVE  /\ z.ok \in BOOLEAN /\ z.ok => Found(s, z)
         /\ \A o : Order(s, o) /\ (Covers(s, o, x) \/ Covers(s, o, y)) => Covers(s, o, z)
<1>1. /\ x.ok => SearchRank(s, x) \in Nat
      /\ y.ok => SearchRank(s, y) \in Nat
  BY FoundRank
<1> DEFINE a == SearchRank(s, x)
           b == SearchRank(s, y)
<1>2. CASE y.ok /\ Better(s, y, x)
  <2>1. z = y /\ (x.ok => b < a \/ b = a)
    BY <1>2 DEF Better
  <2>2. x.ok => b <= a
    <3> HIDE DEF a, b
    <3>1. x.ok => a \in Nat /\ b \in Nat
      BY <1>1, <1>2 DEF a, b
    <3> QED
      BY <2>1, <3>1
  <2>3. ASSUME NEW o, Order(s, o), Covers(s, o, x)
        PROVE  Covers(s, o, y)
    BY <1>1, <1>2, <2>2, <2>3, BetterCovers
  <2> QED
    BY <2>1, <2>3
<1>3. CASE y.ok /\ ~Better(s, y, x)
  <2>1. z = x /\ x.ok /\ ~(b < a)
    BY <1>3 DEF Better
  <2>2. a <= b
    <3> HIDE DEF a, b
    <3>1. a \in Nat /\ b \in Nat
      BY <1>1, <1>3, <2>1 DEF a, b
    <3> QED
      BY <2>1, <3>1
  <2>3. ASSUME NEW o, Order(s, o), Covers(s, o, y)
        PROVE  Covers(s, o, x)
    BY <1>1, <1>3, <2>1, <2>2, <2>3, BetterCovers
  <2> QED
    BY <2>1, <2>3
<1>4. CASE ~y.ok
  <2>1. z = x
    BY <1>4
  <2>2. ASSUME NEW o, Order(s, o), Covers(s, o, y)
        PROVE  Covers(s, o, x)
    BY <1>4, <2>2 DEF Covers
  <2> QED
    BY <2>1, <2>2
<1> QED
  BY <1>2, <1>3, <1>4

\* Every layer once and in order, every device of c once.
PlacesAll(c, p) ==
  /\ Len(p) = M(c) /\ DOMAIN p = 1..M(c)
  /\ p[1].start = 1 /\ p[M(c)].end = Layers(c)
  /\ \A n \in 1..M(c) : p[n].start <= p[n].end
  /\ \A n \in 2..M(c) : p[n].start = p[n - 1].end + 1
  /\ \A k, n \in 1..M(c) : k # n => p[k].device # p[n].device
  /\ \A n \in 1..M(c) : p[n].device \in ToSet(c.devices)
  /\ \A d \in ToSet(c.devices) : \E n \in 1..M(c) : p[n].device = d

LEMMA CutIsWhole ==
  ASSUME NEW c, IsSpec(c), NEW e \in CutsTo(c, M(c), Layers(c)), NEW p, p = CutOf(c, e)
  PROVE  PlacesAll(c, p)
<1> DEFINE m == M(c)
           L == Layers(c)
<1>0. m \in Nat \ {0} /\ L \in Nat
  BY SpecOrder, KnobTypes DEF IsSpec
<1>1. /\ DOMAIN p = 1..m /\ m \in 1..m /\ e[m] = L
      /\ \A k \in 1..m : /\ e[k] \in 1..Layers(c)
                         /\ p[k].device = c.devices[k]
                         /\ k = 1 => p[k].start = 1
                         /\ k # 1 => p[k].start = e[k - 1] + 1
                         /\ p[k].end = e[k]
      /\ \A k \in 2..m : k - 1 \in 1..m /\ e[k - 1] < e[k]
  <2> HIDE DEF m
  <2>1. e \in CutsTo(c, m, L)
    BY DEF m
  <2> HIDE DEF L
  <2> QED
    BY <1>0, <2>1, CutStages
<1>2. Len(p) = m
  BY CutShape, ShapeLength
<1>3. \A n \in 1..m : p[n].start <= p[n].end
  <2> TAKE n \in 1..m
  <2>1. CASE n = 1
    BY <1>1, <2>1
  <2>2. CASE n # 1
    <3>1. n \in 2..m /\ n - 1 \in 1..m
      BY <1>0, <2>2
    <3>2. e[n - 1] \in Nat /\ e[n] \in Nat /\ e[n - 1] < e[n] /\ p[n].start = e[n - 1] + 1 /\ p[n].end = e[n]
      BY <1>1, <2>2, <3>1
    <3> DEFINE a == e[n - 1]
               b == e[n]
    <3>3. a \in Nat /\ b \in Nat /\ a < b
      BY <3>2
    <3> HIDE DEF a, b
    <3>4. a + 1 <= b
      BY <3>3
    <3> QED
      BY <3>2, <3>4 DEF a, b
  <2> QED
    BY <2>1, <2>2
<1>4. \A n \in 2..m : p[n].start = p[n - 1].end + 1
  <2> TAKE n \in 2..m
  <2>1. n \in 1..m /\ n # 1 /\ n - 1 \in 1..m
    BY <1>0, <1>1
  <2> QED
    BY <1>1, <2>1
<1>5. \A k, n \in 1..m : k # n => p[k].device # p[n].device
  BY <1>1, SpecOrder
<1>6. /\ \A n \in 1..m : p[n].device \in ToSet(c.devices)
      /\ \A d \in ToSet(c.devices) : \E n \in 1..m : p[n].device = d
  <2>1. /\ \A n \in 1..m : c.devices[n] \in ToSet(c.devices)
        /\ \A d \in ToSet(c.devices) : \E n \in 1..m : c.devices[n] = d
    BY SpecOrder
  <2>2. \A n \in 1..m : p[n].device = c.devices[n]
    BY <1>1
  <2> HIDE DEF m
  <2> QED
    BY <2>1, <2>2
<1>7. p[1].start = 1 /\ p[m].end = L
  BY <1>0, <1>1
<1> QED
  BY <1>1, <1>2, <1>3, <1>4, <1>5, <1>6, <1>7 DEF PlacesAll

\* Whatever a search finds places every layer once and in order.
LEMMA FoundIsWhole ==
  ASSUME NEW s, IsSpec(s), NEW x, Found(s, x)
  PROVE  IsWhole(ToSet(s.devices), Layers(s), x) /\ (DOMAIN x.recovery # {} <=> s.backups)
<1>1. PICK o \in ToSet(Orders(s)) : Good(with_devices(s, o), x) /\ x.ok
  BY DEF Found
<1> DEFINE c == with_devices(s, o)
           p == x.placement
           R == x.recovery
<1>2. Order(s, o)
  BY OrdersAreOrders
<1>3. /\ IsSpec(c) /\ c.devices = o /\ ToSet(o) \subseteq ToSet(s.devices)
      /\ Layers(c) = Layers(s) /\ c.backups = s.backups
  BY <1>2, CandidateCosts
<1>4. PICK e \in CutsTo(c, M(c), Layers(c)) : p = CutOf(c, e)
  BY <1>1 DEF Good
<1>5. /\ s.backups => DOMAIN R = ToSet(c.devices)
      /\ ~s.backups => DOMAIN R = {}
      /\ \A d \in DOMAIN R : R[d] \in ToSet(c.devices)
  BY <1>1, <1>3 DEF Good, Backs
<1> HIDE DEF c, p, R
<1>6. /\ Len(p) = M(c) /\ DOMAIN p = 1..M(c)
      /\ p[1].start = 1 /\ p[M(c)].end = Layers(c)
      /\ \A n \in 1..M(c) : p[n].start <= p[n].end
      /\ \A n \in 2..M(c) : p[n].start = p[n - 1].end + 1
      /\ \A k, n \in 1..M(c) : k # n => p[k].device # p[n].device
      /\ \A n \in 1..M(c) : p[n].device \in ToSet(c.devices)
      /\ \A d \in ToSet(c.devices) : \E n \in 1..M(c) : p[n].device = d
  <2>1. IsSpec(c) /\ e \in CutsTo(c, M(c), Layers(c)) /\ p = CutOf(c, e)
    BY <1>3, <1>4
  <2>2. PlacesAll(c, p)
    BY <2>1, CutIsWhole
  <2> QED
    BY <2>2 DEF PlacesAll
<1>7. {p[n].device : n \in DOMAIN p} = ToSet(c.devices)
  <2>1. \A n \in DOMAIN p : p[n].device \in ToSet(c.devices)
    BY <1>6
  <2>2. \A d \in ToSet(c.devices) : \E n \in DOMAIN p : p[n].device = d
    BY <1>6
  <2> QED
    BY <2>1, <2>2
<1>8. {p[n].device : n \in DOMAIN p} \cup Range(R) \subseteq ToSet(s.devices)
  BY <1>3, <1>5, <1>7 DEF Range
<1>9. DOMAIN R \in {{}, {p[n].device : n \in DOMAIN p}}
  BY <1>5, <1>7
<1>11. DOMAIN R # {} <=> s.backups
  <2>1. ToSet(c.devices) # {}
    <3>1. M(c) \in Nat \ {0}
      BY <1>3, SpecOrder
    <3>2. 1 \in 1..M(c)
      BY <3>1
    <3> QED
      BY <1>6, <3>2
  <2> QED
    BY <1>5, <2>1
<1>10. /\ p[1].start = 1 /\ p[Len(p)].end = Layers(s)
       /\ \A n \in DOMAIN p : p[n].start <= p[n].end
       /\ \A n \in 2..Len(p) : p[n].start = p[n - 1].end + 1
       /\ \A m, n \in DOMAIN p : m # n => p[m].device # p[n].device
  BY <1>3, <1>6
<1> QED
  BY <1>1, <1>8, <1>9, <1>10, <1>11 DEF IsWhole, p, R

\* A placement is worth in the whole fleet what it is worth over its own devices.
LEMMA SameMemory ==
  ASSUME NEW s, IsSpec(s), NEW o, Order(s, o), NEW c, c = with_devices(s, o), NEW p, NEW R
  PROVE  /\ \A stage : StageBytes(s, stage) = StageBytes(c, stage)
         /\ \A d : UsedBy(s, p, d) = UsedBy(c, p, d)
         /\ \A d : backup_memory_for(s, d, R, p) = backup_memory_for(c, d, R, p)
<1>1. s.mem = c.mem
  BY CandidateCosts
<1>2. \A stage : StageBytes(s, stage) = StageBytes(c, stage)
  BY <1>1 DEF StageBytes
<1>3. \A d : UsedBy(s, p, d) = UsedBy(c, p, d)
  BY <1>2 DEF UsedBy
<1>4. [i \in DOMAIN p |-> StageBytes(s, p[i])] = [i \in DOMAIN p |-> StageBytes(c, p[i])]
  BY <1>2
<1>5. \A d : backup_memory_for(s, d, R, p) = backup_memory_for(c, d, R, p)
  BY <1>4 DEF backup_memory_for
<1> QED
  BY <1>2, <1>3, <1>5

LEMMA FitsEverywhere ==
  ASSUME NEW c, IsSpec(c), NEW p, Shape(c, p), NEW R, _memory_self_check(c, p, R), c.eager,
         \A d \in DOMAIN R : R[d] \in ToSet(c.devices), NEW d, Budget(c, d) \in Nat
  PROVE  UsedBy(c, p, d) + backup_memory_for(c, d, R, p) <= Budget(c, d)
<1>1. CASE d \in ToSet(c.devices)
  <2>1. PICK n \in 1..M(c) : c.devices[n] = d
    BY <1>1, SpecOrder
  <2>2. UsedBy(c, p, d) = StageBytes(c, p[n])
    BY <2>1, StageOfIs
  <2>3. p[n].device = d
    BY <2>1 DEF Shape
  <2>4. StageBytes(c, p[n]) + backup_memory_for(c, p[n].device, R, p) <= Budget(c, p[n].device)
    BY SelfCheckAlone
  <2> QED
    BY <2>2, <2>3, <2>4
<1>2. CASE d \notin ToSet(c.devices)
  <2>1. UsedBy(c, p, d) = 0
    BY <1>2, UsedByOther
  <2>2. {i \in DOMAIN p : p[i].device \in DOMAIN R /\ R[p[i].device] = d} = {}
    BY <1>2
  <2>3. backup_memory_for(c, d, R, p) = 0
    BY <2>2, SumOfNone DEF backup_memory_for
  <2> QED
    BY <2>1, <2>3
<1> QED
  BY <1>1, <1>2

\* Whatever a search finds fits, and crosses measured links only.
LEMMA FoundFits ==
  ASSUME NEW s, IsSpec(s), NEW x, Found(s, x), NEW p, p = x.placement, NEW R, R = x.recovery
  PROVE  /\ \A n \in DOMAIN p : /\ p[n].device \in ToSet(s.devices)
                                /\ StageBytes(s, p[n]) <= Budget(s, p[n].device)
         /\ s.eager => \A d \in ToSet(s.devices) :
              UsedBy(s, p, d) + backup_memory_for(s, d, R, p) <= Budget(s, d)
         /\ \A n \in 2..Len(p) : Measured(s, p[n - 1].device, p[n].device)
         /\ \A d \in DOMAIN R : Measured(s, R[d], d)
<1>1. PICK o \in ToSet(Orders(s)) : Good(with_devices(s, o), x) /\ x.ok
  BY DEF Found
<1> DEFINE c == with_devices(s, o)
<1>2. Order(s, o)
  BY OrdersAreOrders
<1>3. /\ IsSpec(c) /\ c.devices = o /\ ToSet(o) \subseteq ToSet(s.devices) /\ c.eager = s.eager
      /\ \A d : Budget(c, d) = Budget(s, d)
      /\ \A a, b : Measured(c, a, b) <=> Measured(s, a, b)
  BY <1>2, CandidateCosts
<1>4. /\ \A stage : StageBytes(s, stage) = StageBytes(c, stage)
      /\ \A d : UsedBy(s, p, d) = UsedBy(c, p, d)
      /\ \A d : backup_memory_for(s, d, R, p) = backup_memory_for(c, d, R, p)
  BY <1>2, SameMemory
<1>5. PICK e \in CutsTo(c, M(c), Layers(c)) :
        p = CutOf(c, e) /\ Allowed(c, << >>, << >>, CutOf(c, e))
  BY <1>1 DEF Good
<1>6. /\ _memory_self_check(c, p, R)
      /\ \A d \in DOMAIN R : R[d] \in ToSet(c.devices) /\ Measured(c, R[d], d)
  BY <1>1 DEF Good, Backs
<1> HIDE DEF c
<1>7. Shape(c, p)
  BY <1>3, <1>5, CutShape
<1>8. /\ Len(p) = M(c) /\ DOMAIN p = 1..M(c) /\ M(c) \in Nat
  BY <1>3, <1>7, ShapeLength, SpecOrder
<1>9. ASSUME NEW n \in DOMAIN p
      PROVE  /\ p[n].device \in ToSet(s.devices)
             /\ StageBytes(s, p[n]) <= Budget(s, p[n].device)
  <2>1. n \in 1..M(c)
    BY <1>8
  <2>2. p[n].device \in ToSet(c.devices)
    BY <1>3, <1>7, <2>1, SpecOrder DEF Shape
  <2>3. StageBytes(c, p[n]) <= Budget(c, p[n].device)
    BY <1>3, <1>6, <1>7, <2>1, SelfCheckAlone
  <2> QED
    BY <1>3, <1>4, <2>2, <2>3
<1>10. ASSUME s.eager, NEW d \in ToSet(s.devices)
       PROVE  UsedBy(s, p, d) + backup_memory_for(s, d, R, p) <= Budget(s, d)
  <2>1. Budget(c, d) \in Nat
    BY <1>3, BudgetIsNat
  <2>2. UsedBy(c, p, d) + backup_memory_for(c, d, R, p) <= Budget(c, d)
    BY <1>3, <1>6, <1>7, <1>10, <2>1, FitsEverywhere
  <2> QED
    BY <1>3, <1>4, <2>2
<1>11. ASSUME NEW n \in 2..Len(p)
       PROVE  Measured(s, p[n - 1].device, p[n].device)
  <2>1. n \in DOMAIN p /\ n > 1
    BY <1>8
  <2>2. Measured(c, p[n - 1].device, p[n].device)
    BY <1>5, <2>1 DEF Allowed
  <2> QED
    BY <1>3, <2>2
<1> QED
  BY <1>3, <1>6, <1>9, <1>10, <1>11

-----------------------------------------------------------------------------
(* Every action keeps it.                                                   *)

LEMMA SurvivorsAreOfTheFleet ==
  ASSUME NEW f, Fleet(f), NEW g \in Plannable(f)
  PROVE  ToSet(g.devices) \subseteq ToSet(f.devices)
<1>1. CASE g = f
  BY <1>1
<1>2. CASE g # f
  <2> DEFINE sequences == UNION {[1..k -> ToSet(f.devices)] : k \in DOMAIN f.devices}
  <2>1. PICK s \in sequences : g = [f EXCEPT !.devices = s, !.backups = FALSE]
    <3>1. g \in Survivors(f)
      BY <1>2 DEF Plannable
    <3> QED
      BY <3>1, Zenon DEF Survivors
  <2>2. PICK k \in DOMAIN f.devices : s \in [1..k -> ToSet(f.devices)]
    BY <2>1
  <2>3. DOMAIN f = {"devices", "hosts", "mem", "time", "total", "free", "rate", "lat",
                    "activation", "hop", "slo", "penalty", "concurrency", "pool", "mode",
                    "alpha", "eager", "backups", "subsets", "search"}
    BY DEF Fleet
  <2>4. g.devices = s
    BY <2>1, <2>3
  <2> QED
    BY <2>2, <2>4 DEF ToSet
<1> QED
  BY <1>1, <1>2

LEMMA InitiallyFine ==
  ASSUME Init
  PROVE  IInv
<1>1. Fleet(fleet)
  BY PlanningAssumption DEF Init
<1>2. Counters
  BY PlanningAssumption DEF Init, Counters, Planned, NoAnswer, _PROFILE_RPC_ATTEMPTS
<1>3. Profiled /\ Searching /\ Trying /\ Saving /\ Answered
  BY <1>1 DEF Init, Profiled, Searching, Trying, Saving, Answered
<1>4. FileIsWhole(cache) /\ FileIsWhole(tmp)
  BY DEF Init, NoFile, NotFound, FileIsWhole
<1> QED
  BY <1>2, <1>3, <1>4 DEF IInv

\* Outside of the search and before the answer little is to be shown.
LEMMA NotSearching ==
  ASSUME IInv, Counters', Profiled', pc' \in {"waiting", "layers", "failed"}, UNCHANGED fileVars
  PROVE  IInv'
<1>1. Searching' /\ Trying' /\ Saving' /\ Answered'
  BY DEF Searching, Trying, Saving, Answered
<1>2. cache' = cache /\ tmp' = tmp
  BY DEF fileVars
<1>3. FileIsWhole(cache)' /\ FileIsWhole(tmp)'
  BY <1>2 DEF IInv, FileIsWhole, IsWhole
<1> QED
  BY <1>1, <1>3 DEF IInv

LEMMA ProfilingKeeps ==
  ASSUME IInv,
         \/ \E d \in Planned : Heartbeat(d) \/ ProfileLayers(d) \/ ProfileFails(d)
         \/ AllHeard \/ WaitTimesOut \/ SearchFails
  PROVE  IInv'
<1>0. Counters /\ Profiled
  BY DEF IInv
<1>1. ASSUME NEW d \in Planned, Heartbeat(d)
      PROVE  IInv'
  <2>1. Counters'
    BY <1>0, <1>1 DEF Heartbeat, Counters, Planned
  <2>2. Profiled'
    BY <1>0, <1>1 DEF Heartbeat, Profiled
  <2> QED
    BY <1>1, <2>1, <2>2, NotSearching DEF Heartbeat
<1>2. ASSUME NEW d \in Planned, ProfileLayers(d)
      PROVE  IInv'
  <2>0. /\ pc = "layers" /\ attempt[d] < _PROFILE_RPC_ATTEMPTS
        /\ attempt' = [attempt EXCEPT ![d] = @ + 1] /\ profiled' \subseteq profiled \cup {d}
        /\ UNCHANGED <<pc, fleet, solves, crashes, heard, spec, answer, fileVars>>
    BY <1>2 DEF ProfileLayers
  <2>1. attempt' \in [Planned -> 0.._PROFILE_RPC_ATTEMPTS]
    BY <1>0, <2>0 DEF Counters, _PROFILE_RPC_ATTEMPTS
  <2>2. Counters'
    BY <1>0, <2>0, <2>1 DEF Counters, Planned
  <2>3. Profiled'
    BY <1>0, <2>0 DEF Profiled
  <2> QED
    BY <2>0, <2>2, <2>3, NotSearching
<1>3. ASSUME Abort
      PROVE  IInv'
  <2>1. Counters'
    BY <1>0, <1>3 DEF Abort, Counters, Planned, profileVars
  <2>2. Profiled'
    BY <1>3 DEF Abort, Profiled
  <2> QED
    BY <1>3, <2>1, <2>2, NotSearching DEF Abort
<1>4. ASSUME AllHeard
      PROVE  IInv'
  <2>1. Counters'
    BY <1>0, <1>4 DEF AllHeard, Counters, Planned, profileVars
  <2>2. Profiled'
    BY <1>0, <1>4 DEF AllHeard, Profiled
  <2> QED
    BY <1>4, <2>1, <2>2, NotSearching DEF AllHeard
<1> QED
  BY <1>1, <1>2, <1>3, <1>4 DEF ProfileFails, WaitTimesOut, SearchFails

\* A new plan, of the fleet or of what is left of it.
LEMMA FreshKeeps ==
  ASSUME IInv, NEW g \in Plannable(fleet), NEW c \in Drifted(g), Fresh(c),
         heard' \subseteq ToSet(fleet.devices), crashes' \in 0..MaxCrashes,
         answer'.from \in {"none", "cache", "search"}, UNCHANGED fileVars
  PROVE  IInv'
<1>0. Counters /\ Fleet(fleet)
  BY PlanningAssumption DEF IInv, Counters
<1>1. Fleet(c) /\ c.devices = g.devices
  BY <1>0, PlanningAssumption DEF Counters
<1>2. ToSet(c.devices) \subseteq ToSet(fleet.devices)
  BY <1>0, <1>1, SurvivorsAreOfTheFleet
<1>3. /\ pc' = "waiting" /\ spec' = c /\ fleet' = fleet /\ profiled' = {}
      /\ attempt' = [d \in ToSet(c.devices) |-> 0] /\ solves' = solves + 1 /\ solves < MaxSolves
  BY DEF Fresh
<1>4. solves' \in 1..MaxSolves
  BY <1>0, <1>3, PlanningAssumption DEF Counters
<1>5. attempt' \in [ToSet(c.devices) -> 0.._PROFILE_RPC_ATTEMPTS]
  BY <1>3 DEF _PROFILE_RPC_ATTEMPTS
<1>6. Counters'
  BY <1>0, <1>2, <1>3, <1>4, <1>5 DEF Counters, Planned
<1>7. Profiled'
  BY <1>1, <1>3 DEF Profiled
<1> QED
  BY <1>3, <1>6, <1>7, NotSearching

LEMMA StartingKeeps ==
  ASSUME IInv, Crash \/ Reconfigure
  PROVE  IInv'
<1>0. Counters
  BY DEF IInv
<1>1. CASE Crash
  <2>1. PICK c \in Drifted(fleet) : Fresh(c)
    BY <1>1 DEF Crash
  <2>2. fleet \in Plannable(fleet)
    BY DEF Plannable
  <2>3. /\ heard' \subseteq ToSet(fleet.devices) /\ answer'.from \in {"none", "cache", "search"}
        /\ UNCHANGED fileVars
    BY <1>1 DEF Crash, NoAnswer
  <2>4. crashes' \in 0..MaxCrashes
    BY <1>0, <1>1, PlanningAssumption DEF Crash, Counters
  <2> QED
    BY <2>1, <2>2, <2>3, <2>4, FreshKeeps
<1>2. CASE Reconfigure
  <2>1. PICK g \in Plannable(fleet) : \E c \in Drifted(g) : Fresh(c)
    BY <1>2 DEF Reconfigure, Plannable
  <2>2. PICK c \in Drifted(g) : Fresh(c)
    BY <2>1
  <2>3. /\ heard' \subseteq ToSet(fleet.devices) /\ answer'.from \in {"none", "cache", "search"}
        /\ UNCHANGED fileVars /\ crashes' \in 0..MaxCrashes
    BY <1>0, <1>2 DEF Reconfigure, Counters
  <2> QED
    BY <2>2, <2>3, FreshKeeps
<1> QED
  BY <1>1, <1>2

LEMMA TailOf ==
  ASSUME NEW S, NEW q \in Seq(S), q # << >>
  PROVE  /\ q[1] \in S /\ q[1] \in ToSet(q) /\ Tail(q) \in Seq(S)
         /\ \A o \in ToSet(q) : o = q[1] \/ o \in ToSet(Tail(q))
<1>1. Len(q) \in Nat \ {0} /\ 1 \in 1..Len(q) /\ DOMAIN q = 1..Len(q)
  BY EmptySeq
<1>2. /\ Tail(q) \in Seq(S) /\ Len(Tail(q)) = Len(q) - 1
      /\ \A i \in 1..(Len(q) - 1) : Tail(q)[i] = q[i + 1]
  BY HeadTailProperties
<1>3. ASSUME NEW i \in 1..Len(q), i # 1
      PROVE  q[i] \in ToSet(Tail(q))
  <2>1. i - 1 \in 1..(Len(q) - 1) /\ (i - 1) + 1 = i
    BY <1>1, <1>3
  <2>2. Tail(q)[i - 1] = q[i]
    BY <1>2, <2>1
  <2> DEFINE t == Tail(q)
  <2>3. i - 1 \in DOMAIN t /\ t[i - 1] = q[i]
    BY <1>2, <2>1, <2>2
  <2> HIDE DEF t
  <2>4. q[i] \in ToSet(t)
    BY <2>3 DEF ToSet
  <2> QED
    BY <2>4 DEF t
<1>4. \A o \in ToSet(q) : o = q[1] \/ o \in ToSet(Tail(q))
  BY <1>1, <1>3 DEF ToSet
<1> QED
  BY <1>1, <1>2, <1>4 DEF ToSet

LEMMA CollectingKeeps ==
  ASSUME IInv, CollectNetwork
  PROVE  IInv'
<1>0. Counters /\ Fleet(spec) /\ FileIsWhole(cache) /\ FileIsWhole(tmp)
  BY DEF IInv, Profiled, CollectNetwork
<1> DEFINE hit(c) == cache.result.ok /\ cache.fp = compute_fingerprint(c)
<1>1. PICK failed : /\ spec' = ClusterSpec(spec, failed)
                    /\ IF hit(ClusterSpec(spec, failed))
                       THEN /\ answer' = [from |-> "cache", result |-> cache.result]
                            /\ pc' = "done"
                            /\ UNCHANGED searchVars
                       ELSE /\ orders' = Orders(ClusterSpec(spec, failed))
                            /\ alt' = NoSearch /\ best' = NotFound
                            /\ pc' = "next"
                            /\ UNCHANGED answer
  BY DEF CollectNetwork
<1> DEFINE c == ClusterSpec(spec, failed)
<1>2. IsSpec(c) /\ c.devices = spec.devices
  <2> DEFINE d == ClusterSpec(spec, failed)
  <2>1. d = ClusterSpec(spec, failed)
    OBVIOUS
  <2> HIDE DEF d
  <2>2. IsSpec(d) /\ Kept(d, spec)
    BY <1>0, <2>1, ProfiledIsSpec
  <2> QED
    BY <2>1, <2>2 DEF Kept
<1>3. /\ spec' = c /\ UNCHANGED <<fleet, solves, crashes, profileVars, fileVars>>
  BY <1>1 DEF CollectNetwork
<1> HIDE DEF c
<1>4. pc' \in {"next", "done"} /\ answer'.from \in {"none", "cache", "search"}
  BY <1>0, <1>1 DEF Counters
<1>5. Counters'
  BY <1>0, <1>2, <1>3, <1>4 DEF Counters, Planned, profileVars
<1>6. Profiled'
  BY <1>2, <1>3, <1>4 DEF Profiled
<1>7. FileIsWhole(cache)' /\ FileIsWhole(tmp)'
  BY <1>0, <1>3 DEF FileIsWhole, IsWhole, fileVars
<1>8. CASE hit(c)
  <2>1. /\ answer' = [from |-> "cache", result |-> cache.result] /\ pc' = "done"
    BY <1>1, <1>8 DEF c
  <2>2. answer'.from = "cache" /\ answer'.result = cache.result
    BY <2>1
  <2>3. cache.fp.devices = ToSet(c.devices) /\ cache.fp.layers = Layers(c) /\ cache.result.ok
    BY <1>8 DEF compute_fingerprint
  <2>4. IsWhole(ToSet(c.devices), Layers(c), cache.result)
    BY <1>0, <2>3 DEF FileIsWhole
  <2>5. IsWhole(ToSet(spec'.devices), Layers(spec'), answer'.result)
    BY <1>3, <2>2, <2>4
  <2>6. Answered'
    BY <2>2, <2>5 DEF Answered, Planned
  <2>7. Searching' /\ Trying' /\ Saving'
    BY <2>1 DEF Searching, Trying, Saving
  <2> QED
    BY <1>5, <1>6, <1>7, <2>6, <2>7 DEF IInv
<1>9. CASE ~hit(c)
  <2>1. orders' = Orders(c) /\ best' = NotFound /\ pc' = "next"
    BY <1>1, <1>9 DEF c
  <2>2. orders' \in Seq(ToSet(Orders(spec')))
    BY <1>2, <1>3, <2>1, OrdersAreOrders
  <2>3. best'.ok = FALSE
    BY <2>1 DEF NotFound
  <2>4. CoversAllBut(spec', ToSet(orders'), best')
    BY <1>3, <2>1 DEF CoversAllBut
  <2>5. Searching'
    BY <2>2, <2>3, <2>4 DEF Searching
  <2>6. Trying' /\ Saving' /\ Answered'
    BY <2>1 DEF Trying, Saving, Answered
  <2> QED
    BY <1>5, <1>6, <1>7, <2>5, <2>6 DEF IInv
<1> QED
  BY <1>8, <1>9

\* In the search the fleet and the files stay what they are.
LEMMA Steady ==
  ASSUME IInv, pc \in {"next", "alternate", "rename"},
         pc' \in {"next", "alternate", "rename", "done"},
         UNCHANGED <<fleet, solves, crashes, profileVars, spec>>,
         answer'.from \in {"none", "cache", "search"}
  PROVE  Counters' /\ Profiled' /\ IsSpec(spec) /\ Searching /\ Trying /\ Saving
<1>1. Counters'
  BY DEF IInv, Counters, Planned, profileVars
<1>2. IsSpec(spec)
  BY DEF IInv, Profiled
<1>3. Profiled'
  BY <1>2 DEF Profiled
<1> QED
  BY <1>1, <1>2, <1>3 DEF IInv

LEMMA SameFiles ==
  ASSUME IInv, UNCHANGED fileVars
  PROVE  FileIsWhole(cache)' /\ FileIsWhole(tmp)'
  BY DEF IInv, FileIsWhole, IsWhole, fileVars

LEMMA NextCandidateKeeps ==
  ASSUME IInv, NextCandidate
  PROVE  IInv'
<1>0. /\ pc = "next" /\ orders # << >> /\ UNCHANGED <<fleet, solves, crashes, profileVars, spec>>
      /\ UNCHANGED <<best, answer, fileVars>> /\ pc' \in {"next", "alternate"}
  BY DEF NextCandidate
<1>1. Counters' /\ Profiled' /\ IsSpec(spec) /\ Searching
  <2>1. answer'.from \in {"none", "cache", "search"}
    BY <1>0 DEF IInv, Counters
  <2> QED
    BY <1>0, <2>1, Steady
<1>2. FileIsWhole(cache)' /\ FileIsWhole(tmp)'
  BY <1>0, SameFiles
<1> DEFINE T == ToSet(Orders(spec))
           o == orders[1]
<1>3. /\ orders \in Seq(T) /\ best.ok \in BOOLEAN /\ (best.ok => Found(spec, best))
      /\ CoversAllBut(spec, ToSet(orders), best)
  BY <1>0, <1>1 DEF Searching
<1>4. /\ o \in T /\ Tail(orders) \in Seq(T)
      /\ \A i \in ToSet(orders) : i = o \/ i \in ToSet(Tail(orders))
  <2> HIDE DEF T
  <2> QED
    BY <1>0, <1>3, TailOf
<1>5. Order(spec, o)
  BY <1>1, <1>4, OrdersAreOrders
<1>6. Saving' /\ Answered'
  BY <1>0 DEF Saving, Answered
<1>7. CASE Layers(spec) < Len(orders[1])
  <2>1. orders' = Tail(orders) /\ pc' = pc
    BY <1>7 DEF NextCandidate
  <2>2. Covers(spec, o, best)
    BY <1>1, <1>5, <1>7, TooManyDevices
  <2>3. CoversAllBut(spec, ToSet(orders'), best)
    BY <1>3, <1>4, <2>1, <2>2 DEF CoversAllBut
  <2>4. Searching'
    BY <1>0, <1>3, <1>4, <2>1, <2>3 DEF Searching
  <2>5. Trying'
    BY <1>0, <2>1 DEF Trying
  <2> QED
    BY <1>1, <1>2, <1>6, <2>4, <2>5 DEF IInv
<1>8. CASE ~(Layers(spec) < Len(orders[1]))
  <2>1. alt' = Start(Candidate) /\ pc' = "alternate" /\ orders' = orders
    BY <1>8 DEF NextCandidate
  <2>2. IsSpec(Candidate) /\ M(Candidate) = Len(o) /\ Layers(Candidate) = Layers(spec)
    BY <1>1, <1>5, CandidateCosts DEF Candidate
  <2>3. M(Candidate) <= Layers(Candidate)
    <3>1. M(Candidate) \in Nat /\ Layers(Candidate) \in Nat
      BY <2>2, SpecOrder, KnobTypes DEF IsSpec
    <3> DEFINE a == M(Candidate)
               b == Layers(Candidate)
    <3>2. a \in Nat /\ b \in Nat /\ ~(b < a)
      BY <1>8, <2>2, <3>1
    <3> HIDE DEF a, b
    <3>3. a <= b
      BY <3>2
    <3> QED
      BY <3>3 DEF a, b
  <2>4. Alternating(Candidate, alt')
    BY <2>1, <2>2, <2>3, StartAlternates
  <2>5. Candidate' = Candidate
    BY <1>0, <2>1 DEF Candidate
  <2>6. Trying'
    BY <1>0, <2>1, <2>3, <2>4, <2>5 DEF Trying
  <2>7. Searching'
    BY <1>0, <1>3, <2>1 DEF Searching
  <2> QED
    BY <1>1, <1>2, <1>6, <2>6, <2>7 DEF IInv
<1> QED
  BY <1>7, <1>8

LEMMA AlternateKeeps ==
  ASSUME IInv, Alternate
  PROVE  IInv'
<1>0. /\ pc = "alternate" /\ ~alt.over /\ alt' = Iterate(Candidate, alt) /\ pc' = "alternate"
      /\ UNCHANGED <<fleet, solves, crashes, profileVars, spec, orders, best, answer, fileVars>>
  BY DEF Alternate
<1>1. Counters' /\ Profiled' /\ IsSpec(spec) /\ Searching /\ Trying
  <2>1. answer'.from \in {"none", "cache", "search"}
    BY <1>0 DEF IInv, Counters
  <2> QED
    BY <1>0, <2>1, Steady
<1>2. FileIsWhole(cache)' /\ FileIsWhole(tmp)'
  BY <1>0, SameFiles
<1>3. /\ orders # << >> /\ M(Candidate) <= Layers(Candidate) /\ Alternating(Candidate, alt)
      /\ orders \in Seq(ToSet(Orders(spec)))
  BY <1>0, <1>1 DEF Trying, Searching
<1>4. IsSpec(Candidate)
  <2> DEFINE T == ToSet(Orders(spec))
  <2>1. orders \in Seq(T)
    BY <1>3
  <2> HIDE DEF T
  <2>2. orders[1] \in T
    BY <1>3, <2>1, TailOf
  <2>3. Order(spec, orders[1])
    BY <1>1, <2>2, OrdersAreOrders DEF T
  <2> QED
    BY <1>1, <2>3, CandidateIsSpec DEF Candidate
<1>5. Alternating(Candidate, alt')
  BY <1>0, <1>3, <1>4, IterateAlternates
<1>6. Candidate' = Candidate
  BY <1>0 DEF Candidate
<1>7. Trying'
  BY <1>0, <1>3, <1>5, <1>6 DEF Trying
<1>8. Searching' /\ Saving' /\ Answered'
  BY <1>0, <1>1 DEF Searching, Saving, Answered
<1> QED
  BY <1>1, <1>2, <1>7, <1>8 DEF IInv

\* The alternation a over the order o, which is c, has ended.
Ended(s, o, c, a) ==
  /\ IsSpec(s) /\ o \in ToSet(Orders(s)) /\ c = with_devices(s, o)
  /\ M(c) <= Layers(c) /\ Alternating(c, a) /\ a.over

\* A result that the order o may end with.
EndsWith(s, o, y) ==
  /\ y.ok \in BOOLEAN /\ (y.ok => Found(s, y))
  /\ ~s.backups /\ s.mode # "blended" => Covers(s, o, y)

\* What the alternation over the order o has answered covers o.
LEMMA AnsweredCandidate ==
  ASSUME NEW s, NEW o, NEW c, NEW a, Ended(s, o, c, a)
  PROVE  EndsWith(s, o, a.answer)
<1> DEFINE y == a.answer
<1>0. /\ IsSpec(s) /\ o \in ToSet(Orders(s)) /\ c = with_devices(s, o)
      /\ M(c) <= Layers(c) /\ Alternating(c, a) /\ a.over
  BY DEF Ended
<1>1. /\ y.ok \in BOOLEAN /\ (y.ok => Good(c, y)) /\ y.converged \in BOOLEAN
      /\ (y.converged => y.recovery = TableFor(c, y.placement).R)
      /\ ~c.backups /\ c.mode # "blended" => Exact(c, y)
  BY <1>0 DEF Alternating
<1> HIDE DEF y
<1>2. Order(s, o)
  BY <1>0, OrdersAreOrders
<1>3. c.backups = s.backups /\ c.mode = s.mode
  BY <1>0, <1>2, CandidateCosts
<1>4. ASSUME y.ok
      PROVE  Found(s, y)
  <2>1. /\ M(c) <= Layers(c) /\ Good(c, y)
        /\ y.ok \in BOOLEAN /\ y.ok /\ y.converged \in BOOLEAN
        /\ y.converged => y.recovery = TableFor(c, y.placement).R
    BY <1>0, <1>1, <1>4
  <2> QED
    BY <1>0, <2>1 DEF Found
<1>5. ASSUME ~s.backups, s.mode # "blended"
      PROVE  Covers(s, o, y)
  BY <1>0, <1>1, <1>2, <1>3, <1>5, ExactCovers
<1> QED
  BY <1>1, <1>4, <1>5 DEF EndsWith, y

LEMMA CompareKeeps ==
  ASSUME IInv, Compare
  PROVE  IInv'
<1>0. /\ pc = "alternate" /\ alt.over /\ orders' = Tail(orders) /\ pc' = "next"
      /\ best' = IF alt.answer.ok /\ Better(spec, alt.answer, best) THEN alt.answer ELSE best
      /\ UNCHANGED <<fleet, solves, crashes, profileVars, spec, answer, fileVars>>
  BY DEF Compare
<1>1. Counters' /\ Profiled' /\ IsSpec(spec) /\ Searching /\ Trying
  <2>1. answer'.from \in {"none", "cache", "search"}
    BY <1>0 DEF IInv, Counters
  <2> QED
    BY <1>0, <2>1, Steady
<1>2. FileIsWhole(cache)' /\ FileIsWhole(tmp)'
  BY <1>0, SameFiles
<1> DEFINE T == ToSet(Orders(spec))
           o == orders[1]
<1>3. /\ orders # << >> /\ M(Candidate) <= Layers(Candidate) /\ Alternating(Candidate, alt)
      /\ orders \in Seq(T) /\ best.ok \in BOOLEAN /\ (best.ok => Found(spec, best))
      /\ CoversAllBut(spec, ToSet(orders), best)
  BY <1>0, <1>1 DEF Trying, Searching
<1>4. /\ o \in T /\ Tail(orders) \in Seq(T)
      /\ \A i \in ToSet(orders) : i = o \/ i \in ToSet(Tail(orders))
  <2> HIDE DEF T
  <2> QED
    BY <1>3, TailOf
<1> DEFINE y == alt.answer
<1>5. /\ y.ok \in BOOLEAN /\ (y.ok => Found(spec, y))
      /\ ~spec.backups /\ spec.mode # "blended" => Covers(spec, o, y)
  <2>1. Candidate = with_devices(spec, o)
    BY DEF Candidate
  <2> HIDE DEF o, y
  <2>2. y = alt.answer
    BY DEF y
  <2> DEFINE c == Candidate
  <2>3. Ended(spec, o, c, alt)
    BY <1>0, <1>1, <1>3, <1>4, <2>1 DEF Ended
  <2> HIDE DEF c
  <2>4. EndsWith(spec, o, y)
    BY <2>2, <2>3, AnsweredCandidate
  <2> QED
    BY <2>4 DEF EndsWith
<1> DEFINE z == best'
<1>6. z = IF y.ok /\ Better(spec, y, best) THEN y ELSE best
  BY <1>0
<1> HIDE DEF y, z, o
<1>7. /\ z.ok \in BOOLEAN /\ (z.ok => Found(spec, z))
      /\ \A i : Order(spec, i) /\ (Covers(spec, i, best) \/ Covers(spec, i, y)) => Covers(spec, i, z)
  BY <1>1, <1>3, <1>5, <1>6, TheBetterOne
<1>8. \A i \in T : Order(spec, i)
  BY <1>1, OrdersAreOrders
<1>9. CoversAllBut(spec, ToSet(orders'), z)
  BY <1>0, <1>3, <1>4, <1>5, <1>7, <1>8 DEF CoversAllBut
<1>10. spec' = spec
  BY <1>0
<1>11. Searching'
  BY <1>0, <1>4, <1>7, <1>9, <1>10 DEF Searching, z
<1>12. Trying' /\ Saving' /\ Answered'
  BY <1>0 DEF Trying, Saving, Answered
<1> QED
  BY <1>1, <1>2, <1>11, <1>12 DEF IInv

LEMMA WriteTmpKeeps ==
  ASSUME IInv, WriteTmp
  PROVE  IInv'
<1>0. /\ pc = "next" /\ orders = << >> /\ best.ok /\ pc' = "rename"
      /\ tmp' = [fp |-> compute_fingerprint(spec), result |-> best]
      /\ UNCHANGED <<fleet, solves, crashes, profileVars, spec, orders, best, answer, cache>>
  BY DEF WriteTmp, searchVars
<1>1. Counters' /\ Profiled' /\ IsSpec(spec) /\ Searching
  <2>1. answer'.from \in {"none", "cache", "search"}
    BY <1>0 DEF IInv, Counters
  <2> QED
    BY <1>0, <2>1, Steady
<1>2. best.ok \in BOOLEAN /\ Found(spec, best)
  BY <1>0, <1>1 DEF Searching
<1>3. /\ tmp'.result = best /\ tmp'.fp.devices = ToSet(spec.devices)
      /\ tmp'.fp.layers = Layers(spec)
  BY <1>0 DEF compute_fingerprint
<1>4. IsWhole(ToSet(spec.devices), Layers(spec), best)
  BY <1>1, <1>2, FoundIsWhole
<1>5. FileIsWhole(tmp')
  BY <1>2, <1>3, <1>4 DEF FileIsWhole
<1>6. FileIsWhole(tmp)'
  BY <1>5 DEF FileIsWhole, IsWhole
<1>7. FileIsWhole(cache)'
  BY <1>0 DEF IInv, FileIsWhole, IsWhole
<1>8. Searching'
  BY <1>0, <1>1 DEF Searching
<1>9. Saving' /\ Trying' /\ Answered'
  BY <1>0, <1>3 DEF Saving, Trying, Answered
<1> QED
  BY <1>1, <1>6, <1>7, <1>8, <1>9 DEF IInv

LEMMA RenameKeeps ==
  ASSUME IInv, Rename
  PROVE  IInv'
<1>0. /\ pc = "rename" /\ cache' = tmp /\ tmp' = NoFile /\ pc' = "done"
      /\ answer' = [from |-> "search", result |-> best]
      /\ UNCHANGED <<fleet, solves, crashes, profileVars, spec, orders, best>>
  BY DEF Rename, searchVars
<1>1. answer'.from = "search" /\ answer'.result = best
  BY <1>0
<1>2. Counters' /\ Profiled' /\ IsSpec(spec) /\ Searching /\ Saving
  <2>1. answer'.from \in {"none", "cache", "search"}
    BY <1>1
  <2> QED
    BY <1>0, <2>1, Steady
<1>3. best.ok /\ Found(spec, best) /\ orders = << >> /\ CoversAllBut(spec, ToSet(orders), best)
  BY <1>0, <1>2 DEF Searching, Saving
<1>4. ToSet(orders) = {}
  BY <1>3 DEF ToSet
<1>5. CoversAllBut(spec, {}, best)
  BY <1>3, <1>4
<1>6. IsWhole(ToSet(spec.devices), Layers(spec), best) /\ (DOMAIN best.recovery # {} <=> spec.backups)
  BY <1>2, <1>3, FoundIsWhole
<1>7. /\ IsWhole(ToSet(spec'.devices), Layers(spec'), answer'.result)
      /\ Found(spec', answer'.result) /\ CoversAllBut(spec', {}, answer'.result)
      /\ DOMAIN answer'.result.recovery # {} <=> spec'.backups
  <2>1. spec' = spec
    BY <1>0
  <2> QED
    BY <1>1, <1>3, <1>5, <1>6, <2>1
<1>8. Answered'
  BY <1>7 DEF Answered, Planned
<1>9. Searching' /\ Trying' /\ Saving'
  BY <1>0 DEF Searching, Trying, Saving
<1>10. FileIsWhole(cache)'
  BY <1>0 DEF IInv, FileIsWhole, IsWhole
<1>11. FileIsWhole(tmp)'
  BY <1>0 DEF NoFile, NotFound, FileIsWhole
<1> QED
  BY <1>2, <1>8, <1>9, <1>10, <1>11 DEF IInv

LEMMA StandingStill ==
  ASSUME IInv, UNCHANGED vars
  PROVE  IInv'
<1>0. UNCHANGED <<pc, fleet, solves, crashes, heard, attempt, profiled, spec, orders,
                  alt, best, answer, cache, tmp>>
  BY DEF vars
<1>1. Counters' /\ Profiled'
  BY <1>0 DEF IInv, Counters, Planned, Profiled
<1>2. FileIsWhole(cache)' /\ FileIsWhole(tmp)'
  BY <1>0, SameFiles DEF fileVars
<1>3. Candidate' = Candidate
  BY <1>0 DEF Candidate
<1>4. Searching' /\ Saving' /\ Answered'
  BY <1>0 DEF IInv, Searching, Saving, Answered, Planned
<1>5. Trying'
  BY <1>0, <1>3 DEF IInv, Trying
<1> QED
  BY <1>1, <1>2, <1>4, <1>5 DEF IInv

LEMMA EveryStepKeeps ==
  ASSUME IInv, [Next]_vars
  PROVE  IInv'
  BY ProfilingKeeps, CollectingKeeps, NextCandidateKeeps, AlternateKeeps, CompareKeeps,
     WriteTmpKeeps, RenameKeeps, StartingKeeps, StandingStill DEF Next, Idle

LEMMA PlanInvariant == Spec => []IInv
<1>1. Init => IInv
  BY InitiallyFine
<1>2. IInv /\ [Next]_vars => IInv'
  BY EveryStepKeeps
<1> QED
  BY <1>1, <1>2, PTL DEF Spec

-----------------------------------------------------------------------------
(* The properties.                                                          *)

\* The candidate that is tried is a specification.
LEMMA CandidateIs ==
  ASSUME IInv, pc = "alternate"
  PROVE  /\ IsSpec(spec) /\ IsSpec(Candidate) /\ M(Candidate) <= Layers(Candidate)
         /\ Candidate.mode = spec.mode /\ Candidate.backups = spec.backups
         /\ orders # << >> /\ Alternating(Candidate, alt)
<1> DEFINE T == ToSet(Orders(spec))
<1>1. /\ IsSpec(spec) /\ orders \in Seq(T) /\ orders # << >>
      /\ M(Candidate) <= Layers(Candidate) /\ Alternating(Candidate, alt)
  BY DEF IInv, Profiled, Searching, Trying
<1>2. orders[1] \in T
  <2> HIDE DEF T
  <2> QED
    BY <1>1, TailOf
<1>3. Order(spec, orders[1])
  BY <1>1, <1>2, OrdersAreOrders
<1> QED
  BY <1>1, <1>3, CandidateCosts DEF Candidate

\* Every variable of the planning thread keeps its type, through profiling,
\* search, crashes and re-placements; a plan is never in the middle of an
\* alternation without a candidate, and an alternation never runs over its ten
\* iterations.
THEOREM TypeCorrect == Spec => []TypeOK
<1>1. IInv => TypeOK
  <2> SUFFICES ASSUME IInv PROVE TypeOK
    OBVIOUS
  <2>1. pc = "alternate" => orders # << >> /\ alt.iter \in 1..(max_iterations + 1)
    BY CandidateIs DEF Alternating
  <2>2. cache.result.ok \in BOOLEAN /\ tmp.result.ok \in BOOLEAN
    BY DEF IInv, FileIsWhole
  <2> QED
    BY <2>1, <2>2 DEF IInv, Counters, TypeOK
<1> QED
  BY <1>1, PlanInvariant, PTL

\* What the DP answers is an allowed cut that costs what it says, and no other
\* allowed cut is cheaper.
IsOptimal(c, R, ref, cell) ==
  LET allowed == {e \in Cuts(c) : Allowed(c, R, ref, Placed(c.devices, e))}
  IN IF cell = Empty THEN allowed = {}
     ELSE /\ cell.ends \in allowed
          /\ _rank(c, cell) = CutRank(c, Placed(c.devices, cell.ends))
          /\ \A e \in allowed : _rank(c, cell) <= CutRank(c, Placed(c.devices, e))

LEMMA ForwardIsOptimal ==
  ASSUME NEW c, IsSpec(c), M(c) <= Layers(c), c.mode # "blended", NEW R, NEW ref,
         NEW cell, cell = _forward(c, R, ref)
  PROVE  IsOptimal(c, R, ref, cell)
<1>1. /\ Sound(c, R, ref, M(c), Layers(c), cell)
      /\ Cheapest(c, R, ref, M(c), Layers(c), cell)
  BY ForwardIsBest
<1> DEFINE A == {e \in CutsTo(c, M(c), Layers(c)) : Allowed(c, R, ref, CutOf(c, e))}
<1>2. {e \in Cuts(c) : Allowed(c, R, ref, Placed(c.devices, e))} = A
  BY DEF Cuts, CutsTo, CutOf
<1>3. \A e \in A : cell # Empty /\ _rank(c, cell) <= CutRank(c, CutOf(c, e))
  BY <1>1 DEF Cheapest
<1>4. cell # Empty => cell.ends \in A /\ _rank(c, cell) = CutRank(c, CutOf(c, cell.ends))
  BY <1>1, RankIsCutRank DEF Sound, IsSpec
<1> HIDE DEF A
<1> QED
  BY <1>2, <1>3, <1>4 DEF IsOptimal, CutOf

\* The DP of scheduler.py is optimal for every fleet, order, recovery table and
\* reference placement: when it raises, no cut of the layers is allowed, and what
\* it answers is allowed, costs what it reports and no allowed cut costs less (in
\* the throughput and the latency mode; with a weighted sum it is not).
THEOREM DPIsAlwaysOptimal == Spec => []DPIsOptimal
<1>1. IInv => DPIsOptimal
  <2> SUFFICES ASSUME IInv, pc = "alternate", alt.ref # << >>, spec.mode # "blended"
               PROVE  IsOptimal(Candidate, alt.r.R, alt.ref, alt.cell)
    BY DEF DPIsOptimal, IsOptimal
  <2> DEFINE c == Candidate
  <2>1. /\ IsSpec(c) /\ M(c) <= Layers(c) /\ c.mode # "blended"
        /\ alt.cell = _forward(c, alt.r.R, alt.ref)
    BY CandidateIs DEF Alternating
  <2> HIDE DEF c
  <2>2. IsOptimal(c, alt.r.R, alt.ref, alt.cell)
    BY <2>1, ForwardIsOptimal
  <2> QED
    BY <2>2 DEF c
<1> QED
  BY <1>1, PlanInvariant, PTL

\* A recovery table that the search works with gives every stage of its reference
\* placement a backup on another device, and all the backups one host is given
\* fit it together, next to its own stage: the greedy assignment of
\* recovery_table.py never promises the same memory twice.
THEOREM BackupsAlwaysFitTogether == Spec => []BackupsFitTogether
<1>1. IInv => BackupsFitTogether
  <2> SUFFICES ASSUME IInv, pc = "alternate", alt.r.ok, spec.backups
               PROVE  LET c == Candidate
                          R == alt.r.R
                      IN /\ DOMAIN R = {alt.ref[i].device : i \in DOMAIN alt.ref}
                         /\ \A d \in DOMAIN R : R[d] # d
                         /\ c.eager => \A k \in Range(R) :
                              UsedBy(c, alt.ref, k) + backup_memory_for(c, k, R, alt.ref)
                                <= Budget(c, k)
    BY DEF BackupsFitTogether
  <2> DEFINE c == Candidate
             R == alt.r.R
             p == alt.ref
  <2>1. IsSpec(c) /\ c.backups /\ Shape(c, p) /\ alt.r = TableFor(c, p) /\ alt.r.ok
    BY CandidateIs DEF Alternating
  <2> HIDE DEF c, p
  <2>2. TableFits(c, p, R)
    BY <2>1, TableForIsFit
  <2>3. DOMAIN R = {p[i].device : i \in DOMAIN p}
    <3>1. DOMAIN p = 1..M(c) /\ \A i \in 1..M(c) : p[i].device = c.devices[i]
      BY <2>1 DEF Shape
    <3>2. /\ \A d \in ToSet(c.devices) : \E i \in 1..M(c) : c.devices[i] = d
          /\ \A i \in 1..M(c) : c.devices[i] \in ToSet(c.devices)
      BY <2>1, SpecOrder
    <3>3. DOMAIN R = ToSet(c.devices)
      BY <2>2 DEF TableFits
    <3> QED
      BY <3>1, <3>2, <3>3
  <2>4. /\ \A d \in DOMAIN R : R[d] # d
        /\ c.eager => \A k \in Range(R) :
             UsedBy(c, p, k) + backup_memory_for(c, k, R, p) <= Budget(c, k)
    BY <2>2 DEF TableFits, Range
  <2> QED
    BY <2>3, <2>4 DEF c, p
<1> QED
  BY <1>1, PlanInvariant, PTL

\* What the coordinator ends a plan with, be it searched or out of the cache file
\* of an earlier run, places every layer exactly once and in order, on devices of
\* the fleet that was planned for, and backs up all of its stages or none; a search
\* backs them up when it was asked to and only then.
THEOREM AnswerIsAlwaysWhole == Spec => []AnswerIsWhole
<1>1. IInv => AnswerIsWhole
  BY DEF IInv, Answered, IsWhole, AnswerIsWhole
<1> QED
  BY <1>1, PlanInvariant, PTL

\* No device of a searched placement is given more than its memory: its own
\* stage and every backup it must keep loaded fit together, and no activation and
\* no backup is sent over a pair that could not be measured.
THEOREM AnswerAlwaysFits == Spec => []AnswerFits
<1>1. IInv => AnswerFits
  <2> SUFFICES ASSUME IInv, pc = "done", answer.from = "search"
               PROVE  LET p == answer.result.placement
                          R == answer.result.recovery
                          fit == _feasibility(spec, p, R, [d \in Planned |-> Budget(spec, d)])
                      IN /\ fit.primary_ok
                         /\ spec.eager => fit.with_backup_ok
                         /\ \A n \in 2..Len(p) : Measured(spec, p[n - 1].device, p[n].device)
                         /\ \A d \in DOMAIN R : Measured(spec, R[d], d)
    BY DEF AnswerFits, Searched
  <2> DEFINE x == answer.result
             p == x.placement
             R == x.recovery
             capacity == [d \in Planned |-> Budget(spec, d)]
             fit == _feasibility(spec, p, R, capacity)
  <2>1. IsSpec(spec) /\ Found(spec, x)
    BY DEF IInv, Profiled, Answered
  <2> HIDE DEF x
  <2>2. /\ \A n \in DOMAIN p : /\ p[n].device \in ToSet(spec.devices)
                               /\ StageBytes(spec, p[n]) <= Budget(spec, p[n].device)
        /\ spec.eager => \A d \in ToSet(spec.devices) :
             UsedBy(spec, p, d) + backup_memory_for(spec, d, R, p) <= Budget(spec, d)
        /\ \A n \in 2..Len(p) : Measured(spec, p[n - 1].device, p[n].device)
        /\ \A d \in DOMAIN R : Measured(spec, R[d], d)
    BY <2>1, FoundFits
  <2>3. \A d \in ToSet(spec.devices) : capacity[d] = Budget(spec, d)
    BY DEF Planned
  <2> HIDE DEF capacity
  <2>4. /\ fit.primary_ok
             = (\A n \in DOMAIN p : StageBytes(spec, p[n]) <= capacity[p[n].device])
        /\ fit.with_backup_ok
             = (\A d \in ToSet(spec.devices) :
                  UsedBy(spec, p, d) + backup_memory_for(spec, d, R, p) <= capacity[d])
    BY DEF _feasibility
  <2>5. \A n \in DOMAIN p : StageBytes(spec, p[n]) <= capacity[p[n].device]
    BY <2>2, <2>3
  <2>6. spec.eager => \A d \in ToSet(spec.devices) :
          UsedBy(spec, p, d) + backup_memory_for(spec, d, R, p) <= capacity[d]
    BY <2>2, <2>3
  <2>7. fit.primary_ok /\ (spec.eager => fit.with_backup_ok)
    BY <2>4, <2>5, <2>6
  <2> QED
    BY <2>2, <2>7 DEF x, capacity
<1> QED
  BY <1>1, PlanInvariant, PTL

\* An answer that solve_alternating calls converged is a fixed point: its
\* recovery table is the one determine_recovery_table makes for its own placement
\* over the devices it uses.
THEOREM ConvergedIsAFixedPoint == Spec => []ConvergedIsItsOwnTable
<1>1. IInv => ConvergedIsItsOwnTable
  <2> SUFFICES ASSUME IInv, pc = "done", answer.from = "search", answer.result.converged
               PROVE  LET p == answer.result.placement
                          c == with_devices(spec, [n \in DOMAIN p |-> p[n].device])
                      IN answer.result.recovery = TableFor(c, p).R
    BY DEF ConvergedIsItsOwnTable, Searched
  <2> DEFINE x == answer.result
             p == x.placement
  <2>1. IsSpec(spec) /\ Found(spec, x)
    BY DEF IInv, Profiled, Answered
  <2>2. PICK o \in ToSet(Orders(spec)) :
          /\ Good(with_devices(spec, o), x)
          /\ x.recovery = TableFor(with_devices(spec, o), p).R
    BY <2>1 DEF Found
  <2> DEFINE c == with_devices(spec, o)
  <2>3. Order(spec, o)
    BY <2>1, OrdersAreOrders
  <2>4. IsSpec(c) /\ c.devices = o
    BY <2>1, <2>3, CandidateCosts
  <2>5. Good(c, x)
    BY <2>2
  <2> HIDE DEF c, x
  <2>6. Shape(c, p)
    BY <2>4, <2>5, GoodCosts
  <2>7. o = [n \in DOMAIN p |-> p[n].device]
    <3>1. DOMAIN p = 1..M(c) /\ \A n \in 1..M(c) : p[n].device = o[n]
      BY <2>4, <2>6 DEF Shape
    <3>2. DOMAIN o = 1..M(c) /\ o = [n \in DOMAIN o |-> o[n]]
      BY <2>3, <2>4, SpecOrder DEF Order
    <3> QED
      BY <3>1, <3>2
  <2> QED
    BY <2>2, <2>7 DEF c, x
<1> QED
  BY <1>1, PlanInvariant, PTL

\* What a result costs in the whole fleet, and when it is ranked by that.
LEMMA FoundPrice ==
  ASSUME NEW s, IsSpec(s), s.mode # "blended", NEW x, NEW o, Order(s, o),
         NEW c, c = with_devices(s, o), Good(c, x),
         NEW e, e \in CutsTo(c, M(c), Layers(c)), x.placement = CutOf(c, e),
         Summed(c, x, e), x.max = CostMax(c, e)
  PROVE  /\ Price(s, x.placement) = CutRank(c, CutOf(c, e)) + s.penalty * s.pool * Len(o)
         /\ \/ SearchRank(s, x) = Price(s, x.placement)
            \/ s.mode = "latency" /\ s.backups /\ ~x.converged
<1> DEFINE p == x.placement
<1>1. /\ IsSpec(c) /\ c.devices = o /\ M(c) = Len(o) /\ c.mode = s.mode
      /\ c.backups = s.backups /\ _rank(c, x) = _rank(s, x)
  BY CandidateCosts
<1>2. Shape(c, p)
  BY <1>1, GoodCosts
<1>3. Len(p) = Len(o) /\ DOMAIN p = 1..M(c)
  BY <1>1, <1>2, ShapeLength
<1>4. o = [n \in DOMAIN p |-> p[n].device]
  <2>1. \A n \in 1..M(c) : p[n].device = o[n]
    BY <1>1, <1>2 DEF Shape
  <2>2. DOMAIN o = 1..M(c) /\ o = [n \in DOMAIN o |-> o[n]]
    BY <1>1, SpecOrder DEF Order
  <2> QED
    BY <1>3, <2>1, <2>2
<1>5. Price(s, p) = CutRank(c, p) + s.penalty * s.pool * Len(p)
  BY <1>4 DEF Price, with_devices
<1>6. Price(s, p) = CutRank(c, CutOf(c, e)) + s.penalty * s.pool * Len(o)
  BY <1>3, <1>5
<1>7. c.mode \in {"throughput", "latency"}
  BY <1>1, KnobTypes DEF IsSpec
<1>8. \/ _rank(c, x) = CutRank(c, CutOf(c, e))
      \/ c.mode = "latency" /\ c.backups /\ IsFalse(x.converged)
  <2>1. CASE x.sum = CostSum(c, e)
    BY <1>1, <2>1, RankIsCutRank DEF IsSpec
  <2>2. CASE c.mode = "throughput"
    BY <2>2 DEF _rank, CutRank, CostMax
  <2>3. CASE x.sum # CostSum(c, e) /\ c.mode = "latency"
    BY <2>3 DEF Summed
  <2> QED
    BY <1>7, <2>1, <2>2, <2>3
<1>9. SearchRank(s, x) = _rank(s, x) + s.penalty * s.pool * Len(o)
  BY <1>3 DEF SearchRank
<1> HIDE DEF p
<1> QED
  BY <1>1, <1>6, <1>8, <1>9 DEF p, IsFalse

\* The result x of a search costs no less than the best placement without backups,
\* without backups it is that one, and it is ranked by its cost or is a fallback.
LEMMA FoundIsBest ==
  ASSUME NEW s, IsSpec(s), s.mode # "blended", NEW x, Found(s, x), CoversAllBut(s, {}, x)
  PROVE  /\ Price(s, x.placement) >= cost_only_rank(s)
         /\ ~s.backups => Price(s, x.placement) = cost_only_rank(s)
         /\ \/ SearchRank(s, x) = Price(s, x.placement)
            \/ s.mode = "latency" /\ s.backups /\ ~x.converged
<1> DEFINE O == ToSet(Orders(s))
           alone(o) == solve(with_devices(s, o), << >>)
           T == {AloneRank(s, cell) : cell \in cost_only(s)}
<1>1. cost_only_rank(s) = Min(T)
  BY DEF cost_only_rank, AloneRank
<1>2. cost_only(s) = {cell \in {alone(o) : o \in O} : cell # Empty}
  BY DEF cost_only, dp_placement_no_recovery, dp_placement, with_devices
<1>3. \A o \in O : Order(s, o)
  BY OrdersAreOrders
<1> HIDE DEF O
<1>4. \A o \in O : alone(o) # Empty => AloneRank(s, alone(o)) \in Nat
  BY <1>3, AloneCell
<1>5. T = {AloneRank(s, alone(o)) : o \in {i \in O : alone(i) # Empty}}
  <2> HIDE DEF alone
  <2> QED
    BY <1>2
<1>6. T \in SUBSET Nat
  BY <1>4, <1>5
<1>7. PICK o \in O : Good(with_devices(s, o), x) /\ M(with_devices(s, o)) <= Layers(with_devices(s, o))
                     /\ x.ok
  BY DEF Found, O
<1> DEFINE c == with_devices(s, o)
           cell == solve(c, << >>)
<1>8. IsSpec(c) /\ c.mode = s.mode /\ M(c) = Len(o) /\ _rank(c, x) = _rank(s, x)
  BY <1>3, <1>7, CandidateCosts
<1>9. PICK e \in CutsTo(c, M(c), Layers(c)) :
        /\ x.placement = CutOf(c, e) /\ Summed(c, x, e) /\ x.max = CostMax(c, e)
        /\ Allowed(c, << >>, << >>, CutOf(c, e))
  BY <1>7 DEF Good
<1>10. M(c) <= Layers(c) /\ Good(c, x)
  BY <1>7
<1> HIDE DEF c
<1>11. cell = _forward(c, << >>, uniform_placement(c))
  <2>1. Layers(c) \in Nat /\ M(c) \in Nat
    BY <1>8, KnobTypes, SpecOrder DEF IsSpec
  <2>2. ~(Layers(c) < M(c))
    BY <1>10, <2>1
  <2> QED
    BY <2>2 DEF solve
<1> HIDE DEF cell
<1>12. cell # Empty /\ _rank(c, cell) <= CutRank(c, CutOf(c, e))
  BY <1>8, <1>9, <1>10, <1>11, CellIsExact
<1>13. /\ Price(s, x.placement) = CutRank(c, CutOf(c, e)) + s.penalty * s.pool * Len(o)
       /\ \/ SearchRank(s, x) = Price(s, x.placement)
          \/ s.mode = "latency" /\ s.backups /\ ~x.converged
  <2>1. Order(s, o) /\ c = with_devices(s, o)
    BY <1>3 DEF c
  <2> QED
    BY <1>9, <1>10, <2>1, FoundPrice
<1>14. /\ _rank(s, cell) \in Nat /\ Len(cell.ends) = Len(o) /\ AloneRank(s, cell) \in Nat
       /\ _rank(c, cell) = _rank(s, cell)
  <2>1. Order(s, o) /\ c = with_devices(s, o) /\ cell = solve(c, << >>)
    BY <1>3 DEF c, cell
  <2> QED
    BY <1>12, <2>1, AloneCell, CandidateCosts
<1>15. AloneRank(s, cell) \in T
  BY <1>5, <1>12 DEF c, cell
<1>16. Min(T) \in T /\ Min(T) \in Nat /\ Min(T) <= AloneRank(s, cell)
  BY <1>6, <1>15, MinOf
<1>17. Price(s, x.placement) \in Nat /\ AloneRank(s, cell) <= Price(s, x.placement)
  <2> DEFINE t == s.penalty * s.pool * Len(o)
             u == _rank(s, cell)
             v == CutRank(c, CutOf(c, e))
  <2>2. Price(s, x.placement) = v + t /\ AloneRank(s, cell) = u + t
    BY <1>13, <1>14 DEF AloneRank
  <2>3. u \in Nat /\ v \in Nat /\ u <= v
    BY <1>8, <1>9, <1>12, <1>14, CutRankIsNat
  <2>4. t \in Nat
    <3>1. s.penalty \in Nat /\ s.pool \in Nat /\ Len(o) \in Nat
      BY <1>8, KnobTypes, SpecOrder DEF IsSpec
    <3>2. s.penalty * s.pool \in Nat
      BY <3>1
    <3> QED
      BY <3>1, <3>2
  <2> HIDE DEF t, u, v
  <2> QED
    BY <2>2, <2>3, <2>4
<1>18. ASSUME ~s.backups
       PROVE  Price(s, x.placement) <= Min(T)
  <2>1. PICK i \in O : alone(i) # Empty /\ Min(T) = AloneRank(s, alone(i))
    BY <1>5, <1>16
  <2>2. Covers(s, i, x)
    BY <1>18, <2>1 DEF CoversAllBut, O
  <2>3. SearchRank(s, x) = Price(s, x.placement)
    BY <1>13, <1>18
  <2> QED
    BY <2>1, <2>2, <2>3 DEF Covers
<1> DEFINE k == Min(T)
           r == Price(s, x.placement)
           a == AloneRank(s, cell)
<1>19. k \in Nat /\ r \in Nat /\ a \in Nat /\ k <= a /\ a <= r /\ (~s.backups => r <= k)
  BY <1>14, <1>16, <1>17, <1>18
<1> HIDE DEF k, r, a
<1>20. r >= k /\ (~s.backups => r = k)
  BY <1>19
<1> QED
  BY <1>1, <1>13, <1>20 DEF k, r

\* solve_alternating_best_order misses no subset and no order of the devices: in
\* the throughput and the latency mode, the placement it answers costs no less than
\* the best one without backups, and is that one when backups are off (then no
\* alternation falls back: its second iteration finds what the first has found).
\* It has been ranked by what it costs, the only exception being the fallback of an
\* alternation with backups in latency mode, whose sum _replace_history drops.
THEOREM SearchFindsTheBest == Spec => []BestPipeline
<1>1. IInv => BestPipeline
  <2> SUFFICES ASSUME IInv, pc = "done", answer.from = "search", spec.mode # "blended"
               PROVE  LET price == Price(spec, answer.result.placement)
                      IN /\ price >= cost_only_rank(spec)
                         /\ ~spec.backups => price = cost_only_rank(spec)
                         /\ \/ SearchRank(spec, answer.result) = price
                            \/ spec.mode = "latency" /\ spec.backups /\ ~answer.result.converged
    BY DEF BestPipeline, Searched
  <2> DEFINE x == answer.result
  <2>1. IsSpec(spec) /\ Found(spec, x) /\ CoversAllBut(spec, {}, x)
    BY DEF IInv, Profiled, Answered
  <2> HIDE DEF x
  <2>2. /\ Price(spec, x.placement) >= cost_only_rank(spec)
        /\ ~spec.backups => Price(spec, x.placement) = cost_only_rank(spec)
        /\ \/ SearchRank(spec, x) = Price(spec, x.placement)
           \/ spec.mode = "latency" /\ spec.backups /\ ~x.converged
    BY <2>1, FoundIsBest
  <2> QED
    BY <2>2 DEF x
<1> QED
  BY <1>1, PlanInvariant, PTL
=============================================================================
