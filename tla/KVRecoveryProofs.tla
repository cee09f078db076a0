--------------------------- MODULE KVRecoveryProofs ---------------------------
(***************************************************************************)
(* Proofs about KVRecovery.  What the gateway counts of its caches is what *)
(* they hold, in every mode.  With single parity or replicas and at most   *)
(* one failure, which is what these modes are for (OneFault), nothing that *)
(* is folded, loaded or said is wrong: for every placement, recovery       *)
(* table, budget, number of lost pushes and of pushes of other requests.   *)
(***************************************************************************)
EXTENDS KVRecovery, CommonLemmas

-----------------------------------------------------------------------------
(* Sequences of which only the length matters.                              *)

Sized(col, n) == n \in Nat /\ col = [i \in 1..n |-> col[i]]
IsSeq(x) == \E n \in Nat : Sized(x, n)

LEMMA SizedIs ==
  ASSUME NEW n, NEW x, Sized(x, n)
  PROVE  /\ n \in Nat /\ Len(x) = n /\ DOMAIN x = 1..n
         /\ x \in Seq({x[i] : i \in 1..n}) /\ IsSeq(x)
<1> DEFINE T == {x[i] : i \in 1..n}
<1>1. n \in Nat /\ x \in [1..n -> T]
  BY DEF Sized
<1>2. x \in Seq(T)
  BY <1>1
<1>3. DOMAIN x = 1..Len(x) /\ Len(x) \in Nat /\ DOMAIN x = 1..n
  BY <1>1, <1>2
<1>4. Len(x) = n
  BY <1>1, <1>3
<1> QED
  BY <1>1, <1>2, <1>3, <1>4 DEF IsSeq

LEMMA SeqIsSized ==
  ASSUME NEW S, NEW x \in Seq(S)
  PROVE  Sized(x, Len(x)) /\ IsSeq(x)
<1>1. Len(x) \in Nat /\ x = [i \in 1..Len(x) |-> x[i]]
  OBVIOUS
<1> QED
  BY <1>1 DEF Sized, IsSeq

LEMMA FunctionIsSized ==
  ASSUME NEW n \in Nat, NEW f, DOMAIN f = 1..n, f = [i \in DOMAIN f |-> f[i]]
  PROVE  Sized(f, n)
  BY DEF Sized

LEMMA IsSeqIs ==
  ASSUME NEW x, IsSeq(x)
  PROVE  Len(x) \in Nat /\ DOMAIN x = 1..Len(x) /\ Sized(x, Len(x)) /\ x \in Seq({x[i] : i \in DOMAIN x})
<1>1. PICK n \in Nat : Sized(x, n)
  BY DEF IsSeq
<1>2. n \in Nat /\ Len(x) = n /\ DOMAIN x = 1..n /\ x \in Seq({x[i] : i \in 1..n})
  BY <1>1, SizedIs
<1> QED
  BY <1>1, <1>2

LEMMA EmptyIsSized == Sized(<< >>, 0) /\ IsSeq(<< >>)
  BY DEF Sized, IsSeq

\* One sequence after another.
LEMMA ConcatIs ==
  ASSUME NEW x, NEW y, IsSeq(x), IsSeq(y)
  PROVE  /\ IsSeq(x \o y) /\ Len(x \o y) = Len(x) + Len(y)
         /\ DOMAIN (x \o y) = 1..(Len(x) + Len(y))
         /\ \A i \in 1..Len(x) : (x \o y)[i] = x[i]
         /\ \A i \in 1..Len(y) : (x \o y)[Len(x) + i] = y[i]
         /\ \A i \in 1..(Len(x) + Len(y)) :
              (x \o y)[i] = IF i <= Len(x) THEN x[i] ELSE y[i - Len(x)]
<1> DEFINE S == {x[i] : i \in DOMAIN x} \cup {y[i] : i \in DOMAIN y}
<1>1. /\ Len(x) \in Nat /\ DOMAIN x = 1..Len(x) /\ x \in Seq({x[i] : i \in DOMAIN x})
      /\ Len(y) \in Nat /\ DOMAIN y = 1..Len(y) /\ y \in Seq({y[i] : i \in DOMAIN y})
  BY IsSeqIs
<1>2. x \in Seq(S) /\ y \in Seq(S)
  BY <1>1
<1> HIDE DEF S
<1>3. /\ x \o y \in Seq(S) /\ Len(x \o y) = Len(x) + Len(y)
      /\ \A i \in 1..(Len(x) + Len(y)) : (x \o y)[i] =
                   IF i <= Len(x) THEN x[i] ELSE y[i - Len(x)]
  BY <1>2, ConcatProperties
<1>4. IsSeq(x \o y) /\ DOMAIN (x \o y) = 1..(Len(x) + Len(y))
  BY <1>3, SeqIsSized, IsSeqIs
<1>5. \A i \in 1..Len(x) : (x \o y)[i] = x[i]
  BY <1>1, <1>3
<1>6. ASSUME NEW i \in 1..Len(y)
      PROVE  (x \o y)[Len(x) + i] = y[i]
  <2>1. Len(x) + i \in 1..(Len(x) + Len(y)) /\ ~(Len(x) + i <= Len(x)) /\ Len(x) + i - Len(x) = i
    BY <1>1
  <2> QED
    BY <1>3, <2>1
<1> QED
  BY <1>3, <1>4, <1>5, <1>6

LEMMA AppendIs ==
  ASSUME NEW x, IsSeq(x), NEW e
  PROVE  /\ IsSeq(Append(x, e)) /\ Len(Append(x, e)) = Len(x) + 1
         /\ DOMAIN Append(x, e) = 1..(Len(x) + 1)
         /\ \A i \in 1..Len(x) : Append(x, e)[i] = x[i]
         /\ Append(x, e)[Len(x) + 1] = e
<1> DEFINE S == {x[i] : i \in DOMAIN x} \cup {e}
<1>1. /\ Len(x) \in Nat /\ DOMAIN x = 1..Len(x) /\ x \in Seq({x[i] : i \in DOMAIN x})
  BY IsSeqIs
<1>2. x \in Seq(S) /\ e \in S
  BY <1>1
<1> HIDE DEF S
<1>3. /\ Append(x, e) \in Seq(S) /\ Len(Append(x, e)) = Len(x) + 1
      /\ \A i \in 1..Len(x) : Append(x, e)[i] = x[i]
      /\ Append(x, e)[Len(x) + 1] = e
  BY <1>2, AppendProperties
<1> QED
  BY <1>3, SeqIsSized, IsSeqIs

LEMMA TailIs ==
  ASSUME NEW x, IsSeq(x), x # << >>
  PROVE  /\ IsSeq(Tail(x)) /\ Len(Tail(x)) = Len(x) - 1 /\ Len(x) > 0 /\ Len(x) \in Nat
         /\ DOMAIN Tail(x) = 1..(Len(x) - 1)
         /\ \A i \in 1..(Len(x) - 1) : Tail(x)[i] = x[i + 1]
         /\ Head(x) = x[1] /\ 1 \in DOMAIN x
<1> DEFINE S == {x[i] : i \in DOMAIN x}
<1>1. /\ Len(x) \in Nat /\ DOMAIN x = 1..Len(x) /\ x \in Seq(S)
  BY IsSeqIs
<1> HIDE DEF S
<1>2. /\ Tail(x) \in Seq(S) /\ Len(Tail(x)) = Len(x) - 1
      /\ \A i \in 1..(Len(x) - 1) : Tail(x)[i] = x[i + 1]
  BY <1>1, HeadTailProperties
<1>3. Len(x) > 0 /\ 1 \in DOMAIN x
  BY <1>1
<1>4. Head(x) = x[1]
  BY <1>1
<1>5. IsSeq(Tail(x)) /\ DOMAIN Tail(x) = 1..(Len(x) - 1)
  BY <1>2, SeqIsSized, IsSeqIs
<1> QED
  BY <1>1, <1>2, <1>3, <1>4, <1>5

-----------------------------------------------------------------------------
(* Columns and blobs.                                                       *)

Larger(n, m) == IF n > m THEN n ELSE m

LEMMA XorColumnsSize ==
  ASSUME NEW a, NEW n, Sized(a, n), NEW b, NEW m, Sized(b, m)
  PROVE  Sized(XorColumns(a, b), Larger(n, m))
<1>1. n \in Nat /\ m \in Nat /\ Len(a) = n /\ Len(b) = m
  BY SizedIs
<1>2. Larger(n, m) \in Nat /\ Larger(n, m) = IF Len(a) > Len(b) THEN Len(a) ELSE Len(b)
  BY <1>1 DEF Larger
<1>3. DOMAIN XorColumns(a, b) = 1..Larger(n, m)
      /\ XorColumns(a, b) = [i \in DOMAIN XorColumns(a, b) |-> XorColumns(a, b)[i]]
  BY <1>2 DEF XorColumns
<1> QED
  BY <1>2, <1>3, FunctionIsSized

LEMMA ScalarSize ==
  ASSUME NEW a, NEW n, Sized(a, n), NEW c
  PROVE  Sized(gf_mul_scalar(c, a), n)
<1>1. n \in Nat /\ DOMAIN a = 1..n
  BY SizedIs
<1>2. DOMAIN gf_mul_scalar(c, a) = 1..n
      /\ gf_mul_scalar(c, a) = [i \in DOMAIN gf_mul_scalar(c, a) |-> gf_mul_scalar(c, a)[i]]
  BY <1>1 DEF gf_mul_scalar
<1> QED
  BY <1>1, <1>2, FunctionIsSized

Widest(T) == Max({LayersOf[s] : s \in T})

LEMMA Lengths ==
  /\ N \in Nat /\ N > 2 /\ Stage = 1..N /\ NonHead = 2..N /\ NonHead \subseteq Stage
  /\ 1 \in Stage /\ 1 \notin NonHead
  /\ Placement \in [Stage -> Device] /\ \A i, j \in Stage : Placement[i] = Placement[j] => i = j
  /\ Recovery \in [Device -> MaybeDevice]
  /\ LayersOf \in [Stage -> Nat \ {0}]
  /\ IsFiniteSet(Stage) /\ IsFiniteSet(NonHead)
<1>1. Placement \in Seq(Device) /\ Len(Placement) > 2
      /\ \A i, j \in DOMAIN Placement : Placement[i] = Placement[j] => i = j
  BY KVAssumption DEF Placements
<1>2. N \in Nat /\ N > 2 /\ DOMAIN Placement = Stage
  BY <1>1 DEF N, Stage
<1>3. Stage = 1..N /\ NonHead = 2..N /\ NonHead \subseteq Stage /\ 1 \in Stage /\ 1 \notin NonHead
  BY <1>2 DEF Stage, NonHead
<1>4. IsFiniteSet(Stage) /\ IsFiniteSet(NonHead)
  BY <1>2, <1>3, FS_Interval
<1>5. Placement \in [Stage -> Device]
  BY <1>1, <1>2
<1>6. \A i, j \in Stage : Placement[i] = Placement[j] => i = j
  BY <1>1, <1>2
<1> QED
  BY <1>2, <1>3, <1>4, <1>5, <1>6, KVAssumption DEF RecoveryTable

LEMMA WidestIs ==
  ASSUME NEW T \in SUBSET NonHead, T # {}
  PROVE  /\ Widest(T) \in Nat
         /\ \E s \in T : Widest(T) = LayersOf[s]
         /\ \A s \in T : LayersOf[s] <= Widest(T)
<1> DEFINE M == {LayersOf[s] : s \in T}
<1>1. M = ImageOf(LayersOf, T)
  BY DEF ImageOf
<1>2. IsFiniteSet(M)
  BY <1>1, Lengths, FS_Subset, ImageIsFinite
<1>3. M \in SUBSET Nat /\ M # {}
  <2>1. \A s \in T : LayersOf[s] \in Nat
    BY Lengths
  <2> QED
    BY <2>1
<1>4. Widest(T) = Max(M) /\ \A s \in T : LayersOf[s] \in M
  BY DEF Widest
<1>5. \A m \in M : \E s \in T : m = LayersOf[s]
  OBVIOUS
<1> HIDE DEF M
<1>6. Max(M) \in M /\ Max(M) \in Nat /\ \A m \in M : m <= Max(M)
  BY <1>2, <1>3, MaxOf
<1> QED
  BY <1>4, <1>5, <1>6

LEMMA WidestGrows ==
  ASSUME NEW T \in SUBSET NonHead, T # {}, NEW s \in NonHead
  PROVE  Widest(T \cup {s}) = Larger(Widest(T), LayersOf[s])
<1> DEFINE U == T \cup {s}
<1>1. U \in SUBSET NonHead /\ U # {} /\ T \subseteq U /\ s \in U /\ \A u \in U : u \in T \/ u = s
  OBVIOUS
<1> HIDE DEF U
<1>2. /\ Widest(T) \in Nat /\ LayersOf[s] \in Nat
      /\ \E t \in T : Widest(T) = LayersOf[t]
      /\ \A t \in T : LayersOf[t] <= Widest(T)
  BY WidestIs, Lengths
<1>3. /\ Widest(U) \in Nat
      /\ \E u \in U : Widest(U) = LayersOf[u]
      /\ \A u \in U : LayersOf[u] <= Widest(U)
  BY <1>1, WidestIs
<1>4. Widest(T) <= Widest(U) /\ LayersOf[s] <= Widest(U)
  BY <1>1, <1>2, <1>3
<1>5. Widest(U) <= Widest(T) \/ Widest(U) = LayersOf[s]
  BY <1>1, <1>2, <1>3
<1> QED
  BY <1>2, <1>3, <1>4, <1>5 DEF Larger, U

LEMMA WidestOfOne ==
  ASSUME NEW s \in NonHead
  PROVE  Widest({s}) = LayersOf[s]
  BY WidestIs

LEMMA WidestIsMonotone ==
  ASSUME NEW T \in SUBSET NonHead, T # {}, NEW U \in SUBSET NonHead, T \subseteq U
  PROVE  Widest(T) <= Widest(U)
<1>1. \E t \in T : Widest(T) = LayersOf[t]
  BY WidestIs
<1>2. \A u \in U : LayersOf[u] <= Widest(U)
  BY WidestIs
<1> QED
  BY <1>1, <1>2

-----------------------------------------------------------------------------
(* What a cache holds.                                                      *)

Bytes(item) == IF mode = "replicate" THEN Len(item) ELSE Blobs(item)
ItemBytes(items) == [key \in DOMAIN items |-> Bytes(items[key])]
HeldBytes(c) == IF mode = "replicate" THEN ReplicaBytes(c) ELSE ParityBytes(c)

EntryFits(e) ==
  /\ e = [parity |-> e.parity, q_parity |-> e.q_parity, contributors |-> e.contributors]
  /\ e.contributors \subseteq NonHead /\ e.contributors # {}
  /\ Sized(e.parity, Widest(e.contributors))
  /\ Sized(e.q_parity, IF K = 2 THEN Widest(e.contributors) ELSE 0)

ItemFits(key, item) ==
  IF mode = "replicate"
  THEN key = <<key[1], key[2]>> /\ key[1] \in NonHead /\ Sized(item, LayersOf[key[1]])
  ELSE EntryFits(item)

ItemsFit(items) ==
  /\ items = [key \in DOMAIN items |-> items[key]] /\ IsFiniteSet(DOMAIN items)
  /\ \A key \in DOMAIN items : ItemFits(key, items[key])

Counted(c) ==
  /\ c = [items |-> c.items, order |-> c.order, used |-> c.used]
  /\ c.items = [r \in Request |-> c.items[r]]
  /\ \A r \in Request : ItemsFit(c.items[r])
  /\ c.order \in Seq(Request) /\ Once(c.order)
  /\ \A r \in Request : c.items[r] = NoItems \/ Contains(c.order, r)
  /\ c.used = SumFunction(HeldBytes(c))

CacheFits(c) == Counted(c) /\ (c.used > max_bytes => Len(c.order) = 1)

LEMMA HeldBytesIs ==
  ASSUME NEW c
  PROVE  /\ HeldBytes(c) = [r \in Request |-> SumFunction(ItemBytes(c.items[r]))]
         /\ DOMAIN HeldBytes(c) = Request
         /\ \A r \in Request : HeldBytes(c)[r] = SumFunction(ItemBytes(c.items[r]))
<1>1. HeldBytes(c) = [r \in Request |-> SumFunction(ItemBytes(c.items[r]))]
  BY DEF HeldBytes, ReplicaBytes, ParityBytes, ItemBytes, Bytes
<1> QED
  BY <1>1

LEMMA SumFunctionIs ==
  ASSUME NEW f, NEW S, DOMAIN f = S
  PROVE  SumFunction(f) = SumFunctionOnSet(f, S)
  BY DEF SumFunction

LEMMA EntryBlobs ==
  ASSUME NEW e, EntryFits(e)
  PROVE  /\ Blobs(e) \in Nat
         /\ Blobs(e) = IF K = 2 THEN 2 * Widest(e.contributors) ELSE Widest(e.contributors)
<1>1. Len(e.parity) = Widest(e.contributors)
      /\ Len(e.q_parity) = IF K = 2 THEN Widest(e.contributors) ELSE 0
  BY SizedIs DEF EntryFits
<1>2. Widest(e.contributors) \in Nat
  BY WidestIs DEF EntryFits
<1> QED
  BY <1>1, <1>2 DEF Blobs

LEMMA BytesAreNat ==
  ASSUME NEW key, NEW item, ItemFits(key, item)
  PROVE  Bytes(item) \in Nat
<1>1. CASE mode = "replicate"
  BY <1>1, SizedIs DEF ItemFits, Bytes
<1>2. CASE mode # "replicate"
  BY <1>2, EntryBlobs DEF ItemFits, Bytes
<1> QED
  BY <1>1, <1>2

LEMMA ItemBytesAreNat ==
  ASSUME NEW items, ItemsFit(items)
  PROVE  /\ \A key \in DOMAIN items : ItemBytes(items)[key] \in Nat
         /\ SumFunction(ItemBytes(items)) = SumFunctionOnSet(ItemBytes(items), DOMAIN items)
         /\ SumFunction(ItemBytes(items)) \in Nat
<1>1. \A key \in DOMAIN items : ItemBytes(items)[key] \in Nat
  BY BytesAreNat DEF ItemsFit, ItemBytes
<1>2. DOMAIN ItemBytes(items) = DOMAIN items
  BY DEF ItemBytes
<1>3. SumFunction(ItemBytes(items)) = SumFunctionOnSet(ItemBytes(items), DOMAIN items)
  BY <1>2, SumFunctionIs
<1>4. IsFiniteSet(DOMAIN items)
  BY DEF ItemsFit
<1>5. SumFunctionOnSet(ItemBytes(items), DOMAIN items) \in Nat
  BY <1>1, <1>4, SumIsNat
<1> QED
  BY <1>1, <1>3, <1>5

LEMMA NoItemsFit ==
  ItemsFit(NoItems) /\ DOMAIN NoItems = {} /\ SumFunction(ItemBytes(NoItems)) = 0
<1>1. DOMAIN NoItems = {} /\ NoItems = [key \in DOMAIN NoItems |-> NoItems[key]]
  BY DEF NoItems
<1>2. ItemsFit(NoItems)
  BY <1>1, FS_EmptySet DEF ItemsFit
<1>3. SumFunction(ItemBytes(NoItems)) = 0
  BY <1>1, <1>2, ItemBytesAreNat, SumOfNone
<1> QED
  BY <1>1, <1>2, <1>3

BytesAt(items, key) == IF key \in DOMAIN items THEN Bytes(items[key]) ELSE 0

\* An item that is put under a key counts for what it adds.
LEMMA PutIs ==
  ASSUME NEW items, ItemsFit(items), NEW key, NEW item, ItemFits(key, item)
  PROVE  /\ ItemsFit(Put(items, key, item))
         /\ DOMAIN Put(items, key, item) = DOMAIN items \cup {key}
         /\ Put(items, key, item)[key] = item
         /\ \A k \in DOMAIN items : k # key => Put(items, key, item)[k] = items[k]
         /\ SumFunction(ItemBytes(Put(items, key, item)))
              = SumFunction(ItemBytes(items)) + (Bytes(item) - BytesAt(items, key))
<1> DEFINE put == Put(items, key, item)
           D == DOMAIN items
           E == D \cup {key}
<1>1. /\ DOMAIN put = E /\ put = [k \in E |-> put[k]] /\ put[key] = item
      /\ \A k \in D : k # key => put[k] = items[k]
  BY DEF Put
<1>2. IsFiniteSet(D) /\ IsFiniteSet(E)
  BY FS_AddElement DEF ItemsFit
<1> HIDE DEF put
<1>3. ItemsFit(put)
  BY <1>1, <1>2 DEF ItemsFit
<1>4. /\ \A k \in D : ItemBytes(items)[k] \in Nat /\ ItemBytes(items)[k] = Bytes(items[k])
      /\ SumFunction(ItemBytes(items)) = SumFunctionOnSet(ItemBytes(items), D)
      /\ SumFunction(ItemBytes(items)) \in Nat
  BY ItemBytesAreNat DEF ItemBytes
<1>5. /\ \A k \in E : ItemBytes(put)[k] \in Nat /\ ItemBytes(put)[k] = Bytes(put[k])
      /\ SumFunction(ItemBytes(put)) = SumFunctionOnSet(ItemBytes(put), E)
      /\ SumFunction(ItemBytes(put)) \in Nat
  BY <1>1, <1>3, ItemBytesAreNat DEF ItemBytes
<1> DEFINE F == D \ {key}
<1>6. IsFiniteSet(F) /\ F \in SUBSET D /\ F \in SUBSET E /\ F = E \ {key} /\ key \in E
  BY <1>2, FS_Subset
<1>7. SumFunctionOnSet(ItemBytes(put), E) = Bytes(item) + SumFunctionOnSet(ItemBytes(put), F)
  <2> HIDE DEF E, F
  <2>1. SumFunctionOnSet(ItemBytes(put), E) = ItemBytes(put)[key] + SumFunctionOnSet(ItemBytes(put), E \ {key})
    BY <1>2, <1>5, <1>6, SumWithout
  <2> QED
    BY <1>1, <1>5, <1>6, <2>1
<1>8. SumFunctionOnSet(ItemBytes(put), F) = SumFunctionOnSet(ItemBytes(items), F)
  <2>1. \A k \in F : ItemBytes(put)[k] = ItemBytes(items)[k]
    BY <1>1, <1>4, <1>5
  <2> HIDE DEF F
  <2> QED
    BY <1>6, <2>1, SameSum
<1>9. SumFunctionOnSet(ItemBytes(items), F) \in Nat
  <2>1. \A k \in F : ItemBytes(items)[k] \in Nat
    BY <1>4
  <2> HIDE DEF F
  <2> QED
    BY <1>6, <2>1, SumIsNat
<1>10. Bytes(item) \in Nat
  BY BytesAreNat
<1>11. CASE key \in D
  <2>1. SumFunctionOnSet(ItemBytes(items), D) = Bytes(items[key]) + SumFunctionOnSet(ItemBytes(items), F)
    <3>1. SumFunctionOnSet(ItemBytes(items), D) = ItemBytes(items)[key] + SumFunctionOnSet(ItemBytes(items), D \ {key})
      <4> HIDE DEF D
      <4> QED
        BY <1>2, <1>4, <1>11, SumWithout
    <3> QED
      BY <1>4, <1>11, <3>1
  <2>2. Bytes(items[key]) \in Nat /\ BytesAt(items, key) = Bytes(items[key])
    BY <1>4, <1>11 DEF BytesAt
  <2> HIDE DEF D, E, F
  <2>3. SumFunction(ItemBytes(put)) = SumFunction(ItemBytes(items)) + (Bytes(item) - BytesAt(items, key))
    BY <1>4, <1>5, <1>7, <1>8, <1>9, <1>10, <2>1, <2>2
  <2> QED
    BY <1>1, <1>3, <1>11, <2>3 DEF put, D, E
<1>12. CASE key \notin D
  <2>1. F = D /\ BytesAt(items, key) = 0
    BY <1>12 DEF BytesAt
  <2> HIDE DEF D, E, F
  <2>2. SumFunction(ItemBytes(put)) = SumFunction(ItemBytes(items)) + (Bytes(item) - BytesAt(items, key))
    BY <1>4, <1>5, <1>7, <1>8, <1>9, <1>10, <2>1
  <2> QED
    BY <1>1, <1>3, <1>12, <2>2 DEF put, D, E
<1> QED
  BY <1>11, <1>12

-----------------------------------------------------------------------------
(* Evictions.                                                               *)

\* What an eviction leaves is counted and fits; the request that is used last is
\* not touched.
LEMMA EvictionFits ==
  ASSUME NEW c, Counted(c), Len(c.order) > 0
  PROVE  LET left == evict_if_needed(c, HeldBytes(c))
             r == c.order[Len(c.order)]
         IN /\ CacheFits(left)
            /\ \A x \in Request : left.items[x] = NoItems \/ left.items[x] = c.items[x]
            /\ left.items[r] = c.items[r]
<1> DEFINE held == HeldBytes(c)
           order == c.order
           last == Len(order) - 1
           T == {n \in 0..last : n = last \/ WithoutOldest(c, n, held).used <= max_bytes}
           n == Min(T)
           gone == {order[i] : i \in 1..n}
           items == [r \in Request |-> IF r \in gone THEN NoItems ELSE c.items[r]]
           t == SubSeq(order, n + 1, Len(order))
           left == [items |-> items, order |-> t, used |-> c.used - SumFunctionOnSet(held, gone)]
<1>1. order \in Seq(Request) /\ Once(order) /\ DOMAIN order = 1..Len(order) /\ Len(order) \in Nat
  BY DEF Counted
<1>2. n \in Nat /\ n < Len(order)
      /\ (n = last \/ WithoutOldest(c, n, held).used <= max_bytes)
  <2>1. last \in Nat
    BY <1>1
  <2>2. T \in SUBSET Nat /\ last \in T
    BY <2>1
  <2>3. \A k \in T : k \in 0..last /\ (k = last \/ WithoutOldest(c, k, held).used <= max_bytes)
    OBVIOUS
  <2> HIDE DEF T
  <2>4. n \in T
    BY <2>2, MinOf
  <2>5. n \in 0..last /\ (n = last \/ WithoutOldest(c, n, held).used <= max_bytes)
    BY <2>3, <2>4
  <2> HIDE DEF n
  <2> QED
    BY <1>1, <2>5
<1>3. evict_if_needed(c, held) = WithoutOldest(c, n, held) /\ WithoutOldest(c, n, held) = left
  BY DEF evict_if_needed, WithoutOldest
<1> HIDE DEF n, T
<1>4. /\ t \in Seq(Request) /\ Len(t) = Len(order) - n /\ DOMAIN t = 1..(Len(order) - n)
      /\ \A i \in 1..(Len(order) - n) : t[i] = order[n + i]
  BY <1>1, <1>2, WithoutFirst
<1>5. gone \in SUBSET Request /\ IsFiniteSet(gone) /\ \A r : r \in gone <=> \E i \in 1..n : order[i] = r
  <2>1. gone \in SUBSET Request
    BY <1>1, <1>2
  <2>2. IsFiniteSet(Request)
    BY KVAssumption
  <2> QED
    BY <2>1, <2>2, FS_Subset
<1> HIDE DEF t, gone
<1>6. \A r \in Request : items[r] = IF r \in gone THEN NoItems ELSE c.items[r]
  OBVIOUS
<1>7. items = [r \in Request |-> items[r]]
  OBVIOUS
<1> HIDE DEF items
<1>8. \A r \in Request : ItemsFit(items[r])
  BY <1>6, NoItemsFit DEF Counted
<1>9. Once(t)
  <2> SUFFICES ASSUME NEW i \in 1..(Len(order) - n), NEW j \in 1..(Len(order) - n), t[i] = t[j]
               PROVE  i = j
    BY <1>4 DEF Once
  <2>1. n + i \in DOMAIN order /\ n + j \in DOMAIN order /\ order[n + i] = order[n + j]
    BY <1>1, <1>2, <1>4
  <2>2. n + i = n + j
    BY <1>1, <2>1 DEF Once
  <2> QED
    BY <1>2, <2>2
<1>10. ASSUME NEW r \in Request, items[r] # NoItems
       PROVE  Contains(t, r)
  <2>1. r \notin gone /\ c.items[r] # NoItems
    BY <1>6, <1>10
  <2>2. PICK i \in 1..Len(order) : order[i] = r
    BY <2>1 DEF Counted, Contains
  <2>3. i - n \in 1..Len(t) /\ n + (i - n) = i
    BY <1>1, <1>2, <1>4, <1>5, <2>1, <2>2
  <2>4. t[i - n] = order[n + (i - n)]
    BY <1>4, <2>3
  <2> QED
    BY <2>2, <2>3, <2>4 DEF Contains
<1>11. left.used = SumFunction(HeldBytes(left))
  <2> DEFINE new == HeldBytes(left)
             rest == Request \ gone
  <2>1. /\ \A r \in Request : held[r] = SumFunction(ItemBytes(c.items[r])) /\ held[r] \in Nat
        /\ DOMAIN held = Request
    BY HeldBytesIs, ItemBytesAreNat DEF Counted
  <2>2. left.items = items
    OBVIOUS
  <2> HIDE DEF left
  <2>3. /\ \A r \in Request : new[r] = SumFunction(ItemBytes(items[r])) /\ new[r] \in Nat
        /\ DOMAIN new = Request
    BY <1>8, <2>2, HeldBytesIs, ItemBytesAreNat
  <2> HIDE DEF new, held
  <2>4. \A r \in gone : new[r] = 0
    BY <1>5, <1>6, <2>3, NoItemsFit
  <2>5. \A r \in rest : new[r] = held[r]
    BY <1>6, <2>1, <2>3
  <2>6. rest \in SUBSET Request /\ IsFiniteSet(rest) /\ IsFiniteSet(Request) /\ Request \ gone = rest
    BY KVAssumption, FS_Subset
  <2> HIDE DEF rest
  <2>7. SumFunctionOnSet(held, Request) = SumFunctionOnSet(held, gone) + SumFunctionOnSet(held, rest)
    BY <1>5, <2>1, <2>6, SumOfParts
  <2>8. SumFunctionOnSet(new, Request) = SumFunctionOnSet(new, gone) + SumFunctionOnSet(new, rest)
    BY <1>5, <2>3, <2>6, SumOfParts
  <2>9. SumFunctionOnSet(new, gone) = 0
    BY <1>5, <2>4, SumOfZeros
  <2>10. SumFunctionOnSet(new, rest) = SumFunctionOnSet(held, rest)
    BY <2>5, <2>6, SameSum
  <2>11. SumFunctionOnSet(held, gone) \in Nat /\ SumFunctionOnSet(held, rest) \in Nat
    <3>1. \A r \in rest : held[r] \in Nat
      BY <2>1, <2>6
    <3>2. \A r \in gone : held[r] \in Nat
      BY <1>5, <2>1
    <3> QED
      BY <1>5, <2>6, <3>1, <3>2, SumIsNat
  <2>12. c.used = SumFunctionOnSet(held, Request)
    BY <2>1, SumFunctionIs DEF Counted, held
  <2>13. left.used = c.used - SumFunctionOnSet(held, gone)
    BY DEF left
  <2>14. SumFunction(new) = SumFunctionOnSet(new, Request)
    BY <2>3, SumFunctionIs
  <2> QED
    BY <2>7, <2>8, <2>9, <2>10, <2>11, <2>12, <2>13, <2>14 DEF new
<1>12. left.used > max_bytes => Len(t) = 1
  <2>1. CASE n = last
    BY <1>1, <1>4, <2>1
  <2>2. CASE WithoutOldest(c, n, held).used <= max_bytes
    <3>1. left.used <= max_bytes
      BY <1>3, <2>2
    <3>2. left.used \in Nat
      <4>0. left.items = items
        OBVIOUS
      <4>1. \A r \in Request : HeldBytes(left)[r] \in Nat
        <5> HIDE DEF left
        <5> QED
          BY <1>8, <4>0, HeldBytesIs, ItemBytesAreNat
      <4>2. SumFunctionOnSet(HeldBytes(left), Request) \in Nat
        <5> HIDE DEF left
        <5> QED
          BY <4>1, KVAssumption, SumIsNat
      <4> QED
        BY <1>11, <4>2, HeldBytesIs, SumFunctionIs
    <3>3. max_bytes \in Nat
      BY KVAssumption
    <3> HIDE DEF left
    <3> QED
      BY <3>1, <3>2, <3>3
  <2> QED
    BY <1>2, <2>1, <2>2
<1>13. items[order[Len(order)]] = c.items[order[Len(order)]]
  <2>1. Len(order) \in DOMAIN order /\ order[Len(order)] \in Request
    BY <1>1
  <2>2. ASSUME NEW i \in 1..n
        PROVE  order[i] # order[Len(order)]
    <3>1. i \in DOMAIN order /\ i # Len(order)
      BY <1>1, <1>2
    <3> QED
      BY <1>1, <2>1, <3>1 DEF Once
  <2>3. order[Len(order)] \notin gone
    BY <1>5, <2>2
  <2> QED
    BY <1>6, <2>1, <2>3
<1>14. /\ left = [items |-> left.items, order |-> left.order, used |-> left.used]
       /\ left.items = items /\ left.order = t
  OBVIOUS
<1>15. CacheFits(left)
  <2> HIDE DEF left
  <2> QED
    BY <1>4, <1>7, <1>8, <1>9, <1>10, <1>11, <1>12, <1>14 DEF CacheFits, Counted
<1> QED
  BY <1>3, <1>6, <1>13, <1>14, <1>15

-----------------------------------------------------------------------------
(* What is recorded.                                                        *)

\* A push that brings nothing new.
LEMMA TouchFits ==
  ASSUME NEW c, CacheFits(c), NEW r \in Request, c.items[r] # NoItems
  PROVE  CacheFits([c EXCEPT !.order = touch(c.order, r)])
<1> DEFINE t == touch(c.order, r)
           new == [items |-> c.items, order |-> t, used |-> c.used]
<1>1. [c EXCEPT !.order = t] = new
  BY DEF CacheFits, Counted
<1>2. /\ t \in Seq(Request) /\ Once(t)
      /\ \A x : Contains(t, x) <=> Contains(c.order, x) \/ x = r
      /\ Len(t) > 0
  BY MovedToEnd DEF touch, CacheFits, Counted
<1>3. Contains(c.order, r)
  BY DEF CacheFits, Counted
<1> HIDE DEF t
<1>4. SumFunction(HeldBytes(new)) = c.used
  <2>1. new.items = c.items
    OBVIOUS
  <2> HIDE DEF new
  <2>2. HeldBytes(new) = HeldBytes(c)
    BY <2>1, HeldBytesIs
  <2> QED
    BY <2>2 DEF CacheFits, Counted
<1>5. Len(c.order) = 1 => Len(t) = 1
  <2> SUFFICES ASSUME Len(c.order) = 1, Len(t) # 1 PROVE FALSE
    OBVIOUS
  <2>0. Len(t) \in Nat /\ Len(t) > 0 /\ DOMAIN t = 1..Len(t)
    BY <1>2
  <2>1. Len(t) \in Nat /\ 1 \in DOMAIN t /\ 2 \in DOMAIN t
    BY <2>0
  <2>2. \A x : Contains(c.order, x) => x = c.order[1]
    BY DEF Contains
  <2>3. \A x : Contains(t, x) => x = r
    BY <1>2, <1>3, <2>2
  <2>4. t[1] = r /\ t[2] = r
    BY <1>2, <2>1, <2>3 DEF Contains
  <2> QED
    BY <1>2, <2>1, <2>4 DEF Once
<1>6. Counted(new)
  BY <1>2, <1>3, <1>4 DEF CacheFits, Counted
<1>7. CacheFits(new)
  BY <1>5, <1>6 DEF CacheFits
<1> QED
  BY <1>1, <1>7 DEF t

\* A cache with an item put under a key, and its bytes counted.
Recorded(c, r, key, item) ==
  [items |-> [x \in Request |-> IF x = r THEN Put(c.items[r], key, item) ELSE c.items[x]],
   order |-> touch(c.order, r),
   used  |-> c.used + (Bytes(item) - BytesAt(c.items[r], key))]

LEMMA RecordedIsCounted ==
  ASSUME NEW c, Counted(c), NEW r \in Request, NEW key, NEW item, ItemFits(key, item)
  PROVE  LET new == Recorded(c, r, key, item)
         IN /\ Counted(new) /\ Len(new.order) > 0 /\ new.order[Len(new.order)] = r
            /\ new.items[r] = Put(c.items[r], key, item)
            /\ \A x \in Request : x # r => new.items[x] = c.items[x]
<1> DEFINE t == touch(c.order, r)
           new == Recorded(c, r, key, item)
           put == Put(c.items[r], key, item)
           more == Bytes(item) - BytesAt(c.items[r], key)
<1>0. c.order \in Seq(Request) /\ Once(c.order) /\ (\A x \in Request : ItemsFit(c.items[x]))
      /\ \A x \in Request : c.items[x] = NoItems \/ Contains(c.order, x)
  BY DEF Counted
<1>1. /\ t \in Seq(Request) /\ Once(t)
      /\ \A x : Contains(t, x) <=> Contains(c.order, x) \/ x = r
      /\ Len(t) > 0 /\ t[Len(t)] = r
  BY <1>0, MovedToEnd DEF touch
<1>2. /\ ItemsFit(put)
      /\ SumFunction(ItemBytes(put)) = SumFunction(ItemBytes(c.items[r])) + more
  BY <1>0, PutIs
<1>3. /\ new = [items |-> new.items, order |-> new.order, used |-> new.used]
      /\ new.items = [x \in Request |-> new.items[x]] /\ new.order = t
      /\ new.items[r] = put
      /\ \A x \in Request : x # r => new.items[x] = c.items[x]
      /\ new.used = c.used + more
  BY DEF Recorded
<1>a. Bytes(item) \in Nat /\ BytesAt(c.items[r], key) \in Nat
  BY <1>0, BytesAreNat DEF ItemsFit, BytesAt
<1>b. more \in Int /\ c.used \in Nat
  <2>1. \A x \in Request : HeldBytes(c)[x] \in Nat
    BY <1>0, HeldBytesIs, ItemBytesAreNat
  <2>2. SumFunctionOnSet(HeldBytes(c), Request) \in Nat
    BY <2>1, KVAssumption, SumIsNat
  <2>3. c.used \in Nat
    BY <2>2, HeldBytesIs, SumFunctionIs DEF Counted
  <2> QED
    BY <1>a, <2>3
<1> HIDE DEF new, t, put, more
<1>4. \A x \in Request : ItemsFit(new.items[x])
  BY <1>0, <1>2, <1>3
<1>5. \A x \in Request : new.items[x] = NoItems \/ Contains(t, x)
  BY <1>0, <1>1, <1>3
<1>6. new.used = SumFunction(HeldBytes(new))
  <2> DEFINE old == HeldBytes(c)
             now == HeldBytes(new)
             S == Request \ {r}
  <2>1. /\ \A x \in Request : old[x] = SumFunction(ItemBytes(c.items[x])) /\ old[x] \in Nat
        /\ DOMAIN old = Request
    BY <1>0, HeldBytesIs, ItemBytesAreNat
  <2>2. /\ \A x \in Request : now[x] = SumFunction(ItemBytes(new.items[x])) /\ now[x] \in Nat
        /\ DOMAIN now = Request
    BY <1>4, HeldBytesIs, ItemBytesAreNat
  <2>3. c.used = SumFunction(old)
    BY DEF Counted
  <2> HIDE DEF old, now
  <2>4. IsFiniteSet(Request) /\ IsFiniteSet(S) /\ S \in SUBSET Request
    BY KVAssumption, FS_Subset
  <2>5. SumFunctionOnSet(old, Request) = old[r] + SumFunctionOnSet(old, S)
        /\ SumFunctionOnSet(now, Request) = now[r] + SumFunctionOnSet(now, S)
    BY <2>1, <2>2, <2>4, SumWithout
  <2>6. SumFunctionOnSet(old, S) = SumFunctionOnSet(now, S)
    <3>1. \A x \in S : old[x] = now[x]
      BY <1>3, <2>1, <2>2
    <3> HIDE DEF S
    <3> QED
      BY <2>4, <3>1, SameSum
  <2>7. SumFunctionOnSet(old, S) \in Nat
    <3>1. \A x \in S : old[x] \in Nat
      BY <2>1
    <3> HIDE DEF S
    <3> QED
      BY <2>4, <3>1, SumIsNat
  <2>8. now[r] = old[r] + more
    BY <1>2, <1>3, <2>1, <2>2
  <2>9. SumFunction(old) = SumFunctionOnSet(old, Request) /\ SumFunction(now) = SumFunctionOnSet(now, Request)
    BY <2>1, <2>2, SumFunctionIs
  <2>10. old[r] \in Nat
    BY <2>1
  <2> HIDE DEF S
  <2>11. new.used = SumFunction(now)
    BY <1>3, <1>b, <2>3, <2>5, <2>6, <2>7, <2>8, <2>9, <2>10
  <2> QED
    BY <2>11 DEF now
<1>7. Counted(new)
  BY <1>1, <1>3, <1>4, <1>5, <1>6 DEF Counted
<1> QED
  BY <1>1, <1>3, <1>7 DEF new, put

LEMMA FoldedFits ==
  ASSUME NEW e, e = NoEntry \/ EntryFits(e), NEW s \in NonHead, NEW col, Sized(col, LayersOf[s]), NEW i
  PROVE  EntryFits(Folded(e, s, i, col, K))
<1> DEFINE new == Folded(e, s, i, col, K)
           T == new.contributors
           q == gf_mul_scalar(gf_pow(i), col)
<1>1. /\ new = [parity |-> new.parity, q_parity |-> new.q_parity, contributors |-> new.contributors]
      /\ T = e.contributors \cup {s} /\ new.parity = XorColumns(e.parity, col)
      /\ K = 2 => new.q_parity = XorColumns(e.q_parity, q)
      /\ K # 2 => new.q_parity = << >>
  BY DEF Folded
<1>2. Sized(q, LayersOf[s])
  BY ScalarSize
<1> HIDE DEF new, q
<1>3. CASE e = NoEntry
  <2>1. e.contributors = {} /\ e.parity = << >> /\ e.q_parity = << >>
    BY <1>3 DEF NoEntry
  <2>2. T = {s} /\ Widest(T) = LayersOf[s] /\ LayersOf[s] \in Nat
    BY <1>1, <2>1, WidestOfOne, Lengths
  <2>3. Larger(0, LayersOf[s]) = LayersOf[s]
    BY <2>2 DEF Larger
  <2>4. Sized(new.parity, Widest(T))
    BY <1>1, <2>1, <2>2, <2>3, EmptyIsSized, XorColumnsSize
  <2>5. K = 2 => Sized(new.q_parity, Widest(T))
    BY <1>1, <1>2, <2>1, <2>2, <2>3, EmptyIsSized, XorColumnsSize
  <2>6. K # 2 => Sized(new.q_parity, 0)
    BY <1>1, EmptyIsSized
  <2>7. Sized(new.q_parity, IF K = 2 THEN Widest(T) ELSE 0)
    BY <2>5, <2>6
  <2>8. EntryFits(new)
    BY <1>1, <2>2, <2>4, <2>7 DEF EntryFits
  <2> QED
    BY <2>8 DEF new
<1>4. CASE EntryFits(e)
  <2>1. /\ e.contributors \in SUBSET NonHead /\ e.contributors # {}
        /\ Sized(e.parity, Widest(e.contributors))
        /\ K = 2 => Sized(e.q_parity, Widest(e.contributors))
    BY <1>4 DEF EntryFits
  <2>2. T \subseteq NonHead /\ T # {} /\ Widest(T) = Larger(Widest(e.contributors), LayersOf[s])
    BY <1>1, <2>1, WidestGrows
  <2>4. Sized(new.parity, Widest(T))
    BY <1>1, <2>1, <2>2, XorColumnsSize
  <2>5. K = 2 => Sized(new.q_parity, Widest(T))
    BY <1>1, <1>2, <2>1, <2>2, XorColumnsSize
  <2>6. K # 2 => Sized(new.q_parity, 0)
    BY <1>1, EmptyIsSized
  <2>7. Sized(new.q_parity, IF K = 2 THEN Widest(T) ELSE 0)
    BY <2>5, <2>6
  <2>8. EntryFits(new)
    BY <1>1, <2>2, <2>4, <2>7 DEF EntryFits
  <2> QED
    BY <2>8 DEF new
<1> QED
  BY <1>3, <1>4

\* What store does.
LEMMA StoreIs ==
  ASSUME mode = "replicate", NEW c, Counted(c), NEW r \in Request, NEW s \in NonHead, NEW j,
         NEW col, Sized(col, LayersOf[s])
  PROVE  store(c, r, s, j, col) =
           IF Holds(c, r, <<s, j>>) THEN [c EXCEPT !.order = touch(c.order, r)]
           ELSE LET new == Recorded(c, r, <<s, j>>, col) IN evict_if_needed(new, HeldBytes(new))
<1> DEFINE key == <<s, j>>
           touched == [c EXCEPT !.order = touch(@, r)]
           stored == [touched EXCEPT !.items[r] = Put(c.items[r], key, col), !.used = @ + Len(col)]
<1>1. store(c, r, s, j, col) = IF Holds(c, r, key) THEN touched
                               ELSE evict_if_needed(stored, ReplicaBytes(stored))
  BY DEF store
<1>2. touched = [c EXCEPT !.order = touch(c.order, r)]
  OBVIOUS
<1>3. ASSUME ~Holds(c, r, key)
      PROVE  stored = Recorded(c, r, key, col)
  <2>1. /\ c = [items |-> c.items, order |-> c.order, used |-> c.used]
        /\ c.items = [x \in Request |-> c.items[x]]
    BY DEF Counted
  <2>2. touched = [items |-> c.items, order |-> touch(c.order, r), used |-> c.used]
    BY <2>1
  <2>3. BytesAt(c.items[r], key) = 0 /\ Bytes(col) = Len(col) /\ Len(col) \in Nat
    BY <1>3, SizedIs DEF BytesAt, Bytes, Holds
  <2>4. c.used + Len(col) = c.used + (Bytes(col) - BytesAt(c.items[r], key))
    BY <2>3
  <2>5. [c.items EXCEPT ![r] = Put(c.items[r], key, col)]
          = [x \in Request |-> IF x = r THEN Put(c.items[r], key, col) ELSE c.items[x]]
    BY <2>1
  <2>6. stored = [items |-> [c.items EXCEPT ![r] = Put(c.items[r], key, col)], order |-> touch(c.order, r),
                  used |-> c.used + Len(col)]
    <3> DEFINE half == [touched EXCEPT !.items[r] = Put(c.items[r], key, col)]
    <3>1. half = [items |-> [c.items EXCEPT ![r] = Put(c.items[r], key, col)], order |-> touch(c.order, r),
                  used |-> c.used]
      <4> HIDE DEF touched
      <4>1. \A t, put : t = [items |-> c.items, order |-> touch(c.order, r), used |-> c.used]
              => [t EXCEPT !.items[r] = put]
                   = [items |-> [c.items EXCEPT ![r] = put], order |-> touch(c.order, r), used |-> c.used]
        OBVIOUS
      <4> QED
        BY <2>2, <4>1
    <3>2. stored = [half EXCEPT !.used = @ + Len(col)]
      OBVIOUS
    <3> HIDE DEF half, stored, touched
    <3> QED
      BY <3>1, <3>2
  <2> QED
    BY <2>4, <2>5, <2>6 DEF Recorded
<1>4. ReplicaBytes(stored) = HeldBytes(stored)
  BY DEF HeldBytes
<1> QED
  BY <1>1, <1>2, <1>3, <1>4

\* What xor_in does.
LEMMA XorInIs ==
  ASSUME mode # "replicate", NEW c, Counted(c), NEW r \in Request, NEW s \in NonHead, NEW j,
         NEW col, Sized(col, LayersOf[s]), NEW i
  PROVE  LET old == Entry(c, r, j)
             e == Folded(old, s, i, col, K)
             new == Recorded(c, r, j, e)
         IN /\ old = NoEntry \/ EntryFits(old)
            /\ EntryFits(e)
            /\ xor_in(c, r, s, j, col, i, K) =
                 IF s \in old.contributors THEN [c EXCEPT !.order = touch(c.order, r)]
                 ELSE evict_if_needed(new, HeldBytes(new))
<1> DEFINE old == Entry(c, r, j)
           e == Folded(old, s, i, col, K)
           touched == [c EXCEPT !.order = touch(@, r)]
           folded == [touched EXCEPT !.items[r] = Put(c.items[r], j, e), !.used = @ + Blobs(e) - Blobs(old)]
<1>1. xor_in(c, r, s, j, col, i, K) = IF s \in old.contributors THEN touched
                                      ELSE evict_if_needed(folded, ParityBytes(folded))
  BY DEF xor_in
<1>2. touched = [c EXCEPT !.order = touch(c.order, r)]
  OBVIOUS
<1>3. old = NoEntry \/ EntryFits(old)
  BY DEF Entry, Holds, Counted, ItemsFit, ItemFits
<1>4. EntryFits(e)
  <2> HIDE DEF old
  <2> QED
    BY <1>3, FoldedFits
<1>5. Blobs(old) = BytesAt(c.items[r], j)
  <2>1. CASE Holds(c, r, j)
    BY <2>1 DEF Entry, Holds, BytesAt, Bytes
  <2>2. CASE ~Holds(c, r, j)
    <3>1. Blobs(NoEntry) = 0
      BY DEF Blobs, NoEntry
    <3> QED
      BY <2>2, <3>1 DEF Entry, Holds, BytesAt
  <2> QED
    BY <2>1, <2>2
<1>6. folded = Recorded(c, r, j, e)
  <2>1. /\ c = [items |-> c.items, order |-> c.order, used |-> c.used]
        /\ c.items = [x \in Request |-> c.items[x]]
    BY DEF Counted
  <2>2. touched = [items |-> c.items, order |-> touch(c.order, r), used |-> c.used]
    BY <2>1
  <2>3. Bytes(e) = Blobs(e)
    BY DEF Bytes
  <2> HIDE DEF e, old
  <2>5. [c.items EXCEPT ![r] = Put(c.items[r], j, e)]
          = [x \in Request |-> IF x = r THEN Put(c.items[r], j, e) ELSE c.items[x]]
    BY <2>1
  <2>6. folded = [items |-> [c.items EXCEPT ![r] = Put(c.items[r], j, e)], order |-> touch(c.order, r),
                  used |-> c.used + (Blobs(e) - Blobs(old))]
    <3> DEFINE half == [touched EXCEPT !.items[r] = Put(c.items[r], j, e)]
    <3>1. half = [items |-> [c.items EXCEPT ![r] = Put(c.items[r], j, e)], order |-> touch(c.order, r),
                  used |-> c.used]
      <4> HIDE DEF touched
      <4>1. \A t, put : t = [items |-> c.items, order |-> touch(c.order, r), used |-> c.used]
              => [t EXCEPT !.items[r] = put]
                   = [items |-> [c.items EXCEPT ![r] = put], order |-> touch(c.order, r), used |-> c.used]
        OBVIOUS
      <4> QED
        BY <2>2, <4>1
    <3>2. folded = [half EXCEPT !.used = @ + (Blobs(e) - Blobs(old))]
      OBVIOUS
    <3> HIDE DEF half, folded, touched
    <3> QED
      BY <3>1, <3>2
  <2> QED
    BY <1>5, <2>3, <2>5, <2>6 DEF Recorded
<1>7. ParityBytes(folded) = HeldBytes(folded)
  BY DEF HeldBytes
<1> HIDE DEF folded, touched, e, old
<1>8. xor_in(c, r, s, j, col, i, K) =
        IF s \in old.contributors THEN [c EXCEPT !.order = touch(c.order, r)]
        ELSE evict_if_needed(Recorded(c, r, j, e), HeldBytes(Recorded(c, r, j, e)))
  BY <1>1, <1>2, <1>6, <1>7
<1> QED
  BY <1>3, <1>4, <1>8 DEF e, old

\* A push leaves a cache that fits.
LEMMA RecordFits ==
  ASSUME CacheFits(cache), NEW r \in Request, NEW s \in NonHead, NEW j, NEW col, Sized(col, LayersOf[s])
  PROVE  CacheFits(record_kv(r, s, j, col))
<1>0. Counted(cache) /\ \A x \in Request : ItemsFit(cache.items[x])
  BY DEF CacheFits, Counted
<1>1. CASE mode = "replicate"
  <2>1. record_kv(r, s, j, col) = store(cache, r, s, j, col)
    BY <1>1 DEF record_kv
  <2>2. CASE Holds(cache, r, <<s, j>>)
    <3>1. cache.items[r] # NoItems
      BY <2>2, NoItemsFit DEF Holds
    <3> QED
      BY <1>0, <1>1, <2>1, <2>2, <3>1, StoreIs, TouchFits
  <2>3. CASE ~Holds(cache, r, <<s, j>>)
    <3> DEFINE new == Recorded(cache, r, <<s, j>>, col)
    <3>1. ItemFits(<<s, j>>, col)
      BY <1>1 DEF ItemFits
    <3>2. Counted(new) /\ Len(new.order) > 0
      BY <1>0, <3>1, RecordedIsCounted
    <3>3. store(cache, r, s, j, col) = evict_if_needed(new, HeldBytes(new))
      BY <1>0, <1>1, <2>3, StoreIs
    <3> HIDE DEF new
    <3> QED
      BY <2>1, <3>2, <3>3, EvictionFits
  <2> QED
    BY <2>2, <2>3
<1>2. CASE mode # "replicate"
  <2> DEFINE old == Entry(cache, r, j)
             i == _parity_coeff(s)
             e == Folded(old, s, i, col, K)
             new == Recorded(cache, r, j, e)
  <2>1. record_kv(r, s, j, col) = xor_in(cache, r, s, j, col, i, K)
    BY <1>2 DEF record_kv
  <2> HIDE DEF i
  <2>2. /\ EntryFits(e)
        /\ xor_in(cache, r, s, j, col, i, K) =
             IF s \in old.contributors THEN [cache EXCEPT !.order = touch(cache.order, r)]
             ELSE evict_if_needed(new, HeldBytes(new))
    BY <1>0, <1>2, XorInIs
  <2>3. CASE s \in old.contributors
    <3>1. cache.items[r] # NoItems
      BY <2>3, NoItemsFit DEF Entry, NoEntry, Holds
    <3> QED
      BY <2>1, <2>2, <2>3, <3>1, TouchFits
  <2>4. CASE s \notin old.contributors
    <3>1. ItemFits(j, e)
      BY <1>2, <2>2 DEF ItemFits
    <3> HIDE DEF e, old
    <3>2. Counted(new) /\ Len(new.order) > 0
      BY <1>0, <3>1, RecordedIsCounted
    <3> HIDE DEF new
    <3> QED
      BY <2>1, <2>2, <2>4, <3>2, EvictionFits
  <2> QED
    BY <2>3, <2>4
<1> QED
  BY <1>1, <1>2

-----------------------------------------------------------------------------
(* The bytes of a slot.                                                     *)

LEMMA Everyone ==
  ASSUME NEW T \in SUBSET NonHead
  PROVE  Cardinality(T) = num_stages <=> T = NonHead
<1>1. Cardinality(NonHead) = num_stages /\ IsFiniteSet(NonHead)
  <2>1. N \in Nat /\ N > 2 /\ NonHead = 2..N
    BY Lengths
  <2>2. Cardinality(2..N) = N - 2 + 1
    BY <2>1, FS_Interval
  <2> QED
    BY <2>1, <2>2, Lengths DEF num_stages
<1>2. ASSUME Cardinality(T) = num_stages
      PROVE  T = NonHead
  <2>1. Cardinality(T) = Cardinality(NonHead)
    BY <1>1, <1>2
  <2> QED
    BY <1>1, <2>1, FS_Subset
<1> QED
  BY <1>1, <1>2

LEMMA SlotCosts ==
  ASSUME mode \in DOMAIN Bounds, CacheFits(cache), NEW r \in Request, NEW j \in SlotsOf(r)
  PROVE  /\ SlotBytes(r, j) <= replication_overhead[mode]
         /\ AllPushed(r, j) => SlotBytes(r, j) = replication_overhead[mode]
<1>0. ItemsFit(cache.items[r]) /\ NonHead # {} /\ NonHead \in SUBSET NonHead /\ IsFiniteSet(NonHead)
  BY Lengths DEF CacheFits, Counted
<1>1. CASE mode = "replicate"
  <2> DEFINE kept == {s \in NonHead : Holds(cache, r, <<s, j>>)}
             f == [s \in kept |-> Len(cache.items[r][<<s, j>>])]
  <2>1. SlotBytes(r, j) = SumFunction(f)
    BY <1>1 DEF SlotBytes
  <2>2. SumFunction(f) = SumFunctionOnSet(f, kept)
    BY SumFunctionIs
  <2>3. \A s \in kept : f[s] = LayersOf[s]
    <3> SUFFICES ASSUME NEW s \in kept PROVE f[s] = LayersOf[s]
      OBVIOUS
    <3>1. ItemFits(<<s, j>>, cache.items[r][<<s, j>>])
      BY <1>0 DEF ItemsFit, Holds
    <3>2. Sized(cache.items[r][<<s, j>>], LayersOf[s])
      BY <1>1, <3>1 DEF ItemFits
    <3> QED
      BY <3>2, SizedIs
  <2>4. kept \in SUBSET NonHead /\ IsFiniteSet(kept)
    BY <1>0, FS_Subset
  <2>5. AllPushed(r, j) => kept = NonHead
    BY <1>1 DEF AllPushed
  <2> HIDE DEF kept, f
  <2>6. SumFunctionOnSet(f, kept) = SumFunctionOnSet(LayersOf, kept)
    BY <2>3, <2>4, SameSum
  <2>7. \A s \in NonHead : LayersOf[s] \in Nat
    BY Lengths
  <2>8. SumFunctionOnSet(LayersOf, kept) <= SumFunctionOnSet(LayersOf, NonHead)
    BY <1>0, <2>4, <2>7, SumOfLess
  <2>9. replication_overhead[mode] = SumFunctionOnSet(LayersOf, NonHead)
    BY <1>1 DEF replication_overhead
  <2> QED
    BY <2>1, <2>2, <2>5, <2>6, <2>8, <2>9
<1>2. CASE mode # "replicate"
  <2> DEFINE e == cache.items[r][j]
             T == e.contributors
  <2>1. j \in DOMAIN cache.items[r]
    BY <1>2 DEF SlotsOf
  <2>2. EntryFits(e) /\ SlotBytes(r, j) = Blobs(e) /\ Entry(cache, r, j) = e
    BY <1>0, <1>2, <2>1 DEF ItemsFit, ItemFits, SlotBytes, Entry, Holds
  <2> HIDE DEF e
  <2>3. T \in SUBSET NonHead /\ T # {}
    BY <2>2 DEF EntryFits
  <2>4. AllPushed(r, j) => T = NonHead
    BY <1>2, <2>2, <2>3, Everyone DEF AllPushed, parity_is_complete
  <2>5. SlotBytes(r, j) = IF K = 2 THEN 2 * Widest(T) ELSE Widest(T)
    BY <2>2, EntryBlobs
  <2> HIDE DEF T
  <2>6. Widest(T) <= Widest(NonHead) /\ Widest(T) \in Nat /\ Widest(NonHead) \in Nat
    BY <1>0, <2>3, WidestIsMonotone, WidestIs
  <2>7. replication_overhead[mode] = IF K = 2 THEN 2 * Widest(NonHead) ELSE Widest(NonHead)
    <3>1. mode \in {"parity", "raid6"} /\ (K = 2 <=> mode = "raid6")
      BY <1>2, KVAssumption DEF K
    <3> QED
      BY <3>1 DEF replication_overhead, Widest
  <2> QED
    BY <2>4, <2>5, <2>6, <2>7
<1> QED
  BY <1>1, <1>2

LEMMA BytesFollow ==
  ASSUME mode \in DOMAIN Bounds, CacheFits(cache)
  PROVE  BytesCounted
<1>1. /\ cache.used = SumFunction(HeldBytes(cache))
      /\ cache.used > max_bytes => Len(cache.order) = 1
  BY DEF CacheFits, Counted
<1> QED
  BY <1>1, SlotCosts DEF BytesCounted, HeldBytes

-----------------------------------------------------------------------------
(* Shapes, in every mode.                                                   *)

Handlers == {"call", "orphan"}
HandlerType ==
  [st : {"idle", "arrived", "ran", "ok", "error"}, stage : Stage, dev : MaybeDevice,
   at : Position, good : BOOLEAN, from : Stage, blame : {0} \cup Stage]
ChainShaped(c) ==
  /\ c \in [Handlers -> HandlerType]
  /\ \A i \in Handlers : c[i].st = "error" => c[i].blame \in Stage

Attempt == {"fetch", "gate", "read", "history", "promote", "rebuild", "load"}
JobShaped(j) ==
  /\ j = [pc |-> j.pc, pos |-> j.pos, wrong |-> j.wrong, victims |-> j.victims, n |-> j.n,
          k |-> j.k, got |-> j.got, held |-> j.held, recon |-> j.recon]
  /\ j.pc \in {"step", "wait", "done", "surgical", "failed"} \cup Attempt
  /\ j.pos \in Position /\ j.wrong \in BOOLEAN /\ j.victims \in Seq(Stage)
  /\ j.n \in Nat /\ j.k \in Nat
  /\ j.pc \in Attempt => j.victims # << >>
  /\ j.pc = "fetch" => /\ DOMAIN j.got = NonHead \ ToSet(j.victims) /\ DOMAIN j.got # {}
                       /\ \A s \in DOMAIN j.got : IsSeq(j.got[s])

PushShaped(x) == x.kind = "kv" => x.stage \in NonHead /\ Sized(x.col, LayersOf[x.stage])
QueueShaped(q) == IsSeq(q) /\ \A i \in DOMAIN q : PushShaped(q[i])
PushesShaped(q) == DOMAIN q = Device /\ \A d \in Device : QueueShaped(q[d])

KVShaped(v) == DOMAIN v = Stage /\ \A s \in Stage : IsSeq(v[s])

Shapes ==
  /\ mode \in DOMAIN Bounds
  /\ plan \in [Stage -> MaybeDevice] /\ next_hop \in [Stage -> MaybeDevice]
  /\ KVShaped(kv) /\ PushesShaped(pushes) /\ ChainShaped(chain) /\ JobShaped(job)

LEMMA Numbers ==
  /\ Prompt \in Nat /\ Prompt > 0 /\ MaxTokens \in Nat /\ MaxTokens > 0
  /\ Position = 0..(MaxTokens - 1) /\ Position \subseteq Nat /\ 0 \in Position
  /\ Slot = 0..(Prompt + MaxTokens) /\ Slot \subseteq Nat
  /\ \A p \in Position : Before(p) \in Nat /\ Before(p) \in Slot
  BY KVAssumption DEF Position, Slot, Before

\* Columns.
LEMMA ColSize ==
  ASSUME NEW r \in Request, NEW s \in Stage, NEW j \in Slot
  PROVE  /\ Sized(Col(r, s, j), LayersOf[s])
         /\ Col(r, s, j) = [l \in 1..LayersOf[s] |->
              (61 * s + 29 * j + 83 * l + (IF r = Subject THEN 0 ELSE 7)) % 256]
<1>1. Col(r, s, j) = [l \in 1..LayersOf[s] |->
              (61 * s + 29 * j + 83 * l + (IF r = Subject THEN 0 ELSE 7)) % 256]
  BY DEF Col, Columns
<1>2. LayersOf[s] \in Nat
  BY Lengths
<1> QED
  BY <1>1, <1>2 DEF Sized

LEMMA BadColSize == ASSUME NEW s \in Stage PROVE Sized(BadCol(s), LayersOf[s])
<1>1. LayersOf[s] \in Nat
  BY Lengths
<1> QED
  BY <1>1 DEF BadCol, Sized

LEMMA PrefixIs ==
  ASSUME NEW s, NEW n \in Nat
  PROVE  /\ Sized(Prefix(s, n), n) /\ Len(Prefix(s, n)) = n /\ DOMAIN Prefix(s, n) = 1..n
         /\ \A i \in 1..n : Prefix(s, n)[i] = Col(Subject, s, i - 1)
<1>1. Sized(Prefix(s, n), n)
  BY DEF Prefix, Sized
<1> QED
  BY <1>1, SizedIs DEF Prefix

\* The columns of a run, and the slots they are for.
First0(h) == IF h.at = 0 THEN 0 ELSE Len(kv[h.stage])
Count0(h) == IF h.at = 0 THEN Prompt ELSE 1

LEMMA NewColumnsAre ==
  ASSUME NEW h \in HandlerType, IsSeq(kv[h.stage])
  PROVE  /\ Sized(NewColumns(h), Count0(h)) /\ Count0(h) \in Nat /\ First0(h) \in Nat
         /\ \A j \in 1..Count0(h) :
              /\ NewColumns(h)[j] = IF Runs(h) THEN Col(Subject, h.stage, First0(h) + j - 1)
                                    ELSE BadCol(h.stage)
              /\ Runs(h) => First0(h) + j - 1 \in Slot
              /\ Sized(NewColumns(h)[j], LayersOf[h.stage])
<1>1. /\ First0(h) \in Nat /\ Count0(h) \in Nat /\ h.stage \in Stage /\ h.at \in Position
      /\ h.at \in Nat /\ h.at <= MaxTokens - 1
  BY IsSeqIs, Numbers DEF First0, Count0, HandlerType
<1>2. NewColumns(h) = [j \in 1..Count0(h) |->
         IF Runs(h) THEN Col(Subject, h.stage, First0(h) + j - 1) ELSE BadCol(h.stage)]
  <2>1. CASE h.at = 0
    <3>1. Prompt - 1 - 0 + 1 = Prompt
      BY Numbers
    <3> QED
      BY <2>1, <3>1 DEF NewColumns, First0, Count0
  <2>2. CASE h.at # 0
    <3>1. Len(kv[h.stage]) - Len(kv[h.stage]) + 1 = 1
      BY <1>1, <2>2 DEF First0
    <3> QED
      BY <2>2, <3>1 DEF NewColumns, First0, Count0
  <2> QED
    BY <2>1, <2>2
<1>3. Sized(NewColumns(h), Count0(h))
  BY <1>1, <1>2 DEF Sized
<1>4. ASSUME NEW j \in 1..Count0(h), Runs(h)
      PROVE  First0(h) + j - 1 \in Slot
  <2>1. CASE h.at = 0
    <3>1. First0(h) = 0 /\ Count0(h) = Prompt
      BY <2>1 DEF First0, Count0
    <3> QED
      BY <3>1, Numbers
  <2>2. CASE h.at # 0
    <3>1. kv[h.stage] = Prefix(h.stage, Before(h.at)) /\ Before(h.at) = Prompt + h.at - 1
          /\ Before(h.at) \in Nat
      BY <1>1, <1>4, <2>2, Numbers DEF Runs, Before
    <3>2. First0(h) = Prompt + h.at - 1 /\ Count0(h) = 1
      BY <2>2, <3>1, PrefixIs DEF First0, Count0
    <3> QED
      BY <1>1, <3>2, Numbers
  <2> QED
    BY <2>1, <2>2
<1>5. \A j \in 1..Count0(h) : Sized(NewColumns(h)[j], LayersOf[h.stage])
  <2> SUFFICES ASSUME NEW j \in 1..Count0(h) PROVE Sized(NewColumns(h)[j], LayersOf[h.stage])
    OBVIOUS
  <2>1. CASE Runs(h)
    <3>1. NewColumns(h)[j] = Col(Subject, h.stage, First0(h) + j - 1)
      BY <1>2, <2>1
    <3> QED
      BY <1>1, <1>4, <2>1, <3>1, ColSize, KVAssumption
  <2>2. CASE ~Runs(h)
    <3>1. NewColumns(h)[j] = BadCol(h.stage)
      BY <1>2, <2>2
    <3> QED
      BY <1>1, <3>1, BadColSize
  <2> QED
    BY <2>1, <2>2
<1> QED
  BY <1>1, <1>2, <1>3, <1>4, <1>5

LEMMA ShippedAre ==
  ASSUME NEW h \in HandlerType, IsSeq(kv[h.stage])
  PROVE  /\ Sized(Shipped(h), Count0(h))
         /\ \A j \in 1..Count0(h) : Shipped(h)[j] = KVPush(h.stage, First0(h) + j - 1, NewColumns(h)[j])
<1>1. Sized(NewColumns(h), Count0(h)) /\ Count0(h) \in Nat
  BY NewColumnsAre
<1>2. DOMAIN NewColumns(h) = 1..Count0(h)
  BY <1>1, SizedIs
<1>3. Shipped(h) = [j \in 1..Count0(h) |-> KVPush(h.stage, First0(h) + j - 1, NewColumns(h)[j])]
  BY <1>2 DEF Shipped, First0
<1> QED
  BY <1>1, <1>3 DEF Sized

-----------------------------------------------------------------------------
(* Every step keeps the shapes.                                             *)

\* The actions of a step.
LEMMA NextIs ==
  ASSUME [Next]_vars, DOMAIN chain = Handlers
  PROVE  \/ UNCHANGED vars
         \/ /\ ~Ended
            /\ \/ Step \/ StepDone \/ OneDead \/ Fetch \/ Geometry \/ ParityGate \/ Reconstruct
               \/ TwoDead \/ ReplicaGate \/ ReadReplica \/ TakeReplica
               \/ History \/ Promote \/ Rewire \/ StartLoad \/ Load \/ Live
               \/ \E i \in Handlers : Run(i) \/ InjectFault(i) \/ Forward(i)
               \/ \E d \in Device : Deliver(d) \/ Lose(d) \/ Crash(d) \/ OnFailure(d)
               \/ \E r \in Request \ {Subject}, s \in NonHead : OtherPush(r, s)
  BY DEF Next, Finished, Recover, _recover_parity, _recover_parity_double, _recover_replicate, Chain

LEMMA ChainSet ==
  ASSUME NEW c, ChainShaped(c), NEW i \in Handlers, NEW h \in HandlerType,
         h.st = "error" => h.blame \in Stage
  PROVE  ChainShaped([c EXCEPT ![i] = h])
  BY DEF ChainShaped

LEMMA IdleType == Idle \in HandlerType /\ Idle.st = "idle"
  BY Lengths, Numbers DEF Idle, HandlerType, MaybeDevice

LEMMA FailedType ==
  ASSUME NEW h \in HandlerType, NEW s \in Stage
  PROVE  Failed(h, s) \in HandlerType /\ Failed(h, s).st = "error" /\ Failed(h, s).blame = s
  BY DEF Failed, HandlerType

LEMMA QueueSet ==
  ASSUME NEW q, PushesShaped(q), NEW d, NEW x, QueueShaped(x)
  PROVE  PushesShaped([q EXCEPT ![d] = x])
  BY DEF PushesShaped

LEMMA QueueAppend ==
  ASSUME NEW q, QueueShaped(q), NEW x, PushShaped(x)
  PROVE  QueueShaped(Append(q, x))
<1>1. /\ IsSeq(Append(q, x)) /\ DOMAIN Append(q, x) = 1..(Len(q) + 1) /\ Len(q) \in Nat
      /\ DOMAIN q = 1..Len(q)
      /\ \A i \in 1..Len(q) : Append(q, x)[i] = q[i]
      /\ Append(q, x)[Len(q) + 1] = x
  BY AppendIs, IsSeqIs DEF QueueShaped
<1>2. \A i \in 1..(Len(q) + 1) : i \in 1..Len(q) \/ i = Len(q) + 1
  BY <1>1
<1> QED
  BY <1>1, <1>2 DEF QueueShaped

LEMMA QueueTail ==
  ASSUME NEW q, QueueShaped(q), q # << >>
  PROVE  QueueShaped(Tail(q)) /\ PushShaped(Head(q))
<1>1. /\ IsSeq(Tail(q)) /\ DOMAIN Tail(q) = 1..(Len(q) - 1) /\ Len(q) \in Nat
      /\ \A i \in 1..(Len(q) - 1) : Tail(q)[i] = q[i + 1]
      /\ Head(q) = q[1] /\ 1 \in DOMAIN q /\ DOMAIN q = 1..Len(q)
  BY TailIs, IsSeqIs DEF QueueShaped
<1>2. \A i \in 1..(Len(q) - 1) : i + 1 \in DOMAIN q
  BY <1>1
<1> QED
  BY <1>1, <1>2 DEF QueueShaped

LEMMA QueueConcat ==
  ASSUME NEW q, QueueShaped(q), NEW x, QueueShaped(x)
  PROVE  QueueShaped(q \o x)
<1>1. /\ Len(q) \in Nat /\ DOMAIN q = 1..Len(q) /\ Len(x) \in Nat /\ DOMAIN x = 1..Len(x)
      /\ IsSeq(q \o x) /\ DOMAIN (q \o x) = 1..(Len(q) + Len(x))
      /\ \A i \in 1..(Len(q) + Len(x)) : (q \o x)[i] = IF i <= Len(q) THEN q[i] ELSE x[i - Len(q)]
  BY ConcatIs, IsSeqIs DEF QueueShaped
<1>2. \A i \in 1..(Len(q) + Len(x)) : (i <= Len(q) /\ i \in DOMAIN q) \/ (~(i <= Len(q)) /\ i - Len(q) \in DOMAIN x)
  BY <1>1
<1> QED
  BY <1>1, <1>2 DEF QueueShaped

LEMMA ReachShapes ==
  ASSUME Shapes, NEW i \in Handlers, NEW h \in HandlerType, h.st = "arrived", Reach(i, h)
  PROVE  ChainShaped(chain') /\ PushesShaped(pushes')
<1>1. CASE Serves(h.dev, h.stage)
  <2>1. chain' = [chain EXCEPT ![i] = h]
    BY <1>1 DEF Reach
  <2>2. CASE h.stage = 1
    BY <1>1, <2>1, <2>2, ChainSet DEF Reach, Shapes
  <2>3. CASE h.stage # 1
    <3> DEFINE x == Mirror(h.stage, h.at, h.good)
    <3>1. pushes' = [pushes EXCEPT ![h.dev] = Append(@, x)]
      BY <1>1, <2>3 DEF Reach
    <3>2. PushShaped(x)
      BY DEF PushShaped, Mirror
    <3> HIDE DEF x
    <3>3. CASE h.dev \in Device
      <4>1. QueueShaped(Append(pushes[h.dev], x))
        BY <3>2, <3>3, QueueAppend DEF Shapes, PushesShaped
      <4> QED
        BY <2>1, <3>1, <4>1, ChainSet, QueueSet DEF Shapes
    <3>4. CASE h.dev \notin Device
      <4>1. \/ pushes' = pushes
            \/ DOMAIN pushes' = Device /\ \A d \in Device : pushes'[d] = pushes[d]
        BY <3>1, <3>4 DEF Shapes, PushesShaped
      <4> QED
        BY <2>1, <4>1, ChainSet DEF Shapes, PushesShaped
    <3> QED
      BY <3>3, <3>4
  <2> QED
    BY <2>2, <2>3
<1>2. CASE ~Serves(h.dev, h.stage)
  <2>1. pushes' = pushes /\ chain' = [chain EXCEPT ![i] = IF i = "call" THEN Failed(h, h.stage) ELSE Idle]
    BY <1>2 DEF Reach
  <2>2. h.stage \in Stage
    BY DEF HandlerType
  <2>3. Failed(h, h.stage) \in HandlerType /\ Failed(h, h.stage).blame \in Stage
    BY <2>2, FailedType
  <2> QED
    BY <2>1, <2>3, ChainSet, IdleType DEF Shapes
<1> QED
  BY <1>1, <1>2

LEMMA JobMade ==
  ASSUME NEW pc \in {"step", "wait", "done", "surgical", "failed"} \cup Attempt, NEW pos \in Position,
         NEW wrong \in BOOLEAN, NEW v \in Seq(Stage), NEW n \in Nat, NEW k \in Nat,
         NEW got, NEW held, NEW recon, pc \in Attempt => v # << >>,
         pc = "fetch" => /\ DOMAIN got = NonHead \ ToSet(v) /\ DOMAIN got # {}
                         /\ \A s \in DOMAIN got : IsSeq(got[s])
  PROVE  JobShaped([pc |-> pc, pos |-> pos, wrong |-> wrong, victims |-> v, n |-> n, k |-> k,
                    got |-> got, held |-> held, recon |-> recon])
  BY DEF JobShaped

LEMMA NoJobShaped == JobShaped(NoJob)
<1>1. << >> \in Seq(Stage) /\ 0 \in Position
  BY Numbers
<1> QED
  BY <1>1, JobMade DEF NoJob, Attempt

IsJob(j) ==
  j = [pc |-> j.pc, pos |-> j.pos, wrong |-> j.wrong, victims |-> j.victims, n |-> j.n,
       k |-> j.k, got |-> j.got, held |-> j.held, recon |-> j.recon]

LEMMA OverIs ==
  ASSUME NEW why
  PROVE  Over(why) = [pc |-> why, pos |-> job.pos, wrong |-> job.wrong, victims |-> << >>, n |-> 0,
                      k |-> 1, got |-> << >>, held |-> << >>, recon |-> << >>]
<1>1. /\ IsJob(NoJob) /\ NoJob.victims = << >> /\ NoJob.n = 0 /\ NoJob.k = 1 /\ NoJob.got = << >>
      /\ NoJob.held = << >> /\ NoJob.recon = << >>
  BY DEF NoJob, IsJob
<1>2. ASSUME NEW j, IsJob(j), NEW o, o = [j EXCEPT !.pc = why, !.pos = job.pos, !.wrong = job.wrong]
      PROVE  o = [pc |-> why, pos |-> job.pos, wrong |-> job.wrong, victims |-> j.victims, n |-> j.n,
                  k |-> j.k, got |-> j.got, held |-> j.held, recon |-> j.recon]
  BY <1>2 DEF IsJob
<1>3. Over(why) = [pc |-> why, pos |-> job.pos, wrong |-> job.wrong, victims |-> NoJob.victims,
                   n |-> NoJob.n, k |-> NoJob.k, got |-> NoJob.got, held |-> NoJob.held,
                   recon |-> NoJob.recon]
  BY <1>1, <1>2 DEF Over
<1> QED
  BY <1>1, <1>3

LEMMA OverShaped ==
  ASSUME JobShaped(job), NEW why \in {"surgical", "failed"}
  PROVE  JobShaped(Over(why)) /\ Over(why).pc = why /\ Over(why).pos = job.pos /\ Over(why).wrong = job.wrong
<1> DEFINE o == [pc |-> why, pos |-> job.pos, wrong |-> job.wrong, victims |-> << >>, n |-> 0,
                 k |-> 1, got |-> << >>, held |-> << >>, recon |-> << >>]
<1>1. << >> \in Seq(Stage) /\ job.pos \in Position /\ job.wrong \in BOOLEAN
  BY DEF JobShaped
<1>2. why \in {"step", "wait", "done", "surgical", "failed"} \cup Attempt /\ why \notin Attempt /\ why # "fetch"
  BY DEF Attempt
<1>3. JobShaped(o)
  BY <1>1, <1>2, JobMade
<1>4. o.pc = why /\ o.pos = job.pos /\ o.wrong = job.wrong
  OBVIOUS
<1> HIDE DEF o
<1>5. Over(why) = o
  BY OverIs DEF o
<1> QED
  BY <1>3, <1>4, <1>5

LEMMA RebuildingShaped ==
  ASSUME JobShaped(job), NEW v \in Seq(Stage), v # << >>,
         NonHead \subseteq ToSet(v) => NonHead = ToSet(v)
  PROVE  JobShaped(Rebuilding(v))
<1>0. job.pos \in Position /\ job.wrong \in BOOLEAN /\ job.n \in Nat /\ job.k \in Nat
  BY DEF JobShaped
<1>1. CASE mode = "replicate"
  <2>1. Rebuilding(v) = [pc |-> "gate", pos |-> job.pos, wrong |-> job.wrong, victims |-> v,
                         n |-> Before(job.pos), k |-> 0, got |-> job.got, held |-> job.held,
                         recon |-> job.recon]
    BY <1>1 DEF Rebuilding, JobShaped
  <2>2. Before(job.pos) \in Nat
    BY <1>0, Numbers
  <2> QED
    BY <1>0, <2>1, <2>2, JobMade DEF Attempt
<1>2. CASE mode # "replicate" /\ NonHead = ToSet(v)
  BY <1>2, OverShaped DEF Rebuilding
<1>3. CASE mode # "replicate" /\ NonHead # ToSet(v)
  <2> DEFINE got == [s \in NonHead \ ToSet(v) |-> << >>]
  <2>1. Rebuilding(v) = [pc |-> "fetch", pos |-> job.pos, wrong |-> job.wrong, victims |-> v,
                         n |-> job.n, k |-> job.k, got |-> got, held |-> job.held,
                         recon |-> job.recon]
    BY <1>3 DEF Rebuilding, JobShaped
  <2>2. DOMAIN got = NonHead \ ToSet(v) /\ \A s \in DOMAIN got : IsSeq(got[s])
    BY EmptyIsSized
  <2> HIDE DEF got
  <2>3. DOMAIN got # {}
    BY <1>3, <2>2
  <2>4. "fetch" \in Attempt
    BY DEF Attempt
  <2>5. JobShaped([pc |-> "fetch", pos |-> job.pos, wrong |-> job.wrong, victims |-> v,
                   n |-> job.n, k |-> job.k, got |-> got, held |-> job.held, recon |-> job.recon])
    BY <1>0, <2>2, <2>3, <2>4, JobMade
  <2> QED
    BY <2>1, <2>5
<1> QED
  BY <1>1, <1>2, <1>3

LEMMA InvokedType ==
  ASSUME Shapes, NEW s \in Stage, NEW good \in BOOLEAN, NEW h,
         h = [Idle EXCEPT !.st = "arrived", !.stage = s, !.from = s, !.dev = plan[s],
                          !.at = job.pos, !.good = good]
  PROVE  /\ h \in HandlerType
         /\ h = [st |-> "arrived", stage |-> s, dev |-> plan[s], at |-> job.pos, good |-> good,
                 from |-> s, blame |-> 0]
<1>1. plan[s] \in MaybeDevice /\ job.pos \in Position
  BY DEF Shapes, JobShaped
<1>2. Idle \in HandlerType /\ Idle.blame = 0
  BY IdleType DEF Idle
<1>3. h = [st |-> "arrived", stage |-> s, dev |-> plan[s], at |-> job.pos, good |-> good,
           from |-> s, blame |-> Idle.blame]
  BY <1>2 DEF HandlerType
<1> QED
  BY <1>1, <1>2, <1>3 DEF HandlerType

LEMMA InvokeShapes ==
  ASSUME Shapes, NEW s \in Stage, NEW good \in BOOLEAN, Invoke(s, good)
  PROVE  ChainShaped(chain') /\ PushesShaped(pushes')
<1> DEFINE h == [Idle EXCEPT !.st = "arrived", !.stage = s, !.from = s, !.dev = plan[s],
                             !.at = job.pos, !.good = good]
<1>1. Reach("call", h)
  BY DEF Invoke
<1>2. h \in HandlerType /\ h = [st |-> "arrived", stage |-> s, dev |-> plan[s], at |-> job.pos,
                                good |-> good, from |-> s, blame |-> 0]
  BY InvokedType
<1> HIDE DEF h
<1>3. h.st = "arrived" /\ "call" \in Handlers
  BY <1>2 DEF Handlers
<1> QED
  BY <1>1, <1>2, <1>3, ReachShapes

\* The thread of the gateway between two positions.
LEMMA StepShapes ==
  ASSUME Shapes, Step
  PROVE  Shapes'
<1>1. Invoke(1, TRUE) /\ 1 \in Stage
  BY Lengths DEF Step
<1>2. ChainShaped(chain') /\ PushesShaped(pushes')
  BY <1>1, InvokeShapes
<1>3. JobShaped(job')
  <2>1. JobShaped(job) /\ job.pc = "step" /\ job' = [job EXCEPT !.pc = "wait"]
    BY DEF Shapes, Step
  <2>2. job' = [pc |-> "wait", pos |-> job.pos, wrong |-> job.wrong, victims |-> job.victims,
                n |-> job.n, k |-> job.k, got |-> job.got, held |-> job.held, recon |-> job.recon]
    BY <2>1 DEF JobShaped
  <2>3. "wait" \notin Attempt
    BY DEF Attempt
  <2> QED
    BY <2>1, <2>2, <2>3, JobMade DEF JobShaped
<1> QED
  BY <1>2, <1>3 DEF Step, Shapes

LEMMA NextPosition ==
  ASSUME NEW p \in Position, p + 1 # MaxTokens
  PROVE  p + 1 \in Position
  BY Numbers

LEMMA StepDoneShapes ==
  ASSUME Shapes, StepDone
  PROVE  Shapes'
<1> DEFINE last == job.pos + 1 = MaxTokens
           w == job.wrong \/ ~chain["call"].good
<1>1. JobShaped(job) /\ ChainShaped(chain)
  BY DEF Shapes
<1>2. chain' = [chain EXCEPT !["call"] = Idle] /\ "call" \in Handlers
  BY DEF StepDone, Handlers
<1>3. ChainShaped(chain')
  BY <1>1, <1>2, IdleType, ChainSet
<1>4. JobShaped(job')
  <2>1. /\ IsJob(NoJob) /\ NoJob.pos = 0 /\ NoJob.victims = << >> /\ NoJob.n = 0 /\ NoJob.k = 1
        /\ NoJob.got = << >> /\ NoJob.held = << >> /\ NoJob.recon = << >>
    BY DEF NoJob, IsJob
  <2>2. job' = [NoJob EXCEPT !.pc = IF last THEN "done" ELSE "step",
                             !.pos = IF last THEN NoJob.pos ELSE job.pos + 1, !.wrong = w]
    BY DEF StepDone
  <2>3. w \in BOOLEAN /\ job.pos \in Position
    BY <1>1 DEF JobShaped
  <2>4. CASE last
    <3> HIDE DEF w
    <3>1. job' = [NoJob EXCEPT !.pc = "done", !.pos = NoJob.pos, !.wrong = w]
      BY <2>2, <2>4
    <3>2. job' = [pc |-> "done", pos |-> NoJob.pos, wrong |-> w, victims |-> NoJob.victims, n |-> NoJob.n,
                  k |-> NoJob.k, got |-> NoJob.got, held |-> NoJob.held, recon |-> NoJob.recon]
      BY <2>1, <3>1 DEF IsJob
    <3>3. "done" \notin Attempt /\ NoJob.pos \in Position /\ << >> \in Seq(Stage)
      BY <2>1, Numbers DEF Attempt
    <3>4. JobShaped([pc |-> "done", pos |-> NoJob.pos, wrong |-> w, victims |-> << >>, n |-> 0,
                     k |-> 1, got |-> << >>, held |-> << >>, recon |-> << >>])
      BY <2>3, <3>3, JobMade
    <3> QED
      BY <2>1, <3>2, <3>4
  <2>5. CASE ~last
    <3>0. job.pos + 1 \in Position
      BY <2>3, <2>5, NextPosition
    <3> HIDE DEF w
    <3>1. job' = [NoJob EXCEPT !.pc = "step", !.pos = job.pos + 1, !.wrong = w]
      BY <2>2, <2>5
    <3>2. job' = [pc |-> "step", pos |-> job.pos + 1, wrong |-> w, victims |-> NoJob.victims, n |-> NoJob.n,
                  k |-> NoJob.k, got |-> NoJob.got, held |-> NoJob.held, recon |-> NoJob.recon]
      BY <2>1, <3>1 DEF IsJob
    <3>3. "step" \notin Attempt /\ << >> \in Seq(Stage)
      BY DEF Attempt
    <3> HIDE DEF last
    <3> QED
      BY <2>1, <2>3, <3>0, <3>2, <3>3, JobMade
  <2> QED
    BY <2>4, <2>5
<1> QED
  BY <1>3, <1>4 DEF StepDone, Shapes, Local, workers

-----------------------------------------------------------------------------
(* The recovery keeps the shapes.                                           *)

\* A step of the gateway's thread that only makes its job another one.
LEMMA JobOnly ==
  ASSUME Shapes, JobShaped(job'), ChainShaped(chain'), UNCHANGED <<mode, next_hop, kv, pushes>>,
         plan' \in [Stage -> MaybeDevice]
  PROVE  Shapes'
  BY DEF Shapes

LEMMA CallDropped ==
  ASSUME Shapes
  PROVE  ChainShaped([chain EXCEPT !["call"] = Idle])
<1>1. "call" \in Handlers
  BY DEF Handlers
<1> QED
  BY <1>1, IdleType, ChainSet DEF Shapes

LEMMA PlanIs ==
  ASSUME NEW D
  PROVE  build_execution_plan(Placement, Recovery, D) \in [Stage -> MaybeDevice]
<1>1. DOMAIN Placement = Stage
  BY Lengths
<1>2. \A i \in Stage : Serving(Placement, Recovery, D, i) \in MaybeDevice
  BY Lengths DEF Serving, MaybeDevice
<1> QED
  BY <1>1, <1>2 DEF build_execution_plan

LEMMA MarkDeadPlan ==
  ASSUME Shapes, NEW d, MarkDead(d)
  PROVE  plan' \in [Stage -> MaybeDevice]
  BY PlanIs DEF MarkDead, Shapes

LEMMA OneDeadShapes ==
  ASSUME Shapes, OneDead
  PROVE  Shapes'
<1> DEFINE s == chain["call"].blame
           d == Placement[s]
<1>1. /\ chain["call"].st = "error" /\ ChainShaped(chain) /\ JobShaped(job)
      /\ chain' = [chain EXCEPT !["call"] = Idle]
      /\ UNCHANGED <<mode, next_hop, kv, pushes>>
  BY DEF OneDead, Shapes, workers
<1>2. s \in Stage
  BY <1>1 DEF ChainShaped, Handlers
<1>3. plan' \in [Stage -> MaybeDevice]
  <2>1. CASE d \in dead
    BY <2>1 DEF OneDead, Shapes
  <2>2. CASE d \notin dead
    <3>1. MarkDead(d)
      BY <2>2 DEF OneDead
    <3> QED
      BY <3>1, MarkDeadPlan
  <2> QED
    BY <2>1, <2>2
<1>4. job' = Over("failed") \/ job' = Rebuilding(<<s>>)
  BY DEF OneDead
<1> HIDE DEF s, d
<1>5. <<s>> \in Seq(Stage) /\ <<s>> # << >> /\ ToSet(<<s>>) = {s}
  <2>1. \A x \in Stage : <<x>> \in Seq(Stage) /\ <<x>> # << >> /\ ToSet(<<x>>) = {x}
    BY DEF ToSet
  <2> QED
    BY <1>2, <2>1
<1>6. ~(NonHead \subseteq {s})
  <2>1. 2 \in NonHead /\ 3 \in NonHead
    BY Lengths
  <2> QED
    BY <2>1
<1>7. JobShaped(Rebuilding(<<s>>))
  BY <1>1, <1>5, <1>6, RebuildingShaped
<1>8. JobShaped(job')
  BY <1>1, <1>4, <1>7, OverShaped
<1> QED
  BY <1>1, <1>3, <1>8, CallDropped, JobOnly

LEMMA TwoDeadShapes ==
  ASSUME Shapes, TwoDead
  PROVE  Shapes'
<1> DEFINE T == DeadNonHead
           v == <<Min(T), Max(T)>>
<1>1. /\ JobShaped(job) /\ chain' = [chain EXCEPT !["call"] = Idle]
      /\ UNCHANGED <<mode, next_hop, kv, pushes, plan>> /\ plan \in [Stage -> MaybeDevice]
  BY DEF TwoDead, Shapes, Local, workers
<1>2. job' = (IF Cardinality(T) = 2 THEN Rebuilding(v) ELSE Over("surgical")) /\ Cardinality(T) > 1
  BY DEF TwoDead
<1>3. T \in SUBSET NonHead /\ T \in SUBSET Nat /\ IsFiniteSet(T)
  BY Lengths, FS_Subset DEF DeadNonHead
<1> HIDE DEF T
<1>4. T # {}
  BY <1>2, FS_EmptySet
<1>5. Min(T) \in T /\ Max(T) \in T
  BY <1>3, <1>4, MinOf, MaxOf
<1>6. ASSUME NEW a \in NonHead, NEW b \in NonHead
      PROVE  <<a, b>> \in Seq(Stage) /\ <<a, b>> # << >> /\ ToSet(<<a, b>>) \subseteq NonHead
  BY Lengths DEF ToSet
<1>7. v \in Seq(Stage) /\ v # << >> /\ ToSet(v) \subseteq NonHead
  <2>1. Min(T) \in NonHead /\ Max(T) \in NonHead
    BY <1>3, <1>5
  <2> QED
    BY <1>6, <2>1
<1> HIDE DEF v
<1>8. JobShaped(Rebuilding(v))
  BY <1>1, <1>7, RebuildingShaped
<1>9. JobShaped(job')
  BY <1>1, <1>2, <1>8, OverShaped
<1> QED
  BY <1>1, <1>9, CallDropped, JobOnly

\* A buffer of a cache.
LEMMA ExportIsSeq ==
  ASSUME Shapes, NEW s \in Stage
  PROVE  IsSeq(export_kv(s)) /\ IsSeq(_fetch_stage_kv(s))
<1>1. LayersOf[s] \in Nat /\ Len(kv[s]) \in Nat
  BY Lengths, IsSeqIs DEF Shapes, KVShaped
<1>2. LayersOf[s] * Len(kv[s]) \in Nat
  BY <1>1, Multiples
<1>3. DOMAIN export_kv(s) = 1..(LayersOf[s] * Len(kv[s]))
      /\ export_kv(s) = [i \in DOMAIN export_kv(s) |-> export_kv(s)[i]]
  BY DEF export_kv
<1>4. IsSeq(export_kv(s))
  BY <1>2, <1>3, FunctionIsSized DEF IsSeq
<1> QED
  BY <1>4, EmptyIsSized DEF _fetch_stage_kv, FetchKV

LEMMA FetchShapes ==
  ASSUME Shapes, Fetch
  PROVE  Shapes'
<1> DEFINE todo == {s \in DOMAIN job.got : job.got[s] = << >>}
           s == Min(todo)
           b == _fetch_stage_kv(s)
<1>1. /\ job.pc = "fetch" /\ todo # {} /\ JobShaped(job) /\ ChainShaped(chain) /\ ChainShaped(chain')
      /\ UNCHANGED <<mode, next_hop, kv, pushes, plan>> /\ plan \in [Stage -> MaybeDevice]
  BY DEF Fetch, Shapes, Local, workers
<1>2. /\ DOMAIN job.got = NonHead \ ToSet(job.victims) /\ DOMAIN job.got # {}
      /\ \A x \in DOMAIN job.got : IsSeq(job.got[x])
  BY <1>1 DEF JobShaped
<1>3. s \in DOMAIN job.got /\ s \in Stage
  <2>1. todo \in SUBSET Nat
    BY <1>2, Lengths
  <2>2. s \in todo
    BY <1>1, <2>1, MinOf
  <2> QED
    BY <1>2, <2>2, Lengths
<1>4. job' = (IF b # << >> THEN [job EXCEPT !.got[s] = b] ELSE Over("surgical"))
  BY DEF Fetch
<1>5. IsSeq(b)
  BY <1>3, ExportIsSeq
<1> HIDE DEF todo, s, b
<1>6. CASE job' = [job EXCEPT !.got[s] = b]
  <2> DEFINE g == [job.got EXCEPT ![s] = b]
  <2>1. job' = [pc |-> "fetch", pos |-> job.pos, wrong |-> job.wrong, victims |-> job.victims,
                n |-> job.n, k |-> job.k, got |-> g, held |-> job.held, recon |-> job.recon]
    BY <1>1, <1>6 DEF JobShaped
  <2>2. DOMAIN g = DOMAIN job.got /\ \A x \in DOMAIN g : IsSeq(g[x])
    BY <1>2, <1>3, <1>5
  <2> HIDE DEF g
  <2>3. JobShaped([pc |-> "fetch", pos |-> job.pos, wrong |-> job.wrong, victims |-> job.victims,
                   n |-> job.n, k |-> job.k, got |-> g, held |-> job.held, recon |-> job.recon])
    <3>1. "fetch" \in Attempt
      BY DEF Attempt
    <3>2. /\ job.pos \in Position /\ job.wrong \in BOOLEAN /\ job.victims \in Seq(Stage)
          /\ job.n \in Nat /\ job.k \in Nat /\ job.victims # << >>
      BY <1>1, <3>1 DEF JobShaped
    <3> QED
      BY <1>2, <2>2, <3>1, <3>2, JobMade
  <2> QED
    BY <1>1, <2>1, <2>3, JobOnly
<1>7. CASE job' = Over("surgical")
  BY <1>1, <1>7, OverShaped, JobOnly
<1> QED
  BY <1>4, <1>6, <1>7

\* A step within an attempt that keeps the victims.
LEMMA AttemptShaped ==
  ASSUME JobShaped(job), job.pc \in Attempt, NEW pc \in Attempt \ {"fetch"}, NEW n \in Nat, NEW k \in Nat,
         NEW got, NEW held, NEW recon
  PROVE  JobShaped([pc |-> pc, pos |-> job.pos, wrong |-> job.wrong, victims |-> job.victims,
                    n |-> n, k |-> k, got |-> got, held |-> held, recon |-> recon])
<1>1. /\ job.pos \in Position /\ job.wrong \in BOOLEAN /\ job.victims \in Seq(Stage)
      /\ job.victims # << >>
  BY DEF JobShaped
<1> QED
  BY <1>1, JobMade

LEMMA CountIs ==
  ASSUME NEW s \in Stage, IsSeq(job.got[s])
  PROVE  Count(s) \in Nat
<1>1. Len(job.got[s]) \in Nat /\ LayersOf[s] \in Nat \ {0}
  BY Lengths, IsSeqIs
<1> QED
  BY <1>1, Division DEF Count, _kv_dims

LEMMA GeometryIs ==
  ASSUME Shapes, Geometry
  PROVE  LET counts == {Count(s) : s \in DOMAIN job.got}
         IN /\ counts \in SUBSET Nat /\ counts # {} /\ IsFiniteSet(counts)
            /\ Min(counts) \in counts /\ \A c \in counts : Min(counts) <= c /\ c <= Max(counts)
            /\ Min(counts) \in Nat /\ Max(counts) \in Nat
<1> DEFINE counts == {Count(s) : s \in DOMAIN job.got}
<1>1. /\ DOMAIN job.got = NonHead \ ToSet(job.victims) /\ DOMAIN job.got # {}
      /\ \A x \in DOMAIN job.got : IsSeq(job.got[x])
  BY DEF Geometry, Shapes, JobShaped
<1>2. \A s \in DOMAIN job.got : Count(s) \in Nat
  BY <1>1, Lengths, CountIs
<1>3. counts \in SUBSET Nat /\ counts # {}
  BY <1>1, <1>2
<1>4. IsFiniteSet(counts)
  <2>1. IsFiniteSet(DOMAIN job.got)
    BY <1>1, Lengths, FS_Subset
  <2> DEFINE f == [s \in DOMAIN job.got |-> Count(s)]
  <2>2. counts = ImageOf(f, DOMAIN job.got)
    BY DEF ImageOf
  <2> QED
    BY <2>1, <2>2, ImageIsFinite
<1> HIDE DEF counts
<1>5. Min(counts) \in counts /\ \A c \in counts : Min(counts) <= c /\ c <= Max(counts)
  BY <1>3, <1>4, MinOf, MaxOf
<1>6. Min(counts) \in Nat /\ Max(counts) \in Nat
  BY <1>3, <1>4, MinOf, MaxOf
<1> QED
  BY <1>3, <1>4, <1>5, <1>6 DEF counts

LEMMA GeometryShapes ==
  ASSUME Shapes, Geometry
  PROVE  Shapes'
<1> DEFINE counts == {Count(s) : s \in DOMAIN job.got}
           n == Min(counts)
<1>1. /\ job.pc = "fetch" /\ JobShaped(job) /\ ChainShaped(chain) /\ ChainShaped(chain')
      /\ UNCHANGED <<mode, next_hop, kv, pushes, plan>> /\ plan \in [Stage -> MaybeDevice]
  BY DEF Geometry, Shapes, Local, workers
<1>2. n \in Nat
  BY GeometryIs
<1>3. job' = Over("surgical") \/ job' = [job EXCEPT !.pc = "gate", !.n = n, !.k = 0]
  BY DEF Geometry
<1> HIDE DEF n, counts
<1>4. CASE job' = [job EXCEPT !.pc = "gate", !.n = n, !.k = 0]
  <2>1. job' = [pc |-> "gate", pos |-> job.pos, wrong |-> job.wrong, victims |-> job.victims,
                n |-> n, k |-> 0, got |-> job.got, held |-> job.held, recon |-> job.recon]
    BY <1>1, <1>4 DEF JobShaped
  <2>2. job.pc \in Attempt /\ "gate" \in Attempt
    BY <1>1 DEF Attempt
  <2> QED
    BY <1>1, <1>2, <2>1, <2>2, AttemptShaped, JobOnly
<1>5. CASE job' = Over("surgical")
  BY <1>1, <1>5, OverShaped, JobOnly
<1> QED
  BY <1>3, <1>4, <1>5

\* The job as one of its steps leaves it.
Made(pc, n, k, got, held, recon) ==
  [pc |-> pc, pos |-> job.pos, wrong |-> job.wrong, victims |-> job.victims,
   n |-> n, k |-> k, got |-> got, held |-> held, recon |-> recon]
Goes(pc, n, k, got, held, recon) == job' = Made(pc, n, k, got, held, recon)
GivesUp == job' = Over("surgical") \/ job' = Over("failed")

LEMMA ParityGateIs ==
  ASSUME JobShaped(job), ParityGate
  PROVE  \/ GivesUp
         \/ /\ parity_is_complete(cache, Subject, job.k, num_stages)
            /\ \/ job.k + 1 < job.n /\ Goes("gate", job.n, job.k + 1, job.got, job.held, job.recon)
               \/ ~(job.k + 1 < job.n) /\ Goes("history", job.n, job.k, job.got, job.held, job.recon)
<1> DEFINE c == parity_is_complete(cache, Subject, job.k, num_stages)
           more == job.k + 1 < job.n
           stay == [job EXCEPT !.k = job.k + 1]
           on == [job EXCEPT !.pc = "history"]
           o == Over("surgical")
<1>0. job' = (IF ~c THEN o ELSE IF more THEN stay ELSE on) /\ job.pc = "gate"
  BY DEF ParityGate
<1>1. CASE ~c
  <2>1. job' = o
    <3> HIDE DEF c, more, stay, on, o
    <3> QED
      BY <1>0, <1>1
  <2> QED
    BY <2>1 DEF GivesUp
<1>2. CASE c /\ more
  <2>1. job' = stay
    <3> HIDE DEF c, more, stay, on, o
    <3> QED
      BY <1>0, <1>2
  <2>2. Goes("gate", job.n, job.k + 1, job.got, job.held, job.recon)
    BY <1>0, <2>1 DEF Goes, Made, JobShaped
  <2> QED
    BY <1>2, <2>2
<1>3. CASE c /\ ~more
  <2>1. job' = on
    <3> HIDE DEF c, more, stay, on, o
    <3> QED
      BY <1>0, <1>3
  <2>2. Goes("history", job.n, job.k, job.got, job.held, job.recon)
    BY <2>1 DEF Goes, Made, JobShaped
  <2> QED
    BY <1>3, <2>2
<1> QED
  BY <1>1, <1>2, <1>3

LEMMA ReplicaGateIs ==
  ASSUME JobShaped(job), ReplicaGate
  PROVE  \/ GivesUp
         \/ /\ job.n >= 1 /\ replica_is_complete(cache, Subject, Victim, job.n - 1)
            /\ Goes("read", job.n, job.k, job.got, job.held, job.recon)
<1>0. job.n \in Nat
  BY DEF JobShaped
<1>1. CASE job.n < 1 \/ ~replica_is_complete(cache, Subject, Victim, job.n - 1)
  BY <1>1 DEF ReplicaGate, GivesUp
<1>2. CASE ~(job.n < 1 \/ ~replica_is_complete(cache, Subject, Victim, job.n - 1))
  <2>1. job' = [job EXCEPT !.pc = "read"]
    BY <1>2 DEF ReplicaGate
  <2>2. Goes("read", job.n, job.k, job.got, job.held, job.recon)
    BY <2>1 DEF Goes, Made, JobShaped
  <2>3. job.n >= 1
    BY <1>0, <1>2
  <2> QED
    BY <1>2, <2>2, <2>3
<1> QED
  BY <1>1, <1>2

LEMMA ReadReplicaIs ==
  ASSUME JobShaped(job), ReadReplica
  PROVE  \/ GivesUp
         \/ /\ StoredSlots(cache, Subject, Victim) # {}
            /\ Goes("history", job.n, job.k, get_stage_kv(cache, Subject, Victim), job.held, job.recon)
<1> DEFINE g == get_stage_kv(cache, Subject, Victim)
           T == StoredSlots(cache, Subject, Victim)
<1>1. IF T = {} THEN job' = Over("surgical") ELSE job' = [job EXCEPT !.pc = "history", !.got = g]
  BY DEF ReadReplica
<1> HIDE DEF g, T
<1>2. CASE T = {}
  BY <1>1, <1>2 DEF GivesUp
<1>3. CASE T # {}
  <2>1. job' = [job EXCEPT !.pc = "history", !.got = g]
    BY <1>1, <1>3
  <2>2. Goes("history", job.n, job.k, g, job.held, job.recon)
    BY <2>1 DEF Goes, Made, JobShaped
  <2> QED
    BY <1>3, <2>2 DEF g, T
<1> QED
  BY <1>2, <1>3

LEMMA HistoryIs ==
  ASSUME JobShaped(job), History
  PROVE  \/ GivesUp
         \/ /\ ~(HistoryLen(Victim) <= job.pos)
            /\ mode = "replicate" => Len(job.got) = job.n * _kv_dims(Victim)
            /\ Goes("promote", job.n, 1, job.got, job.held, job.recon)
<1> DEFINE bad == \/ HistoryLen(Victim) <= job.pos
                  \/ mode = "replicate" /\ Len(job.got) # job.n * _kv_dims(Victim)
<1>1. CASE bad
  BY <1>1 DEF History, GivesUp
<1>2. CASE ~bad
  <2>1. job' = [job EXCEPT !.pc = "promote", !.k = 1]
    BY <1>2 DEF History
  <2>2. Goes("promote", job.n, 1, job.got, job.held, job.recon)
    BY <2>1 DEF Goes, Made, JobShaped
  <2> QED
    BY <1>2, <2>2
<1> QED
  BY <1>1, <1>2

LEMMA PromoteIs ==
  ASSUME JobShaped(job), Promote
  PROVE  LET s == job.victims[job.k]
             b == Recovery[Placement[s]]
         IN \/ GivesUp /\ UNCHANGED <<promoted, kv>>
            \/ /\ b # NoDevice /\ b \notin crashed
               /\ Goes("promote", job.n, job.k + 1, job.got, Append(job.held, kv[s]), job.recon)
               /\ PromoteBackup(s)
<1> DEFINE s == job.victims[job.k]
           b == Recovery[Placement[s]]
           x == Append(job.held, kv[s])
<1>0. job.pc = "promote"
  BY DEF Promote
<1>1. IF b = NoDevice \/ b \in crashed
      THEN job' = Over("failed") /\ UNCHANGED <<promoted, kv>>
      ELSE job' = [job EXCEPT !.k = job.k + 1, !.held = x] /\ PromoteBackup(s)
  BY DEF Promote
<1> HIDE DEF s, b, x
<1>2. CASE b = NoDevice \/ b \in crashed
  BY <1>1, <1>2 DEF GivesUp
<1>3. CASE ~(b = NoDevice \/ b \in crashed)
  <2>1. job' = [job EXCEPT !.k = job.k + 1, !.held = x] /\ PromoteBackup(s)
    BY <1>1, <1>3
  <2>2. Goes("promote", job.n, job.k + 1, job.got, x, job.recon)
    BY <1>0, <2>1 DEF Goes, Made, JobShaped
  <2> QED
    BY <1>3, <2>1, <2>2 DEF s, b, x
<1> QED
  BY <1>2, <1>3 DEF s, b, x

LEMMA RewireIs ==
  ASSUME JobShaped(job), Rewire
  PROVE  Goes("rebuild", job.n, 1, job.got, job.held, [v \in DOMAIN job.victims |-> << >>])
<1> DEFINE g == [v \in DOMAIN job.victims |-> << >>]
<1>1. job' = [job EXCEPT !.pc = "rebuild", !.k = 1, !.recon = g]
  BY DEF Rewire
<1> HIDE DEF g
<1>2. Goes("rebuild", job.n, 1, job.got, job.held, g)
  BY <1>1 DEF Goes, Made, JobShaped
<1> QED
  BY <1>2 DEF g

LEMMA ReconstructIs ==
  ASSUME JobShaped(job), Reconstruct
  PROVE  LET cols == Lost(cache.items[Subject][job.k - 1], job.k)
         IN \/ GivesUp
            \/ /\ Holds(cache, Subject, job.k - 1)
               /\ Goes("rebuild", job.n, job.k + 1, job.got, job.held,
                       [v \in DOMAIN job.victims |->
                          Append(job.recon[v], Sliced(job.victims[v], cols[v]))])
<1> DEFINE j == job.k - 1
           cols == Lost(cache.items[Subject][j], job.k)
           g == [v \in DOMAIN job.victims |-> Append(job.recon[v], Sliced(job.victims[v], cols[v]))]
<1>0. job.pc = "rebuild"
  BY DEF Reconstruct
<1>1. IF ~Holds(cache, Subject, j) THEN job' = Over("failed")
      ELSE job' = [job EXCEPT !.k = job.k + 1, !.recon = g]
  BY DEF Reconstruct
<1> HIDE DEF g, cols, j
<1>2. CASE ~Holds(cache, Subject, j)
  BY <1>1, <1>2 DEF GivesUp
<1>3. CASE Holds(cache, Subject, j)
  <2>1. job' = [job EXCEPT !.k = job.k + 1, !.recon = g]
    BY <1>1, <1>3
  <2>2. Goes("rebuild", job.n, job.k + 1, job.got, job.held, g)
    BY <1>0, <2>1 DEF Goes, Made, JobShaped
  <2> QED
    BY <1>3, <2>2 DEF g, cols, j
<1> QED
  BY <1>2, <1>3 DEF j, cols

LEMMA TakeReplicaIs ==
  ASSUME JobShaped(job), TakeReplica
  PROVE  LET size == _kv_dims(Victim)
         IN Goes("rebuild", job.n, job.n + 1, job.got, job.held,
                 <<[j \in 1..job.n |-> SubSeq(job.got, (j - 1) * size + 1, j * size)]>>)
<1> DEFINE size == _kv_dims(Victim)
           g == <<[j \in 1..job.n |-> SubSeq(job.got, (j - 1) * size + 1, j * size)]>>
<1>1. job' = [job EXCEPT !.k = job.n + 1, !.recon = g] /\ job.pc = "rebuild"
  BY DEF TakeReplica
<1> HIDE DEF g
<1>2. Goes("rebuild", job.n, job.n + 1, job.got, job.held, g)
  BY <1>1 DEF Goes, Made, JobShaped
<1> QED
  BY <1>2 DEF g

LEMMA StartLoadIs ==
  ASSUME JobShaped(job), StartLoad
  PROVE  Goes("load", job.n, 1, << >>, job.held, job.recon)
<1>1. \E e : e = << >> /\ job' = [job EXCEPT !.pc = "load", !.k = 1, !.got = e]
  BY DEF StartLoad
<1> QED
  BY <1>1 DEF Goes, Made, JobShaped

LEMMA LoadIs ==
  ASSUME JobShaped(job), Load
  PROVE  LET s == job.victims[job.k]
         IN \/ GivesUp /\ UNCHANGED kv
            \/ /\ Serves(plan[s], s)
               /\ LoadKV(s, LayerMajor(s, job.recon[job.k]), job.n)
               /\ Goes("load", job.n, job.k + 1, job.got, job.held, job.recon)
<1> DEFINE s == job.victims[job.k]
<1>0. job.pc = "load"
  BY DEF Load
<1>1. IF Serves(plan[s], s)
      THEN LoadKV(s, LayerMajor(s, job.recon[job.k]), job.n) /\ job' = [job EXCEPT !.k = job.k + 1]
      ELSE job' = Over("failed") /\ UNCHANGED kv
  BY DEF Load
<1> HIDE DEF s
<1>2. CASE ~Serves(plan[s], s)
  BY <1>1, <1>2 DEF GivesUp, s
<1>3. CASE Serves(plan[s], s)
  <2>1. job' = [job EXCEPT !.k = job.k + 1] /\ LoadKV(s, LayerMajor(s, job.recon[job.k]), job.n)
    BY <1>1, <1>3
  <2>2. Goes("load", job.n, job.k + 1, job.got, job.held, job.recon)
    BY <1>0, <2>1 DEF Goes, Made, JobShaped
  <2> QED
    BY <1>3, <2>1, <2>2 DEF s
<1> QED
  BY <1>2, <1>3

\* They all keep the shapes.
LEMMA GoesShaped ==
  ASSUME JobShaped(job), job.pc \in Attempt, NEW pc \in Attempt \ {"fetch"}, NEW n \in Nat, NEW k \in Nat,
         NEW got, NEW held, NEW recon, Goes(pc, n, k, got, held, recon)
  PROVE  JobShaped(job')
  BY AttemptShaped DEF Goes, Made

LEMMA GivesUpShaped == ASSUME JobShaped(job), GivesUp PROVE JobShaped(job')
  BY OverShaped DEF GivesUp

LEMMA RecoverJob ==
  ASSUME JobShaped(job),
         \/ ParityGate \/ Reconstruct \/ ReplicaGate \/ ReadReplica \/ TakeReplica
         \/ History \/ Promote \/ Rewire \/ StartLoad \/ Load
  PROVE  JobShaped(job')
<1>0. /\ job.pc \in Attempt /\ job.n \in Nat /\ job.k \in Nat /\ job.n + 1 \in Nat /\ job.k + 1 \in Nat
      /\ 1 \in Nat /\ {"gate", "read", "history", "promote", "rebuild", "load"} \subseteq Attempt \ {"fetch"}
  <2>1. job.pc \in {"gate", "read", "history", "promote", "rebuild", "load"}
    BY DEF ParityGate, Reconstruct, ReplicaGate, ReadReplica, TakeReplica, History, Promote, Rewire,
           StartLoad, Load
  <2> QED
    BY <2>1 DEF JobShaped, Attempt
<1>1. CASE ParityGate
  BY <1>0, <1>1, ParityGateIs, GoesShaped, GivesUpShaped
<1>2. CASE Reconstruct
  BY <1>0, <1>2, ReconstructIs, GoesShaped, GivesUpShaped
<1>3. CASE ReplicaGate
  BY <1>0, <1>3, ReplicaGateIs, GoesShaped, GivesUpShaped
<1>4. CASE ReadReplica
  BY <1>0, <1>4, ReadReplicaIs, GoesShaped, GivesUpShaped
<1>5. CASE TakeReplica
  BY <1>0, <1>5, TakeReplicaIs, GoesShaped, GivesUpShaped
<1>6. CASE History
  BY <1>0, <1>6, HistoryIs, GoesShaped, GivesUpShaped
<1>7. CASE Promote
  BY <1>0, <1>7, PromoteIs, GoesShaped, GivesUpShaped
<1>8. CASE Rewire
  BY <1>0, <1>8, RewireIs, GoesShaped, GivesUpShaped
<1>9. CASE StartLoad
  BY <1>0, <1>9, StartLoadIs, GoesShaped, GivesUpShaped
<1>10. CASE Load
  BY <1>0, <1>10, LoadIs, GoesShaped, GivesUpShaped
<1> QED
  BY <1>1, <1>2, <1>3, <1>4, <1>5, <1>6, <1>7, <1>8, <1>9, <1>10

LEMMA RecoverShapes ==
  ASSUME Shapes,
         \/ ParityGate \/ Reconstruct \/ ReplicaGate \/ ReadReplica \/ TakeReplica
         \/ History \/ StartLoad
  PROVE  Shapes'
<1>1. UNCHANGED <<mode, plan, next_hop, kv, pushes, chain>>
  BY DEF ParityGate, Reconstruct, ReplicaGate, ReadReplica, TakeReplica, History, StartLoad, Local, workers
<1>2. JobShaped(job')
  BY RecoverJob DEF Shapes
<1> QED
  BY <1>1, <1>2 DEF Shapes

LEMMA RewireShapes ==
  ASSUME Shapes, Rewire
  PROVE  Shapes'
<1>1. UNCHANGED <<mode, plan, kv, pushes, chain>> /\ next_hop' = plan
  BY DEF Rewire
<1>2. JobShaped(job')
  BY RecoverJob DEF Shapes
<1> QED
  BY <1>1, <1>2 DEF Shapes

LEMMA KVSet ==
  ASSUME KVShaped(kv), NEW s, NEW x, IsSeq(x), kv' = [kv EXCEPT ![s] = x]
  PROVE  KVShaped(kv')
  BY DEF KVShaped

LEMMA PromoteShapes ==
  ASSUME Shapes, Promote
  PROVE  Shapes'
<1>1. UNCHANGED <<mode, plan, next_hop, pushes, chain>>
  BY DEF Promote
<1>2. JobShaped(job')
  BY RecoverJob DEF Shapes
<1>3. kv' = kv \/ kv' = [kv EXCEPT ![job.victims[job.k]] = << >>]
  BY DEF Promote, PromoteBackup
<1>4. KVShaped(kv')
  BY <1>3, KVSet, EmptyIsSized DEF Shapes
<1> QED
  BY <1>1, <1>2, <1>4 DEF Shapes

LEMMA LoadShapes ==
  ASSUME Shapes, Load
  PROVE  Shapes'
<1>1. UNCHANGED <<mode, plan, next_hop, pushes, chain>> /\ JobShaped(job)
  BY DEF Load, Shapes
<1>2. JobShaped(job')
  BY RecoverJob DEF Shapes
<1>3. KVShaped(kv')
  <2> DEFINE s == job.victims[job.k]
             b == LayerMajor(s, job.recon[job.k])
             x == [j \in 1..job.n |-> SlotOf(s, b, job.n, j)]
  <2>1. CASE kv' = kv
    BY <2>1 DEF Shapes
  <2>2. CASE kv' = [kv EXCEPT ![s] = x]
    <3>1. job.n \in Nat
      BY <1>1 DEF JobShaped
    <3>2. IsSeq(x)
      <4>1. DOMAIN x = 1..job.n /\ x = [i \in DOMAIN x |-> x[i]]
        OBVIOUS
      <4> HIDE DEF x
      <4> QED
        BY <3>1, <4>1, FunctionIsSized DEF IsSeq
    <3> HIDE DEF x, s
    <3> QED
      BY <2>2, <3>2, KVSet DEF Shapes
  <2>3. kv' = kv \/ kv' = [kv EXCEPT ![s] = x]
    BY DEF Load, LoadKV, install_kv
  <2> QED
    BY <2>1, <2>2, <2>3
<1> QED
  BY <1>1, <1>2, <1>3 DEF Shapes

LEMMA LiveShapes ==
  ASSUME Shapes, Live
  PROVE  Shapes'
<1> DEFINE good == history[Victim][job.pos] = "good"
<1>1. /\ Invoke(Victim, good) /\ good \in BOOLEAN /\ job.pc = "load" /\ JobShaped(job)
      /\ job' = [NoJob EXCEPT !.pc = "wait", !.pos = job.pos, !.wrong = job.wrong]
      /\ UNCHANGED <<mode, plan, next_hop, kv>>
  BY DEF Live, Shapes
<1>2. Victim \in Stage
  <2>1. job.victims # << >> /\ job.victims \in Seq(Stage)
    BY <1>1 DEF JobShaped, Attempt
  <2> QED
    BY <2>1 DEF Victim
<1>3. ChainShaped(chain') /\ PushesShaped(pushes')
  BY <1>1, <1>2, InvokeShapes
<1>4. job' = Over("wait")
  BY <1>1 DEF Over
<1>5. JobShaped(job')
  <2>1. JobShaped([pc |-> "wait", pos |-> job.pos, wrong |-> job.wrong, victims |-> << >>, n |-> 0,
                   k |-> 1, got |-> << >>, held |-> << >>, recon |-> << >>])
    <3>1. "wait" \notin Attempt /\ << >> \in Seq(Stage) /\ job.pos \in Position /\ job.wrong \in BOOLEAN
      BY <1>1 DEF Attempt, JobShaped
    <3> QED
      BY <3>1, JobMade
  <2> QED
    BY <1>4, <2>1, OverIs
<1> QED
  BY <1>1, <1>3, <1>5 DEF Shapes

-----------------------------------------------------------------------------
(* The workers and their pushes keep the shapes.                            *)

LEMMA KVPushShaped ==
  ASSUME NEW s \in NonHead, NEW j, NEW col, Sized(col, LayersOf[s])
  PROVE  PushShaped(KVPush(s, j, col))
  BY DEF PushShaped, KVPush

LEMMA RunShapes ==
  ASSUME Shapes, NEW i \in Handlers, Run(i)
  PROVE  Shapes'
<1> DEFINE h == chain[i]
           t == [h EXCEPT !.st = "ran", !.good = Runs(h)]
           old == IF h.at = 0 THEN << >> ELSE kv[h.stage]
           new == old \o NewColumns(h)
           q == pushes[h.dev] \o Shipped(h)
<1>1. /\ h \in HandlerType /\ h.st = "arrived" /\ ChainShaped(chain) /\ KVShaped(kv) /\ PushesShaped(pushes)
      /\ UNCHANGED <<mode, plan, next_hop, job>>
      /\ chain' = [chain EXCEPT ![i].st = "ran", ![i].good = Runs(h)]
      /\ kv' = [kv EXCEPT ![h.stage] = new]
      /\ pushes' = IF h.stage = 1 THEN pushes ELSE [pushes EXCEPT ![h.dev] = q]
  BY DEF Run, Shapes, ChainShaped, gateway
<1>2. h.stage \in Stage /\ IsSeq(kv[h.stage]) /\ Runs(h) \in BOOLEAN
  <2>1. h.stage \in Stage
    BY <1>1 DEF HandlerType
  <2>2. h.good \in BOOLEAN
    BY <1>1 DEF HandlerType
  <2> QED
    BY <1>1, <2>1, <2>2 DEF KVShaped, Runs
<1>3. ChainShaped(chain')
  <2>1. chain' = [chain EXCEPT ![i] = t]
    BY <1>1
  <2>2. t \in HandlerType /\ t.st = "ran"
    BY <1>1, <1>2 DEF HandlerType
  <2>3. t.st = "error" => t.blame \in Stage
    BY <2>2
  <2>4. ChainShaped(chain)
    BY <1>1
  <2> HIDE DEF t, h
  <2> QED
    BY <2>1, <2>2, <2>3, <2>4, ChainSet
<1>4. KVShaped(kv')
  <2>1. IsSeq(NewColumns(h))
    BY <1>1, <1>2, NewColumnsAre, SizedIs
  <2>2. IsSeq(new)
    <3>1. IsSeq(old)
      BY <1>2, EmptyIsSized
    <3> HIDE DEF old
    <3> QED
      BY <2>1, <3>1, ConcatIs
  <2> HIDE DEF new
  <2> QED
    BY <1>1, <2>2, KVSet
<1>5. PushesShaped(pushes')
  <2>1. CASE h.stage = 1
    BY <1>1, <2>1
  <2>2. CASE h.stage # 1
    <3>1. QueueShaped(Shipped(h))
      <4>1. h.stage \in NonHead
        BY <1>2, <2>2, Lengths
      <4>2. /\ Sized(Shipped(h), Count0(h))
            /\ \A j \in 1..Count0(h) : Shipped(h)[j] = KVPush(h.stage, First0(h) + j - 1, NewColumns(h)[j])
        BY <1>1, <1>2, ShippedAre
      <4>3. \A j \in 1..Count0(h) : Sized(NewColumns(h)[j], LayersOf[h.stage])
        BY <1>1, <1>2, NewColumnsAre
      <4>4. \A j \in 1..Count0(h) : PushShaped(Shipped(h)[j])
        BY <4>1, <4>2, <4>3, KVPushShaped
      <4> QED
        BY <4>2, <4>4, SizedIs DEF QueueShaped
    <3>2. pushes' = [pushes EXCEPT ![h.dev] = q]
      BY <1>1, <2>2
    <3>3. CASE h.dev \in Device
      <4>1. QueueShaped(q)
        BY <1>1, <3>1, <3>3, QueueConcat DEF PushesShaped
      <4>2. PushesShaped(pushes)
        BY <1>1
      <4> HIDE DEF q, h
      <4> QED
        BY <3>2, <4>1, <4>2, QueueSet
    <3>4. CASE h.dev \notin Device
      <4> HIDE DEF q, h
      <4>1. DOMAIN pushes' = Device /\ \A d \in Device : pushes'[d] = pushes[d]
        BY <1>1, <3>2, <3>4 DEF PushesShaped
      <4> QED
        BY <1>1, <4>1 DEF PushesShaped
    <3> QED
      BY <3>3, <3>4
  <2> QED
    BY <2>1, <2>2
<1> QED
  BY <1>1, <1>3, <1>4, <1>5 DEF Shapes

LEMMA InjectFaultShapes ==
  ASSUME Shapes, NEW i \in Handlers, InjectFault(i)
  PROVE  Shapes'
<1> DEFINE h == chain[i]
<1>1. /\ h \in HandlerType /\ h.stage \in Stage /\ ChainShaped(chain)
      /\ UNCHANGED <<mode, plan, next_hop, job, kv, pushes>>
      /\ chain' = [chain EXCEPT ![i] = IF i = "call" THEN Failed(h, h.stage) ELSE Idle]
  BY Lengths DEF InjectFault, Shapes, ChainShaped, gateway, workers
<1>2. ChainShaped(chain')
  BY <1>1, ChainSet, FailedType, IdleType
<1> QED
  BY <1>1, <1>2 DEF Shapes

LEMMA ForwardShapes ==
  ASSUME Shapes, NEW i \in Handlers, Forward(i)
  PROVE  Shapes'
<1> DEFINE h == chain[i]
<1>1. /\ h \in HandlerType /\ h.stage \in Stage /\ ChainShaped(chain) /\ PushesShaped(pushes)
      /\ UNCHANGED <<mode, plan, next_hop, job, kv>>
  BY DEF Forward, Shapes, ChainShaped, gateway, HandlerType
<1>2. ChainShaped(chain') /\ PushesShaped(pushes')
  <2>1. CASE h.stage < N
    <3> DEFINE t == [h EXCEPT !.st = "arrived", !.stage = h.stage + 1, !.dev = next_hop[h.stage + 1]]
    <3>1. Reach(i, t)
      BY <2>1 DEF Forward
    <3>2. h.stage + 1 \in Stage
      BY <1>1, <2>1, Lengths
    <3>3. t \in HandlerType /\ t.st = "arrived"
      BY <1>1, <3>2 DEF HandlerType, Shapes
    <3> HIDE DEF t
    <3> QED
      BY <3>1, <3>3, ReachShapes
  <2>2. CASE ~(h.stage < N)
    <3>1. pushes' = pushes /\ chain' = [chain EXCEPT ![i] = IF i = "call" THEN [h EXCEPT !.st = "ok"] ELSE Idle]
      BY <2>2 DEF Forward
    <3>2. [h EXCEPT !.st = "ok"] \in HandlerType /\ [h EXCEPT !.st = "ok"].st = "ok"
      BY <1>1 DEF HandlerType
    <3> QED
      BY <1>1, <3>1, <3>2, ChainSet, IdleType
  <2> QED
    BY <2>1, <2>2
<1> QED
  BY <1>1, <1>2 DEF Shapes

LEMMA CrashShapes ==
  ASSUME Shapes, NEW d \in Device, Crash(d)
  PROVE  Shapes'
<1> DEFINE c == chain["call"]
           o == chain["orphan"]
           cut == {s \in Waiting(c) : next_hop[s] = d}
           call == IF cut # {} THEN Failed(c, Min(cut))
                   ELSE IF RunningOn(d, c) THEN Failed(c, c.stage) ELSE c
           orphan == IF cut # {} /\ ~RunningOn(d, c) THEN c
                     ELSE IF RunningOn(d, o) THEN Idle ELSE o
<1>1. /\ ChainShaped(chain) /\ PushesShaped(pushes)
      /\ UNCHANGED <<mode, plan, next_hop, job, kv>>
      /\ pushes' = [pushes EXCEPT ![d] = << >>]
      /\ chain' = [call |-> call, orphan |-> orphan]
  BY DEF Crash, Shapes, gateway
<1>2. /\ c \in HandlerType /\ o \in HandlerType /\ c.stage \in Stage /\ c.from \in Stage
      /\ c.st = "error" => c.blame \in Stage
      /\ o.st = "error" => o.blame \in Stage
  BY <1>1 DEF ChainShaped, Handlers, HandlerType
<1>3. cut # {} => Min(cut) \in Stage
  <2> SUFFICES ASSUME cut # {} PROVE Min(cut) \in Stage
    OBVIOUS
  <2>1. Waiting(c) \subseteq c.from..(c.stage - 1)
    BY DEF Waiting
  <2>2. Waiting(c) \subseteq Stage /\ Waiting(c) \subseteq Nat
    <3>1. \A a, b \in Stage : \A x \in a..(b - 1) : x \in Stage /\ x \in Nat
      BY Lengths
    <3> HIDE DEF c
    <3> QED
      BY <1>2, <2>1, <3>1
  <2>3. cut \in SUBSET Nat /\ cut \subseteq Stage
    BY <2>2
  <2> HIDE DEF cut
  <2> QED
    BY <2>3, MinOf
<1> HIDE DEF cut, c, o
<1>4. call \in HandlerType /\ (call.st = "error" => call.blame \in Stage)
  BY <1>2, <1>3, FailedType
<1>5. orphan \in HandlerType /\ (orphan.st = "error" => orphan.blame \in Stage)
  BY <1>2, IdleType
<1> HIDE DEF call, orphan
<1>6. ChainShaped(chain')
  <2>1. DOMAIN chain' = Handlers /\ chain' = [i \in Handlers |-> IF i = "call" THEN call ELSE orphan]
    BY <1>1 DEF Handlers
  <2> QED
    BY <1>4, <1>5, <2>1 DEF ChainShaped
<1>7. PushesShaped(pushes')
  <2>1. QueueShaped(<< >>)
    BY EmptyIsSized DEF QueueShaped
  <2> QED
    BY <1>1, <2>1, QueueSet
<1> QED
  BY <1>1, <1>6, <1>7 DEF Shapes

LEMMA TakenShapes ==
  ASSUME Shapes, NEW d \in Device, pushes[d] # << >>, pushes' = [pushes EXCEPT ![d] = Tail(@)],
         UNCHANGED <<mode, plan, next_hop, job, kv, chain>>
  PROVE  Shapes' /\ PushShaped(Head(pushes[d]))
<1>1. PushesShaped(pushes) /\ QueueShaped(pushes[d])
  BY DEF Shapes, PushesShaped
<1>2. QueueShaped(Tail(pushes[d])) /\ PushShaped(Head(pushes[d]))
  BY <1>1, QueueTail
<1>3. PushesShaped(pushes')
  BY <1>1, <1>2, QueueSet
<1> QED
  BY <1>2, <1>3 DEF Shapes

LEMMA DeliverShapes ==
  ASSUME Shapes, CacheFits(cache), NEW d \in Device, Deliver(d)
  PROVE  Shapes' /\ CacheFits(cache')
<1> DEFINE p == Head(pushes[d])
<1>1. /\ pushes[d] # << >> /\ pushes' = [pushes EXCEPT ![d] = Tail(@)]
      /\ UNCHANGED <<mode, plan, next_hop, job, kv, chain>>
      /\ IF p.kind = "kv" THEN cache' = record_kv(Subject, p.stage, p.at, p.col) ELSE cache' = cache
  BY DEF Deliver
<1>2. Shapes' /\ PushShaped(p)
  BY <1>1, TakenShapes
<1> HIDE DEF p
<1>3. CacheFits(cache')
  <2>1. CASE p.kind = "kv"
    <3>1. p.stage \in NonHead /\ Sized(p.col, LayersOf[p.stage])
      BY <1>2, <2>1 DEF PushShaped
    <3> QED
      BY <1>1, <2>1, <3>1, RecordFits, KVAssumption
  <2>2. CASE p.kind # "kv"
    BY <1>1, <2>2
  <2> QED
    BY <2>1, <2>2
<1> QED
  BY <1>2, <1>3

LEMMA OtherPushFits ==
  ASSUME CacheFits(cache), NEW r \in Request, NEW s \in NonHead, OtherPush(r, s)
  PROVE  CacheFits(cache')
<1>1. cache' = record_kv(r, s, 0, Col(r, s, 0))
  BY DEF OtherPush
<1>2. s \in Stage /\ 0 \in Slot
  BY Lengths, Numbers
<1> QED
  BY <1>1, <1>2, ColSize, RecordFits

-----------------------------------------------------------------------------
(* What is counted is what is held.                                         *)

LEMMA EmptyCacheFits == CacheFits(EmptyCache)
<1> DEFINE none == [r \in Request |-> NoItems]
<1>1. EmptyCache = [items |-> none, order |-> << >>, used |-> 0]
  BY DEF EmptyCache
<1>2. DOMAIN none = Request /\ \A r \in Request : none[r] = NoItems
  OBVIOUS
<1>3. none = [r \in Request |-> none[r]]
  OBVIOUS
<1> HIDE DEF none
<1>4. EmptyCache.items = none /\ EmptyCache.order = << >> /\ EmptyCache.used = 0
      /\ EmptyCache = [items |-> EmptyCache.items, order |-> EmptyCache.order, used |-> EmptyCache.used]
  BY <1>1
<1>5. SumFunction(HeldBytes(EmptyCache)) = 0
  <2> DEFINE f == HeldBytes(EmptyCache)
  <2>1. DOMAIN f = Request /\ \A r \in Request : f[r] = SumFunction(ItemBytes(EmptyCache.items[r]))
    BY HeldBytesIs
  <2>2. \A r \in Request : f[r] = 0
    BY <1>2, <1>4, <2>1, NoItemsFit
  <2> HIDE DEF f
  <2>3. SumFunction(f) = SumFunctionOnSet(f, Request)
    BY <2>1, SumFunctionIs
  <2>4. SumFunctionOnSet(f, Request) = 0
    BY <2>2, SumOfZeros, KVAssumption
  <2> QED
    BY <2>3, <2>4 DEF f
<1>6. << >> \in Seq(Request) /\ Once(<< >>)
  BY DEF Once
<1>7. \A r \in Request : ItemsFit(EmptyCache.items[r])
  BY <1>2, <1>4, NoItemsFit
<1>8. Counted(EmptyCache)
  BY <1>2, <1>3, <1>4, <1>5, <1>6, <1>7 DEF Counted
<1>9. ~(EmptyCache.used > max_bytes)
  BY <1>4, KVAssumption
<1> QED
  BY <1>8, <1>9 DEF CacheFits

LEMMA InitShapes ==
  ASSUME Init
  PROVE  Shapes /\ CacheFits(cache)
<1>1. plan \in [Stage -> MaybeDevice] /\ next_hop \in [Stage -> MaybeDevice]
  BY PlanIs, Lengths DEF Init, MaybeDevice
<1>2. KVShaped(kv)
  BY EmptyIsSized DEF Init, KVShaped
<1>3. PushesShaped(pushes)
  BY EmptyIsSized DEF Init, PushesShaped, QueueShaped
<1>4. ChainShaped(chain)
  BY IdleType DEF Init, ChainShaped, Handlers
<1>5. JobShaped(job)
  BY NoJobShaped DEF Init
<1>6. CacheFits(cache) /\ mode \in DOMAIN Bounds
  BY EmptyCacheFits DEF Init
<1> QED
  BY <1>1, <1>2, <1>3, <1>4, <1>5, <1>6 DEF Shapes

LEMMA NextShapes ==
  ASSUME Shapes, CacheFits(cache), [Next]_vars
  PROVE  Shapes' /\ CacheFits(cache')
<1>1. DOMAIN chain = Handlers
  BY DEF Shapes, ChainShaped
<1>2. CASE UNCHANGED vars
  <2>1. UNCHANGED <<mode, plan, next_hop, kv, pushes, chain, job, cache>>
    BY <1>2 DEF vars, workers, gateway
  <2> QED
    BY <2>1 DEF Shapes
<1>3. ASSUME NEW d \in Device, Deliver(d)
      PROVE  Shapes' /\ CacheFits(cache')
  BY <1>3, DeliverShapes
<1>4. ASSUME NEW r \in Request \ {Subject}, NEW s \in NonHead, OtherPush(r, s)
      PROVE  Shapes' /\ CacheFits(cache')
  <2>1. UNCHANGED <<mode, plan, next_hop, kv, pushes, chain, job>>
    BY <1>4 DEF OtherPush, workers
  <2> QED
    BY <1>4, <2>1, OtherPushFits DEF Shapes
<1>5. ASSUME NEW d \in Device, Lose(d) \/ Crash(d) \/ OnFailure(d)
      PROVE  Shapes' /\ cache' = cache
  <2>1. CASE Lose(d)
    <3>1. /\ pushes[d] # << >> /\ pushes' = [pushes EXCEPT ![d] = Tail(@)]
          /\ UNCHANGED <<mode, plan, next_hop, job, kv, chain, cache>>
      BY <2>1 DEF Lose, gateway
    <3> QED
      BY <3>1, TakenShapes
  <2>2. CASE Crash(d)
    BY <2>2, CrashShapes DEF Crash, gateway
  <2>3. CASE OnFailure(d)
    <3>1. UNCHANGED <<mode, next_hop, job, kv, chain, cache, pushes>> /\ MarkDead(d)
      BY <2>3 DEF OnFailure, workers
    <3> QED
      BY <3>1, MarkDeadPlan DEF Shapes
  <2> QED
    BY <1>5, <2>1, <2>2, <2>3
<1>6. ASSUME NEW i \in Handlers, Run(i) \/ InjectFault(i) \/ Forward(i)
      PROVE  Shapes' /\ cache' = cache
  <2>1. cache' = cache
    BY <1>6 DEF Run, InjectFault, Forward, gateway
  <2> QED
    BY <1>6, <2>1, RunShapes, InjectFaultShapes, ForwardShapes
<1>7. CASE Step \/ StepDone \/ OneDead \/ TwoDead \/ Fetch \/ Geometry \/ Live
  <2>1. cache' = cache
    BY <1>7 DEF Step, StepDone, OneDead, TwoDead, Fetch, Geometry, Live, Local
  <2> QED
    BY <1>7, <2>1, StepShapes, StepDoneShapes, OneDeadShapes, TwoDeadShapes, FetchShapes, GeometryShapes,
       LiveShapes
<1>8. CASE ParityGate \/ Reconstruct \/ ReplicaGate \/ ReadReplica \/ TakeReplica \/ History \/ StartLoad
  <2>1. cache' = cache
    BY <1>8 DEF ParityGate, Reconstruct, ReplicaGate, ReadReplica, TakeReplica, History, StartLoad, Local
  <2> QED
    BY <1>8, <2>1, RecoverShapes
<1>9. CASE Promote \/ Rewire \/ Load
  <2>1. cache' = cache
    BY <1>9 DEF Promote, Rewire, Load
  <2> QED
    BY <1>9, <2>1, PromoteShapes, RewireShapes, LoadShapes
<1>10. \/ UNCHANGED vars
       \/ Step \/ StepDone \/ OneDead \/ TwoDead \/ Fetch \/ Geometry \/ Live
       \/ ParityGate \/ Reconstruct \/ ReplicaGate \/ ReadReplica \/ TakeReplica \/ History \/ StartLoad
       \/ Promote \/ Rewire \/ Load
       \/ \E i \in Handlers : Run(i) \/ InjectFault(i) \/ Forward(i)
       \/ \E d \in Device : Deliver(d) \/ Lose(d) \/ Crash(d) \/ OnFailure(d)
       \/ \E r \in Request \ {Subject}, s \in NonHead : OtherPush(r, s)
  BY <1>1, NextIs
<1> QED
  BY <1>2, <1>3, <1>4, <1>5, <1>6, <1>7, <1>8, <1>9, <1>10

LEMMA ModeStays ==
  ASSUME [Next]_vars, DOMAIN chain = Handlers
  PROVE  mode' = mode
<1>1. CASE UNCHANGED vars
  BY <1>1 DEF vars
<1>2. CASE \/ Step \/ StepDone \/ OneDead \/ TwoDead \/ Fetch \/ Geometry \/ Live
           \/ ParityGate \/ Reconstruct \/ ReplicaGate \/ ReadReplica \/ TakeReplica \/ History \/ StartLoad
           \/ Promote \/ Rewire \/ Load
  BY <1>2 DEF Step, StepDone, OneDead, TwoDead, Fetch, Geometry, Live, ParityGate, Reconstruct, ReplicaGate,
              ReadReplica, TakeReplica, History, StartLoad, Promote, Rewire, Load, Local
<1>3. CASE \E i \in Handlers : Run(i) \/ InjectFault(i) \/ Forward(i)
  BY <1>3 DEF Run, InjectFault, Forward
<1>4. CASE \/ \E d \in Device : Deliver(d) \/ Lose(d) \/ Crash(d) \/ OnFailure(d)
           \/ \E r \in Request \ {Subject}, s \in NonHead : OtherPush(r, s)
  BY <1>4 DEF Deliver, Lose, Crash, OnFailure, OtherPush
<1> QED
  BY <1>1, <1>2, <1>3, <1>4, NextIs

\* A cache fits by the mode alone.
LEMMA CacheFitsNext ==
  ASSUME mode' = mode
  PROVE  CacheFits(cache)' <=> CacheFits(cache')
  BY DEF CacheFits, Counted, HeldBytes, ItemsFit, ItemFits, EntryFits, K, ReplicaBytes, ParityBytes

\* In every mode, whatever fails and whatever is pushed in whatever order: the
\* bytes that a cache counts are the bytes that it holds, above its budget it holds
\* one request only, and a slot costs at most what the experiments say, and exactly
\* that once every stage has pushed it (ParityCache, ReplicaCache).
THEOREM BytesAreCounted == Spec => []BytesCounted
<1>1. Init => Shapes /\ CacheFits(cache)
  BY InitShapes
<1>2. (Shapes /\ CacheFits(cache)) /\ [Next]_vars => (Shapes /\ CacheFits(cache))'
  <2> SUFFICES ASSUME Shapes, CacheFits(cache), [Next]_vars PROVE (Shapes /\ CacheFits(cache))'
    OBVIOUS
  <2>1. Shapes' /\ CacheFits(cache') /\ mode' = mode
    BY NextShapes, ModeStays DEF Shapes, ChainShaped
  <2> QED
    BY <2>1, CacheFitsNext
<1>3. Shapes /\ CacheFits(cache) => BytesCounted
  BY BytesFollow DEF Shapes
<1> QED
  BY <1>1, <1>2, <1>3, PTL DEF Spec

-----------------------------------------------------------------------------
(* Exclusive or, bit by bit.                                                *)

Bits(b) == Bit(b, 1) + 2 * Bit(b, 2) + 4 * Bit(b, 4) + 8 * Bit(b, 8)
             + 16 * Bit(b, 16) + 32 * Bit(b, 32) + 64 * Bit(b, 64) + 128 * Bit(b, 128)
Weights == {1, 2, 4, 8, 16, 32, 64, 128}

LEMMA BitIs ==
  ASSUME NEW b \in Byte, NEW w \in Weights
  PROVE  Bit(b, w) \in {0, 1}
  BY DEF Bit, Byte, Weights

LEMMA ByteIsItsBits ==
  ASSUME NEW b \in Byte
  PROVE  b = Bits(b)
  BY DEF Bit, Byte, Bits

LEMMA ByteOfBits ==
  ASSUME NEW x1 \in {0, 1}, NEW x2 \in {0, 1}, NEW x4 \in {0, 1}, NEW x8 \in {0, 1},
         NEW x16 \in {0, 1}, NEW x32 \in {0, 1}, NEW x64 \in {0, 1}, NEW x128 \in {0, 1},
         NEW b, b = x1 + 2 * x2 + 4 * x4 + 8 * x8 + 16 * x16 + 32 * x32 + 64 * x64 + 128 * x128
  PROVE  /\ b \in Byte
         /\ Bit(b, 1) = x1 /\ Bit(b, 2) = x2 /\ Bit(b, 4) = x4 /\ Bit(b, 8) = x8
         /\ Bit(b, 16) = x16 /\ Bit(b, 32) = x32 /\ Bit(b, 64) = x64 /\ Bit(b, 128) = x128
  BY DEF Bit, Byte

LEMMA XorBytesIs ==
  ASSUME NEW a \in Byte, NEW b \in Byte
  PROVE  XorBytes(a, b) = XorBits(a, b)
<1>1. PICK p, q : p = a + 1 /\ q = b + 1
  OBVIOUS
<1>0. p \in 1..256 /\ q \in 1..256 /\ a = p - 1 /\ b = q - 1
  BY <1>1 DEF Byte
<1> DEFINE row(x) == [y \in 1..256 |-> XorBits(x - 1, y - 1)]
           table == [x \in 1..256 |-> row(x) \o << >>]
<1>2. \A x : row(x) \o << >> = row(x)
  <2> TAKE x
  <2> HIDE DEF row
  <2>1. Sized(row(x), 256)
    BY DEF row, Sized
  <2> QED
    BY <2>1, SizedIs
<1>3. table \o << >> = table
  <2>1. Sized(table, 256)
    BY DEF Sized
  <2> HIDE DEF table
  <2> QED
    BY <2>1, SizedIs
<1>4. XorTable = table
  BY <1>3 DEF XorTable
<1>5. XorTable[p][q] = row(p)[q]
  <2> HIDE DEF row
  <2> QED
    BY <1>0, <1>2, <1>4
<1>6. row(p)[q] = XorBits(p - 1, q - 1)
  BY <1>0
<1>7. XorBytes(a, b) = XorTable[p][q]
  BY <1>1 DEF XorBytes
<1>8. XorBits(p - 1, q - 1) = XorBits(a, b)
  BY <1>0
<1> HIDE DEF row
<1> QED
  BY <1>5, <1>6, <1>7, <1>8

LEMMA XorBytesBits ==
  ASSUME NEW a \in Byte, NEW b \in Byte
  PROVE  /\ XorBytes(a, b) \in Byte
         /\ \A w \in Weights : Bit(XorBytes(a, b), w) = (Bit(a, w) + Bit(b, w)) % 2
<1> DEFINE x(w) == (Bit(a, w) + Bit(b, w)) % 2
<1>1. \A w \in Weights : x(w) \in {0, 1}
  BY BitIs
<1>2. XorBytes(a, b) = x(1) + 2 * x(2) + 4 * x(4) + 8 * x(8) + 16 * x(16) + 32 * x(32) + 64 * x(64) + 128 * x(128)
  <2>1. XorBytes(a, b) = XorBits(a, b)
    BY XorBytesIs
  <2>2. x(1) \in Int /\ x(2) \in Int /\ x(4) \in Int /\ x(8) \in Int /\ x(16) \in Int /\ x(32) \in Int
        /\ x(64) \in Int /\ x(128) \in Int
    BY <1>1 DEF Weights
  <2>3. XorBits(a, b) = 1 * x(1) + 2 * x(2) + 4 * x(4) + 8 * x(8) + 16 * x(16) + 32 * x(32) + 64 * x(64) + 128 * x(128)
    BY DEF XorBits, XorBit
  <2> HIDE DEF x
  <2> QED
    BY <2>1, <2>2, <2>3
<1> HIDE DEF x
<1>3. /\ x(1) \in {0, 1} /\ x(2) \in {0, 1} /\ x(4) \in {0, 1} /\ x(8) \in {0, 1}
      /\ x(16) \in {0, 1} /\ x(32) \in {0, 1} /\ x(64) \in {0, 1} /\ x(128) \in {0, 1}
  BY <1>1 DEF Weights
<1> DEFINE b0 == XorBytes(a, b)
<1> HIDE DEF b0
<1>4. b0 = x(1) + 2 * x(2) + 4 * x(4) + 8 * x(8) + 16 * x(16) + 32 * x(32) + 64 * x(64) + 128 * x(128)
  BY <1>2 DEF b0
<1>5. /\ b0 \in Byte
      /\ Bit(b0, 1) = x(1) /\ Bit(b0, 2) = x(2) /\ Bit(b0, 4) = x(4) /\ Bit(b0, 8) = x(8)
      /\ Bit(b0, 16) = x(16) /\ Bit(b0, 32) = x(32) /\ Bit(b0, 64) = x(64) /\ Bit(b0, 128) = x(128)
  BY <1>3, <1>4, ByteOfBits
<1>6. ASSUME NEW w \in Weights PROVE Bit(b0, w) = x(w)
  BY <1>5 DEF Weights
<1> QED
  BY <1>5, <1>6 DEF b0, x

LEMMA SameBits ==
  ASSUME NEW a \in Byte, NEW b \in Byte, \A w \in Weights : Bit(a, w) = Bit(b, w)
  PROVE  a = b
<1>1. a = Bits(a) /\ b = Bits(b)
  BY ByteIsItsBits
<1>2. Bits(a) = Bits(b)
  BY DEF Bits, Weights
<1> QED
  BY <1>1, <1>2

LEMMA XorLaws ==
  ASSUME NEW a \in Byte, NEW b \in Byte, NEW c \in Byte
  PROVE  /\ XorBytes(a, b) \in Byte
         /\ XorBytes(a, b) = XorBytes(b, a)
         /\ XorBytes(a, XorBytes(b, c)) = XorBytes(XorBytes(a, b), c)
         /\ XorBytes(a, 0) = a /\ XorBytes(0, a) = a
         /\ XorBytes(XorBytes(a, b), a) = b
<1>1. 0 \in Byte /\ \A w \in Weights : Bit(0, w) = 0
  BY DEF Byte, Weights, Bit
<1>2. \A x, y \in Byte : /\ XorBytes(x, y) \in Byte
                         /\ \A w \in Weights : Bit(XorBytes(x, y), w) = (Bit(x, w) + Bit(y, w)) % 2
  BY XorBytesBits
<1>3. \A w \in Weights : Bit(a, w) \in {0, 1} /\ Bit(b, w) \in {0, 1} /\ Bit(c, w) \in {0, 1}
  BY BitIs
<1> DEFINE X(x, y) == (x + y) % 2
<1>4. \A x, y, z \in {0, 1} : /\ X(x, y) = X(y, x) /\ X(x, X(y, z)) = X(X(x, y), z)
                              /\ X(x, 0) = x /\ X(0, x) = x /\ X(X(x, y), x) = y
  OBVIOUS
<1>5. \A x, y \in Byte : \A w \in Weights : Bit(XorBytes(x, y), w) = X(Bit(x, w), Bit(y, w))
  BY <1>2
<1> HIDE DEF X
<1>11. /\ XorBytes(a, b) \in Byte /\ XorBytes(b, c) \in Byte
      /\ XorBytes(a, XorBytes(b, c)) \in Byte /\ XorBytes(XorBytes(a, b), c) \in Byte
  BY <1>2
<1>6. XorBytes(a, b) = XorBytes(b, a)
  <2>1. \A w \in Weights : Bit(XorBytes(a, b), w) = Bit(XorBytes(b, a), w)
    BY <1>3, <1>4, <1>5
  <2> QED
    BY <2>1, <1>2, SameBits
<1>7. XorBytes(a, XorBytes(b, c)) = XorBytes(XorBytes(a, b), c)
  <2>1. \A w \in Weights : Bit(XorBytes(a, XorBytes(b, c)), w) = Bit(XorBytes(XorBytes(a, b), c), w)
    <3> TAKE w \in Weights
    <3>1. /\ Bit(XorBytes(a, b), w) = X(Bit(a, w), Bit(b, w))
          /\ Bit(XorBytes(b, c), w) = X(Bit(b, w), Bit(c, w))
          /\ Bit(XorBytes(a, XorBytes(b, c)), w) = X(Bit(a, w), Bit(XorBytes(b, c), w))
          /\ Bit(XorBytes(XorBytes(a, b), c), w) = X(Bit(XorBytes(a, b), w), Bit(c, w))
      BY <1>11, <1>5
    <3> QED
      BY <1>3, <1>4, <3>1
  <2> QED
    BY <2>1, <1>2, SameBits
<1>8. XorBytes(a, 0) = a /\ XorBytes(0, a) = a
  <2>1. \A w \in Weights : Bit(XorBytes(a, 0), w) = Bit(a, w) /\ Bit(XorBytes(0, a), w) = Bit(a, w)
    BY <1>1, <1>3, <1>4, <1>5
  <2> QED
    BY <2>1, <1>1, <1>2, SameBits
<1>9. XorBytes(XorBytes(a, b), a) = b
  <2>1. \A w \in Weights : Bit(XorBytes(XorBytes(a, b), a), w) = Bit(b, w)
    <3> TAKE w \in Weights
    <3>1. /\ Bit(XorBytes(a, b), w) = X(Bit(a, w), Bit(b, w))
          /\ Bit(XorBytes(XorBytes(a, b), a), w) = X(Bit(XorBytes(a, b), w), Bit(a, w))
      BY <1>11, <1>5
    <3> QED
      BY <1>3, <1>4, <3>1
  <2> QED
    BY <2>1, <1>2, SameBits
<1> QED
  BY <1>2, <1>6, <1>7, <1>8, <1>9

-----------------------------------------------------------------------------
(* Sums of columns.                                                         *)

\* A column is as long as one likes, with zeros.
At(a, l) == IF l \in DOMAIN a THEN a[l] ELSE 0
IsCol(a) == IsSeq(a) /\ \A l \in DOMAIN a : a[l] \in Byte

LEMMA XorColumnsIs ==
  ASSUME NEW a, NEW b, IsCol(a), IsCol(b)
  PROVE  /\ IsCol(XorColumns(a, b)) /\ Len(XorColumns(a, b)) = Larger(Len(a), Len(b))
         /\ \A l : At(XorColumns(a, b), l) = XorBytes(At(a, l), At(b, l))
<1>1. /\ Len(a) \in Nat /\ DOMAIN a = 1..Len(a) /\ Sized(a, Len(a))
      /\ Len(b) \in Nat /\ DOMAIN b = 1..Len(b) /\ Sized(b, Len(b))
  BY IsSeqIs DEF IsCol
<1> DEFINE n == Larger(Len(a), Len(b))
           x == XorColumns(a, b)
<1>2. n \in Nat /\ Len(a) <= n /\ Len(b) <= n /\ (n = Len(a) \/ n = Len(b))
  BY <1>1 DEF Larger
<1>3. Sized(x, n)
  BY <1>1, XorColumnsSize
<1>4. DOMAIN x = 1..n /\ Len(x) = n /\ IsSeq(x)
  BY <1>3, SizedIs
<1>5. \A l \in 1..n : x[l] = IF l > Len(a) THEN b[l] ELSE IF l > Len(b) THEN a[l] ELSE XorBytes(a[l], b[l])
  BY <1>1, <1>2 DEF XorColumns, Larger
<1>6. 0 \in Byte /\ \A l : At(a, l) \in Byte /\ At(b, l) \in Byte
  BY DEF IsCol, At, Byte
<1> HIDE DEF x
<1>7. ASSUME NEW l PROVE At(x, l) = XorBytes(At(a, l), At(b, l))
  <2>1. CASE l \in 1..n
    <3>1. At(x, l) = x[l]
      BY <1>4, <2>1 DEF At
    <3>2. CASE l > Len(a)
      BY <1>1, <1>2, <1>5, <1>6, <2>1, <3>1, <3>2, XorLaws DEF At
    <3>3. CASE l <= Len(a) /\ l > Len(b)
      BY <1>1, <1>2, <1>5, <1>6, <2>1, <3>1, <3>3, XorLaws DEF At
    <3>4. CASE l <= Len(a) /\ l <= Len(b)
      BY <1>1, <1>2, <1>5, <2>1, <3>1, <3>4 DEF At
    <3> QED
      BY <1>1, <1>2, <2>1, <3>2, <3>3, <3>4
  <2>2. CASE l \notin 1..n
    <3>1. l \notin DOMAIN a /\ l \notin DOMAIN b /\ l \notin DOMAIN x
      BY <1>1, <1>2, <1>4, <2>2
    <3>2. At(x, l) = 0 /\ At(a, l) = 0 /\ At(b, l) = 0
      BY <3>1 DEF At
    <3> QED
      BY <1>6, <3>2, XorLaws
  <2> QED
    BY <2>1, <2>2
<1>8. ASSUME NEW l \in DOMAIN x PROVE x[l] \in Byte
  <2>1. x[l] = At(x, l)
    BY DEF At
  <2> QED
    BY <2>1, <1>6, <1>7, XorLaws
<1> QED
  BY <1>4, <1>7, <1>8 DEF IsCol, x

LEMMA SameColumns ==
  ASSUME NEW a, NEW b, IsCol(a), IsCol(b), Len(a) = Len(b), \A l \in 1..Len(a) : At(a, l) = At(b, l)
  PROVE  a = b
<1>1. /\ Len(a) \in Nat /\ DOMAIN a = 1..Len(a) /\ Sized(a, Len(a))
      /\ Len(b) \in Nat /\ DOMAIN b = 1..Len(b) /\ Sized(b, Len(b))
  BY IsSeqIs DEF IsCol
<1>2. a = [l \in 1..Len(a) |-> a[l]] /\ b = [l \in 1..Len(a) |-> b[l]]
  BY <1>1 DEF Sized
<1>3. \A l \in 1..Len(a) : a[l] = b[l]
  BY <1>1 DEF At
<1> QED
  BY <1>2, <1>3

LEMMA XorSwaps ==
  ASSUME NEW a, NEW b, NEW c, IsCol(a), IsCol(b), IsCol(c)
  PROVE  XorColumns(a, XorColumns(b, c)) = XorColumns(b, XorColumns(a, c))
<1> DEFINE x == XorColumns(a, XorColumns(b, c))
           y == XorColumns(b, XorColumns(a, c))
<1>1. /\ IsCol(XorColumns(b, c)) /\ Len(XorColumns(b, c)) = Larger(Len(b), Len(c))
      /\ \A l : At(XorColumns(b, c), l) = XorBytes(At(b, l), At(c, l))
  BY XorColumnsIs
<1>2. /\ IsCol(XorColumns(a, c)) /\ Len(XorColumns(a, c)) = Larger(Len(a), Len(c))
      /\ \A l : At(XorColumns(a, c), l) = XorBytes(At(a, l), At(c, l))
  BY XorColumnsIs
<1>3. /\ IsCol(x) /\ Len(x) = Larger(Len(a), Larger(Len(b), Len(c)))
      /\ \A l : At(x, l) = XorBytes(At(a, l), XorBytes(At(b, l), At(c, l)))
  BY <1>1, XorColumnsIs
<1>4. /\ IsCol(y) /\ Len(y) = Larger(Len(b), Larger(Len(a), Len(c)))
      /\ \A l : At(y, l) = XorBytes(At(b, l), XorBytes(At(a, l), At(c, l)))
  BY <1>2, XorColumnsIs
<1> HIDE DEF x, y
<1>5. Len(a) \in Nat /\ Len(b) \in Nat /\ Len(c) \in Nat
  BY IsSeqIs DEF IsCol
<1>6. Len(x) = Len(y)
  BY <1>3, <1>4, <1>5 DEF Larger
<1>7. ASSUME NEW l PROVE At(x, l) = At(y, l)
  <2>1. At(a, l) \in Byte /\ At(b, l) \in Byte /\ At(c, l) \in Byte
    BY DEF IsCol, At, Byte
  <2> DEFINE p == At(a, l)
             q == At(b, l)
             r == At(c, l)
  <2> HIDE DEF p, q, r
  <2>2. p \in Byte /\ q \in Byte /\ r \in Byte
    BY <2>1 DEF p, q, r
  <2>3. XorBytes(p, XorBytes(q, r)) = XorBytes(XorBytes(p, q), r)
    BY <2>2, XorLaws
  <2>4. XorBytes(q, XorBytes(p, r)) = XorBytes(XorBytes(q, p), r)
    BY <2>2, XorLaws
  <2>5. XorBytes(p, q) = XorBytes(q, p)
    BY <2>2, XorLaws
  <2> QED
    BY <1>3, <1>4, <2>3, <2>4, <2>5 DEF p, q, r
<1> QED
  BY <1>3, <1>4, <1>6, <1>7, SameColumns DEF x, y

\* The sum of the columns of some stages, one after another.
XorOn(f, S) == FoldFunctionOnSet(XorColumns, << >>, f, S)
IsXor(g, f, S) ==
  g = [s \in SUBSET S |-> IF s = {} THEN << >> ELSE XorColumns(f[First(s)], g[s \ {First(s)}])]

LEMMA XorChosen ==
  ASSUME NEW f, NEW S, NEW h, IsXor(h, f, S)
  PROVE  \E g : IsXor(g, f, S) /\ XorOn(f, S) = g[S]
<1> DEFINE iter == CHOOSE g : IsXor(g, f, S)
<1>1. IsXor(iter, f, S)
  OBVIOUS
<1>2. XorOn(f, S) = iter[S]
  BY DEF XorOn, FoldFunctionOnSet, MapThenFoldSet, IsXor, First
<1> QED
  BY <1>1, <1>2

LEMMA XorStep ==
  ASSUME NEW f, NEW S, NEW g, IsXor(g, f, S), NEW T \in SUBSET S
  PROVE  g[T] = IF T = {} THEN << >> ELSE XorColumns(f[First(T)], g[T \ {First(T)}])
<1>1. g = [s \in SUBSET S |-> IF s = {} THEN << >> ELSE XorColumns(f[First(s)], g[s \ {First(s)}])]
  BY DEF IsXor
<1> DEFINE h == [s \in SUBSET S |-> IF s = {} THEN << >> ELSE XorColumns(f[First(s)], g[s \ {First(s)}])]
<1>2. h[T] = IF T = {} THEN << >> ELSE XorColumns(f[First(T)], g[T \ {First(T)}])
  OBVIOUS
<1> QED
  BY <1>1, <1>2

LEMMA XorAgrees ==
  ASSUME NEW f, NEW S, NEW g, IsXor(g, f, S), NEW R, NEW h, IsXor(h, f, R),
         NEW T, T \subseteq S, T \subseteq R, IsFiniteSet(T)
  PROVE  g[T] = h[T]
<1> DEFINE G == {U \in SUBSET T : g[U] = h[U]}
<1>1. ASSUME NEW U \in SUBSET T, \A V \in SUBSET U : V # U => V \in G
      PROVE  U \in G
  <2>0. U \in SUBSET S /\ U \in SUBSET R
    OBVIOUS
  <2>1. g[U] = IF U = {} THEN << >> ELSE XorColumns(f[First(U)], g[U \ {First(U)}])
    BY <2>0, XorStep
  <2>2. h[U] = IF U = {} THEN << >> ELSE XorColumns(f[First(U)], h[U \ {First(U)}])
    BY <2>0, XorStep
  <2>3. U # {} => U \ {First(U)} \in G
    BY <1>1, FirstIn
  <2> QED
    BY <2>1, <2>2, <2>3
<1> HIDE DEF G
<1>2. T \in G
  BY <1>1, SubsetInduction
<1> QED
  BY <1>2 DEF G

LEMMA XorExists ==
  ASSUME NEW f, NEW S, IsFiniteSet(S)
  PROVE  \E g : IsXor(g, f, S)
<1> DEFINE G == {U \in SUBSET S : \E g : IsXor(g, f, U)}
<1>1. ASSUME NEW U \in SUBSET S, \A V \in SUBSET U : V # U => V \in G
      PROVE  U \in G
  <2> DEFINE H(V) == CHOOSE g : IsXor(g, f, V)
             h == [s \in SUBSET U |-> IF s = {} THEN << >>
                                      ELSE XorColumns(f[First(s)], H(s \ {First(s)})[s \ {First(s)}])]
  <2>1. ASSUME NEW V \in SUBSET U, V # U
        PROVE  IsXor(H(V), f, V)
    BY <1>1, <2>1
  <2> HIDE DEF H
  <2>2. ASSUME NEW s \in SUBSET U, s # {}
        PROVE  h[s \ {First(s)}] = H(s \ {First(s)})[s \ {First(s)}]
    <3> DEFINE V == s \ {First(s)}
    <3>1. V \in SUBSET U /\ V # U
      BY <2>2, FirstIn
    <3>2. IsXor(H(V), f, V)
      BY <2>1, <3>1
    <3>3. h[V] = IF V = {} THEN << >> ELSE XorColumns(f[First(V)], H(V \ {First(V)})[V \ {First(V)}])
      BY <3>1
    <3>4. H(V)[V] = IF V = {} THEN << >> ELSE XorColumns(f[First(V)], H(V)[V \ {First(V)}])
      <4> HIDE DEF V, h
      <4>1. V \in SUBSET V
        OBVIOUS
      <4>2. IsXor(H(V), f, V)
        BY <3>2
      <4>3. CASE V = {}
        BY <4>1, <4>2, <4>3, XorStep
      <4>4. CASE V # {}
        <5> DEFINE x == XorColumns(f[First(V)], H(V)[V \ {First(V)}])
        <5>1. H(V)[V] = x
          BY <4>1, <4>2, <4>4, XorStep
        <5> HIDE DEF x
        <5>2. H(V)[V] = IF V = {} THEN << >> ELSE x
          BY <4>4, <5>1
        <5> QED
          BY <5>2 DEF x
      <4> QED
        BY <4>3, <4>4
    <3>5. ASSUME V # {}
          PROVE  H(V \ {First(V)})[V \ {First(V)}] = H(V)[V \ {First(V)}]
      <4> DEFINE W == V \ {First(V)}
      <4>1. W \in SUBSET U /\ W # U /\ W \subseteq V
        BY <3>1, <3>5, FirstIn
      <4>2. IsXor(H(W), f, W)
        BY <2>1, <4>1
      <4>3. IsFiniteSet(W)
        BY <4>1, FS_Subset
      <4> HIDE DEF W, V, h
      <4>4. H(W)[W] = H(V)[W]
        BY <3>2, <4>1, <4>2, <4>3, XorAgrees
      <4> QED
        BY <4>4 DEF W
    <3> QED
      BY <3>3, <3>4, <3>5
  <2>3. h = [s \in SUBSET U |-> IF s = {} THEN << >> ELSE XorColumns(f[First(s)], h[s \ {First(s)}])]
    BY <2>2
  <2>4. IsXor(h, f, U)
    BY <2>3 DEF IsXor
  <2> QED
    BY <2>4
<1> HIDE DEF G
<1>2. S \in G
  BY <1>1, SubsetInduction
<1> QED
  BY <1>2 DEF G

LEMMA XorOfNone ==
  ASSUME NEW f
  PROVE  XorOn(f, {}) = << >>
<1>1. PICK g : IsXor(g, f, {}) /\ XorOn(f, {}) = g[{}]
  BY XorExists, XorChosen, FS_EmptySet
<1> QED
  BY <1>1, XorStep

LEMMA XorOfFirst ==
  ASSUME NEW f, NEW S, IsFiniteSet(S), S # {}
  PROVE  XorOn(f, S) = XorColumns(f[First(S)], XorOn(f, S \ {First(S)}))
<1> DEFINE T == S \ {First(S)}
<1>1. T \subseteq S /\ IsFiniteSet(T)
  BY FS_Subset
<1> HIDE DEF T
<1>2. PICK g : IsXor(g, f, S) /\ XorOn(f, S) = g[S]
  BY XorExists, XorChosen
<1>3. PICK h : IsXor(h, f, T) /\ XorOn(f, T) = h[T]
  BY <1>1, XorExists, XorChosen
<1>4. g[T] = h[T]
  BY <1>1, <1>2, <1>3, XorAgrees
<1>5. g[S] = XorColumns(f[First(S)], g[T])
  BY <1>2, XorStep DEF T
<1> QED
  BY <1>2, <1>3, <1>4, <1>5 DEF T

LEMMA SameXor ==
  ASSUME NEW f, NEW g, NEW S, IsFiniteSet(S), \A x \in S : f[x] = g[x]
  PROVE  XorOn(f, S) = XorOn(g, S)
<1> DEFINE G == {U \in SUBSET S : XorOn(f, U) = XorOn(g, U)}
<1>1. ASSUME NEW U \in SUBSET S, \A V \in SUBSET U : V # U => V \in G
      PROVE  U \in G
  <2>1. CASE U = {}
    BY <2>1, XorOfNone
  <2>2. CASE U # {}
    <3>1. First(U) \in U /\ IsFiniteSet(U)
      BY <2>2, FirstIn, FS_Subset
    <3>2. U \ {First(U)} \in G
      BY <1>1, <3>1
    <3> QED
      BY <2>2, <3>1, <3>2, XorOfFirst
  <2> QED
    BY <2>1, <2>2
<1> HIDE DEF G
<1>2. S \in G
  BY <1>1, SubsetInduction
<1> QED
  BY <1>2 DEF G

\* The sum over a set is that over a part of it and that over the rest.

LEMMA XorOnIsCol ==
  ASSUME NEW f, NEW S, IsFiniteSet(S), \A x \in S : IsCol(f[x])
  PROVE  IsCol(XorOn(f, S))
<1> DEFINE G == {U \in SUBSET S : IsCol(XorOn(f, U))}
<1>1. ASSUME NEW U \in SUBSET S, \A V \in SUBSET U : V # U => V \in G
      PROVE  U \in G
  <2>1. CASE U = {}
    <3>1. IsCol(<< >>)
      BY EmptyIsSized DEF IsCol
    <3> QED
      BY <2>1, <3>1, XorOfNone
  <2>2. CASE U # {}
    <3>1. First(U) \in U /\ IsFiniteSet(U)
      BY <2>2, FirstIn, FS_Subset
    <3>2. U \ {First(U)} \in G
      BY <1>1, <3>1
    <3>3. XorOn(f, U) = XorColumns(f[First(U)], XorOn(f, U \ {First(U)}))
      BY <2>2, <3>1, XorOfFirst
    <3>4. IsCol(f[First(U)]) /\ IsCol(XorOn(f, U \ {First(U)}))
      BY <3>1, <3>2
    <3> QED
      BY <3>3, <3>4, XorColumnsIs
  <2> QED
    BY <2>1, <2>2
<1> HIDE DEF G
<1>2. S \in G
  BY <1>1, SubsetInduction
<1> QED
  BY <1>2 DEF G

\* Any column may be added last.
LEMMA XorWithout ==
  ASSUME NEW f, NEW S, IsFiniteSet(S), \A x \in S : IsCol(f[x]), NEW y \in S
  PROVE  XorOn(f, S) = XorColumns(f[y], XorOn(f, S \ {y}))
<1> DEFINE Sum(U) == XorOn(f, U)
           G == {U \in SUBSET S : \A z \in U : Sum(U) = XorColumns(f[z], Sum(U \ {z}))}
<1>1. ASSUME NEW U \in SUBSET S, \A V \in SUBSET U : V # U => V \in G
      PROVE  U \in G
  <2> SUFFICES ASSUME NEW z \in U PROVE Sum(U) = XorColumns(f[z], Sum(U \ {z}))
    OBVIOUS
  <2> DEFINE a == First(U)
  <2>1. a \in U /\ IsFiniteSet(U)
    BY FirstIn, FS_Subset
  <2>2. Sum(U) = XorColumns(f[a], Sum(U \ {a}))
    BY <2>1, XorOfFirst
  <2>3. CASE z # a
    <3>1. U \ {a} \in G /\ z \in U \ {a}
      BY <1>1, <2>1, <2>3
    <3>2. U \ {z} \in G /\ a \in U \ {z}
      BY <1>1, <2>1, <2>3
    <3>3. (U \ {a}) \ {z} = (U \ {z}) \ {a} /\ IsFiniteSet((U \ {a}) \ {z})
      BY <2>1, FS_Subset
    <3>4. IsCol(Sum((U \ {a}) \ {z}))
      BY <3>3, XorOnIsCol
    <3>5. IsCol(f[a]) /\ IsCol(f[z])
      BY <2>1
    <3> HIDE DEF Sum, a
    <3>6. Sum(U \ {a}) = XorColumns(f[z], Sum((U \ {a}) \ {z}))
      BY <3>1
    <3>7. Sum(U \ {z}) = XorColumns(f[a], Sum((U \ {a}) \ {z}))
      BY <3>2, <3>3
    <3> QED
      BY <2>2, <3>4, <3>5, <3>6, <3>7, XorSwaps
  <2> QED
    BY <2>2, <2>3
<1> HIDE DEF G
<1>2. S \in G
  BY <1>1, SubsetInduction
<1> QED
  BY <1>2 DEF G

LEMMA XorCommutes ==
  ASSUME NEW a, NEW b, IsCol(a), IsCol(b)
  PROVE  XorColumns(a, b) = XorColumns(b, a)
<1>1. /\ IsCol(XorColumns(a, b)) /\ Len(XorColumns(a, b)) = Larger(Len(a), Len(b))
      /\ \A l : At(XorColumns(a, b), l) = XorBytes(At(a, l), At(b, l))
  BY XorColumnsIs
<1>2. /\ IsCol(XorColumns(b, a)) /\ Len(XorColumns(b, a)) = Larger(Len(b), Len(a))
      /\ \A l : At(XorColumns(b, a), l) = XorBytes(At(b, l), At(a, l))
  BY XorColumnsIs
<1>3. Len(a) \in Nat /\ Len(b) \in Nat
  BY IsSeqIs DEF IsCol
<1>4. Larger(Len(a), Len(b)) = Larger(Len(b), Len(a))
  BY <1>3 DEF Larger
<1>5. ASSUME NEW l PROVE XorBytes(At(a, l), At(b, l)) = XorBytes(At(b, l), At(a, l))
  <2>1. At(a, l) \in Byte /\ At(b, l) \in Byte
    BY DEF IsCol, At, Byte
  <2> QED
    BY <2>1, XorLaws
<1> QED
  BY <1>1, <1>2, <1>4, <1>5, SameColumns

\* The columns of a slot.
ColsOf(r, j) == [s \in NonHead |-> Col(r, s, j)]

LEMMA ColIs ==
  ASSUME NEW r \in Request, NEW s \in Stage, NEW j \in Slot
  PROVE  IsCol(Col(r, s, j)) /\ Len(Col(r, s, j)) = LayersOf[s] /\ DOMAIN Col(r, s, j) = 1..LayersOf[s]
<1>1. /\ Sized(Col(r, s, j), LayersOf[s])
      /\ Col(r, s, j) = [l \in 1..LayersOf[s] |->
           (61 * s + 29 * j + 83 * l + (IF r = Subject THEN 0 ELSE 7)) % 256]
  BY ColSize
<1>2. LayersOf[s] \in Nat /\ s \in Nat /\ j \in Nat
  BY Lengths, Numbers
<1>3. IsSeq(Col(r, s, j)) /\ Len(Col(r, s, j)) = LayersOf[s] /\ DOMAIN Col(r, s, j) = 1..LayersOf[s]
  BY <1>1, SizedIs
<1> DEFINE c == IF r = Subject THEN 0 ELSE 7
<1>4. c \in Nat
  OBVIOUS
<1>5. \A l \in 1..LayersOf[s] : Col(r, s, j)[l] = (61 * s + 29 * j + 83 * l + c) % 256
  BY <1>1
<1> HIDE DEF c
<1>6. ASSUME NEW l \in 1..LayersOf[s] PROVE Col(r, s, j)[l] \in Byte
  <2>1. 61 * s + 29 * j + 83 * l + c \in Nat
    BY <1>2, <1>4
  <2>2. ASSUME NEW x \in Nat PROVE x % 256 \in Byte
    BY DEF Byte
  <2> QED
    BY <1>5, <2>1, <2>2
<1> QED
  BY <1>3, <1>6 DEF IsCol

LEMMA SumsAre ==
  ASSUME NEW r \in Request, NEW j \in Slot, NEW T \in SUBSET NonHead
  PROVE  /\ Sums[r][j][T] = XorOn(ColsOf(r, j), T) /\ IsCol(Sums[r][j][T]) /\ IsFiniteSet(T)
         /\ \A s \in T : ColsOf(r, j)[s] = Col(r, s, j) /\ IsCol(ColsOf(r, j)[s])
<1> DEFINE g == [s \in T |-> Col(r, s, j)]
           f == ColsOf(r, j)
<1>1. IsFiniteSet(T)
  BY Lengths, FS_Subset
<1>2. \A s \in T : f[s] = Col(r, s, j) /\ g[s] = f[s] /\ IsCol(f[s])
  BY Lengths, ColIs DEF ColsOf
<1>3. Sums[r][j][T] = XorOn(g, T)
  BY DEF Sums, SumColumns, FoldFunction, XorOn
<1> HIDE DEF g, f
<1>4. XorOn(g, T) = XorOn(f, T)
  BY <1>1, <1>2, SameXor
<1>5. IsCol(XorOn(f, T))
  BY <1>1, <1>2, XorOnIsCol
<1> QED
  BY <1>1, <1>2, <1>3, <1>4, <1>5 DEF f

LEMMA SumOfNobody ==
  ASSUME NEW r \in Request, NEW j \in Slot
  PROVE  Sums[r][j][{}] = << >>
<1>1. {} \in SUBSET NonHead
  OBVIOUS
<1> QED
  BY <1>1, SumsAre, XorOfNone

LEMMA SumWithAnother ==
  ASSUME NEW r \in Request, NEW j \in Slot, NEW T \in SUBSET NonHead, NEW s \in NonHead, s \notin T
  PROVE  XorColumns(Sums[r][j][T], Col(r, s, j)) = Sums[r][j][T \cup {s}]
<1> DEFINE U == T \cup {s}
           f == ColsOf(r, j)
<1>1. U \in SUBSET NonHead /\ s \in U /\ U \ {s} = T
  OBVIOUS
<1> HIDE DEF U
<1>2. /\ Sums[r][j][U] = XorOn(f, U) /\ IsFiniteSet(U)
      /\ \A x \in U : f[x] = Col(r, x, j) /\ IsCol(f[x])
  BY <1>1, SumsAre
<1>3. Sums[r][j][T] = XorOn(f, T) /\ IsCol(Sums[r][j][T])
  BY SumsAre
<1> HIDE DEF f
<1>4. XorOn(f, U) = XorColumns(f[s], XorOn(f, U \ {s}))
  BY <1>1, <1>2, XorWithout
<1>5. XorOn(f, U) = XorColumns(Col(r, s, j), Sums[r][j][T])
  BY <1>1, <1>2, <1>3, <1>4
<1>6. IsCol(Col(r, s, j))
  BY <1>1, <1>2
<1> QED
  BY <1>2, <1>3, <1>5, <1>6, XorCommutes DEF U

\* _xor_reconstruct_kv: what is left of a whole slot without the survivors' columns.
LEMMA LostIs ==
  ASSUME NEW j \in Slot, NEW f \in NonHead, NEW g,
         DOMAIN g = NonHead \ {f}, \A s \in NonHead \ {f} : g[s] = Col(Subject, s, j)
  PROVE  Sliced(f, XorColumns(Sums[Subject][j][NonHead], SumColumns(g))) = Col(Subject, f, j)
<1> DEFINE T == NonHead \ {f}
           x == Sums[Subject][j][T]
           c == Col(Subject, f, j)
           p == XorColumns(x, c)
           q == XorColumns(p, x)
<1>1. Subject \in Request /\ f \in Stage /\ T \in SUBSET NonHead /\ f \notin T /\ T \cup {f} = NonHead
  BY KVAssumption, Lengths
<1>2. IsCol(c) /\ Len(c) = LayersOf[f] /\ DOMAIN c = 1..LayersOf[f] /\ Sized(c, LayersOf[f])
  BY <1>1, ColIs, ColSize
<1>3. /\ x = XorOn(ColsOf(Subject, j), T) /\ IsCol(x) /\ IsFiniteSet(T)
      /\ \A s \in T : ColsOf(Subject, j)[s] = Col(Subject, s, j)
  BY <1>1, SumsAre
<1>4. SumColumns(g) = x
  <2>1. SumColumns(g) = XorOn(g, T)
    BY DEF SumColumns, FoldFunction, XorOn
  <2>2. \A s \in T : g[s] = ColsOf(Subject, j)[s]
    BY <1>3
  <2> HIDE DEF T, x
  <2>3. XorOn(g, T) = XorOn(ColsOf(Subject, j), T)
    BY <1>3, <2>2, SameXor
  <2> QED
    BY <1>3, <2>1, <2>3
<1>5. Sums[Subject][j][NonHead] = p
  <2> HIDE DEF T
  <2>1. p = Sums[Subject][j][T \cup {f}]
    BY <1>1, SumWithAnother
  <2> HIDE DEF p
  <2> QED
    BY <1>1, <2>1
<1> HIDE DEF x, c, T
<1>6. IsCol(p) /\ \A l : At(p, l) = XorBytes(At(x, l), At(c, l))
  BY <1>2, <1>3, XorColumnsIs
<1>7. Len(p) = Larger(Len(x), Len(c)) /\ Len(x) \in Nat /\ Len(c) \in Nat
  BY <1>2, <1>3, XorColumnsIs, IsSeqIs DEF IsCol
<1> HIDE DEF p
<1>8. IsCol(q) /\ Len(q) = Larger(Len(p), Len(x)) /\ \A l : At(q, l) = XorBytes(At(p, l), At(x, l))
  BY <1>3, <1>6, XorColumnsIs
<1> HIDE DEF q
<1>9. Len(q) \in Nat /\ Len(q) >= Len(c) /\ DOMAIN q = 1..Len(q)
  BY <1>7, <1>8, IsSeqIs DEF Larger, IsCol
<1>10. ASSUME NEW l \in 1..LayersOf[f] PROVE l <= Len(q) /\ q[l] = c[l]
  <2>1. l \in DOMAIN q /\ l \in DOMAIN c /\ LayersOf[f] \in Nat
    BY <1>1, <1>2, <1>9, Lengths
  <2>0. 0 \in Byte /\ \A y \in DOMAIN x : x[y] \in Byte
    BY <1>3 DEF IsCol, Byte
  <2>5. c[l] \in Byte
    BY <1>2, <2>1 DEF IsCol
  <2>2. At(x, l) \in Byte /\ At(c, l) \in Byte /\ At(c, l) = c[l] /\ At(q, l) = q[l]
    BY <2>0, <2>1, <2>5 DEF At
  <2>3. At(q, l) = XorBytes(XorBytes(At(x, l), At(c, l)), At(x, l))
    BY <1>6, <1>8
  <2>4. At(q, l) = At(c, l)
    BY <2>2, <2>3, XorLaws
  <2> QED
    BY <1>9, <2>1, <2>2, <2>4
<1>11. Sliced(f, q) = [l \in 1..LayersOf[f] |-> c[l]]
  BY <1>10 DEF Sliced
<1>12. c = [l \in 1..LayersOf[f] |-> c[l]]
  BY <1>2 DEF Sized
<1> QED
  BY <1>4, <1>5, <1>11, <1>12 DEF q, p, x, c

-----------------------------------------------------------------------------
(* Buffers, layer after layer and slot after slot.                          *)

LEMMA Product ==
  ASSUME NEW a \in Nat, NEW b \in Nat
  PROVE  a * b \in Nat /\ a * b = b * a
  OBVIOUS

LEMMA ProductGrows ==
  ASSUME NEW a \in Nat, NEW b \in Nat, NEW n \in Nat, a < b
  PROVE  n * a + n <= n * b /\ n * a \in Nat /\ n * b \in Nat
<1>1. PICK d \in Nat : b = a + 1 + d
  <2>1. b - a - 1 \in Nat /\ b = a + 1 + (b - a - 1)
    OBVIOUS
  <2> QED
    BY <2>1
<1>2. n * b = n * a + n + n * d
  BY <1>1
<1>3. n * d \in Nat /\ n * a \in Nat /\ n * b \in Nat
  BY <1>1
<1> QED
  BY <1>2, <1>3

LEMMA Quotient ==
  ASSUME NEW a \in Nat, NEW n \in Nat \ {0}, NEW r \in 0..(n - 1)
  PROVE  (n * a + r) \div n = a /\ (n * a + r) % n = r /\ n * a \in Nat
<1> DEFINE x == n * a + r
           q == x \div n
           m == x % n
<1>0. n * a \in Nat
  OBVIOUS
<1>1. x \in Nat
  BY <1>0
<1> HIDE DEF x
<1>2. q \in Nat /\ m \in 0..(n - 1) /\ x = n * q + m
  BY <1>1, Division
<1> HIDE DEF q, m
<1>3. ~(q < a)
  <2>1. q < a => n * q + n <= n * a /\ n * q \in Nat
    BY <1>2, ProductGrows
  <2> QED
    BY <1>0, <1>2, <2>1 DEF x
<1>4. ~(a < q)
  <2>1. a < q => n * a + n <= n * q /\ n * q \in Nat
    BY <1>2, ProductGrows
  <2> QED
    BY <1>0, <1>2, <2>1 DEF x
<1>5. q = a
  BY <1>2, <1>3, <1>4
<1>6. m = r
  BY <1>0, <1>2, <1>5 DEF x
<1> QED
  BY <1>0, <1>5, <1>6 DEF q, m, x

\* Where the byte of a layer and a slot is.
LEMMA PlaceIs ==
  ASSUME NEW n \in Nat \ {0}, NEW m \in Nat \ {0}, NEW i \in 1..m, NEW j \in 1..n
  PROVE  /\ (i - 1) * n + j \in 1..(m * n)
         /\ ((i - 1) * n + j - 1) % n = j - 1 /\ ((i - 1) * n + j - 1) \div n = i - 1
<1> DEFINE a == i - 1
           r == j - 1
<1>1. a \in Nat /\ a < m /\ r \in 0..(n - 1) /\ j = r + 1
  OBVIOUS
<1> HIDE DEF a, r
<1>2. a * n = n * a /\ m * n = n * m
  BY <1>1, Product
<1>3. n * a + n <= n * m /\ n * a \in Nat /\ n * m \in Nat
  BY <1>1, ProductGrows
<1>4. (n * a + r) \div n = a /\ (n * a + r) % n = r
  BY <1>1, Quotient
<1>5. a * n + j \in 1..(m * n)
  BY <1>1, <1>2, <1>3
<1>6. a * n + j - 1 = n * a + r
  BY <1>1, <1>2, <1>3
<1> QED
  BY <1>4, <1>5, <1>6 DEF a, r

\* Every place is one.
LEMMA PlaceOf ==
  ASSUME NEW n \in Nat \ {0}, NEW m \in Nat, NEW p \in 1..(m * n)
  PROVE  /\ (p - 1) \div n \in 0..(m - 1) /\ (p - 1) % n \in 0..(n - 1)
         /\ p - 1 = n * ((p - 1) \div n) + ((p - 1) % n)
<1> DEFINE a == (p - 1) \div n
           r == (p - 1) % n
<1>0. m * n \in Nat /\ m * n = n * m
  BY Product
<1>1. p - 1 \in Nat /\ p - 1 < n * m
  BY <1>0
<1>2. a \in Nat /\ r \in 0..(n - 1) /\ p - 1 = n * a + r
  BY <1>1, Division
<1> HIDE DEF a, r
<1>3. ~(m < a)
  <2>1. m < a => n * m + n <= n * a
    BY <1>2, ProductGrows
  <2> QED
    BY <1>0, <1>1, <1>2, <2>1
<1>4. a # m
  BY <1>0, <1>1, <1>2
<1>5. a \in 0..(m - 1)
  BY <1>2, <1>3, <1>4
<1> QED
  BY <1>2, <1>5 DEF a, r

LEMMA LayoutIs ==
  ASSUME NEW s \in Stage, NEW cols, NEW n \in Nat \ {0}, Sized(cols, n)
  PROVE  LET buf == LayerMajor(s, cols)
         IN /\ Sized(buf, LayersOf[s] * n) /\ buf # << >>
            /\ Len(buf) \div LayersOf[s] = n
            /\ \A j \in 1..n : Sized(cols[j], LayersOf[s]) => SlotOf(s, buf, n, j) = cols[j]
<1> DEFINE L == LayersOf[s]
           buf == LayerMajor(s, cols)
           at(i) == cols[((i - 1) % n) + 1][((i - 1) \div n) + 1]
<1>1. L \in Nat \ {0} /\ Len(cols) = n
  BY Lengths, SizedIs
<1>2. buf = [i \in 1..(L * n) |-> at(i)]
  BY <1>1 DEF LayerMajor
<1> HIDE DEF L, buf
<1>3. L * n \in Nat /\ L * n > 0
  <2>1. (n * 0) + n <= n * L /\ n * 0 \in Nat
    BY <1>1, ProductGrows
  <2>2. L * n = n * L /\ n * L \in Nat /\ n * 0 = 0
    BY <1>1, Product
  <2> QED
    BY <2>1, <2>2
<1>4. Sized(buf, L * n)
  <2> HIDE DEF at
  <2> QED
    BY <1>2, <1>3 DEF Sized
<1>5. Len(buf) = L * n
  BY <1>4, SizedIs
<1>6. buf # << >>
  BY <1>3, <1>5
<1>7. (L * n) \div L = n
  <2>1. 0 \in 0..(L - 1)
    BY <1>1
  <2>2. (L * n + 0) \div L = n
    BY <1>1, <2>1, Quotient
  <2> QED
    BY <1>3, <2>2
<1>8. ASSUME NEW j \in 1..n, Sized(cols[j], L)
      PROVE  SlotOf(s, buf, n, j) = cols[j]
  <2>1. ASSUME NEW l \in 1..L PROVE buf[(l - 1) * n + j] = cols[j][l]
    <3> DEFINE i == (l - 1) * n + j
    <3>1. i \in 1..(L * n) /\ (i - 1) % n = j - 1 /\ (i - 1) \div n = l - 1
      BY <1>1, PlaceIs
    <3> HIDE DEF i
    <3>2. buf[i] = at(i)
      BY <1>2, <3>1
    <3>3. (j - 1) + 1 = j /\ (l - 1) + 1 = l
      BY <1>1
    <3>4. at(i) = cols[j][l]
      BY <3>1, <3>3
    <3> QED
      BY <3>2, <3>4 DEF i
  <2>2. SlotOf(s, buf, n, j) = [l \in 1..L |-> cols[j][l]]
    BY <2>1 DEF SlotOf, L
  <2> QED
    BY <1>8, <2>2 DEF Sized
<1> QED
  BY <1>4, <1>5, <1>6, <1>7, <1>8 DEF L, buf

\* Columns of one size, one after another.
Flat(seqs, n, m) == [p \in 1..(m * n) |-> seqs[((p - 1) \div n) + 1][((p - 1) % n) + 1]]

LEMMA FlatGrows ==
  ASSUME NEW seqs, NEW n \in Nat \ {0}, NEW m \in Nat, Sized(seqs[m + 1], n)
  PROVE  Flat(seqs, n, m + 1) = Flat(seqs, n, m) \o seqs[m + 1]
<1> DEFINE x == Flat(seqs, n, m)
           y == Flat(seqs, n, m + 1)
           e == seqs[m + 1]
           at(p) == seqs[((p - 1) \div n) + 1][((p - 1) % n) + 1]
<1>1. m * n \in Nat /\ (m + 1) * n = m * n + n /\ (m + 1) * n \in Nat
  <2>1. m * n = n * m /\ (m + 1) * n = n * (m + 1) /\ n * m \in Nat
    OBVIOUS
  <2>2. n * (m + 1) = n * m + n
    OBVIOUS
  <2> QED
    BY <2>1, <2>2
<1>2. x = [p \in 1..(m * n) |-> at(p)] /\ y = [p \in 1..((m + 1) * n) |-> at(p)]
  BY DEF Flat
<1> HIDE DEF x, y
<1>3. Sized(x, m * n) /\ Sized(y, (m + 1) * n)
  <2> HIDE DEF at
  <2> QED
    BY <1>1, <1>2 DEF Sized
<1>4. IsSeq(x) /\ Len(x) = m * n /\ IsSeq(e) /\ Len(e) = n
  BY <1>3, SizedIs
<1>5. /\ DOMAIN (x \o e) = 1..((m + 1) * n) /\ IsSeq(x \o e)
      /\ \A p \in 1..(m * n + n) : (x \o e)[p] = IF p <= m * n THEN x[p] ELSE e[p - m * n]
  <2> DEFINE k == Len(x)
  <2>1. /\ IsSeq(x \o e) /\ DOMAIN (x \o e) = 1..(Len(x) + Len(e))
        /\ \A i \in 1..(Len(x) + Len(e)) : (x \o e)[i] = IF i <= Len(x) THEN x[i] ELSE e[i - Len(x)]
    BY <1>4, ConcatIs
  <2> QED
    BY <1>1, <1>4, <2>1
<1>6. ASSUME NEW p \in 1..((m + 1) * n) PROVE (x \o e)[p] = at(p)
  <2>1. CASE p <= m * n
    <3>1. p \in 1..(m * n) /\ p \in 1..(m * n + n)
      BY <1>1, <2>1
    <3>2. x[p] = at(p)
      BY <1>2, <3>1
    <3> HIDE DEF at
    <3> QED
      BY <1>5, <2>1, <3>1, <3>2
  <2>2. CASE ~(p <= m * n)
    <3> DEFINE r == p - m * n
    <3>1. r \in 1..n /\ p \in 1..(m * n + n) /\ r - 1 \in 0..(n - 1) /\ p - 1 = n * m + (r - 1)
      BY <1>1, <2>2
    <3>2. (n * m + (r - 1)) \div n = m /\ (n * m + (r - 1)) % n = r - 1
      BY <3>1, Quotient
    <3>3. (p - 1) \div n = m /\ (p - 1) % n = r - 1 /\ (r - 1) + 1 = r
      BY <3>1, <3>2
    <3>4. at(p) = e[r]
      BY <3>3
    <3>5. (x \o e)[p] = e[r]
      <4> HIDE DEF e
      <4> QED
        BY <1>5, <2>2, <3>1
    <3> QED
      BY <3>4, <3>5
  <2> QED
    BY <2>1, <2>2
<1>7. x \o e = [p \in 1..((m + 1) * n) |-> (x \o e)[p]]
  BY <1>5, IsSeqIs, SizedIs DEF Sized
<1> HIDE DEF e, at
<1>8. x \o e = y
  BY <1>2, <1>6, <1>7
<1> QED
  BY <1>8 DEF x, y, e

LEMMA FlattenIs ==
  ASSUME NEW seqs, NEW n \in Nat \ {0}, NEW m \in Nat \ {0}, Sized(seqs, m), \A i \in 1..m : Sized(seqs[i], n)
  PROVE  FlattenSeq(seqs) = Flat(seqs, n, m)
<1> DEFINE IsFlat(g) == g = [i \in 1..m |-> IF i = 1 THEN seqs[i] ELSE g[i - 1] \o seqs[i]]
           g0 == [i \in 1..m |-> Flat(seqs, n, i)]
           g1 == CHOOSE g : IsFlat(g)
<1>1. Flat(seqs, n, 1) = seqs[1]
  <2>1. Sized(seqs[1], n) /\ 1 * n = n
    OBVIOUS
  <2>2. ASSUME NEW p \in 1..n PROVE (p - 1) \div n = 0 /\ (p - 1) % n = p - 1
    <3>1. p - 1 \in 0..(n - 1) /\ n * 0 + (p - 1) = p - 1
      OBVIOUS
    <3>2. (n * 0 + (p - 1)) \div n = 0 /\ (n * 0 + (p - 1)) % n = p - 1
      BY <3>1, Quotient
    <3> QED
      BY <3>1, <3>2
  <2>3. ASSUME NEW p \in 1..n PROVE seqs[((p - 1) \div n) + 1][((p - 1) % n) + 1] = seqs[1][p]
    <3>1. (p - 1) \div n = 0 /\ (p - 1) % n = p - 1 /\ 0 + 1 = 1 /\ (p - 1) + 1 = p
      BY <2>2
    <3> QED
      BY <3>1
  <2>4. Flat(seqs, n, 1) = [p \in 1..n |-> seqs[1][p]]
    BY <2>1, <2>3 DEF Flat
  <2> QED
    BY <2>1, <2>4 DEF Sized
<1>2. ASSUME NEW i \in 1..m, i # 1 PROVE Flat(seqs, n, i) = Flat(seqs, n, i - 1) \o seqs[i]
  <2>1. i - 1 \in Nat /\ (i - 1) + 1 = i /\ Sized(seqs[i], n)
    BY <1>2
  <2>2. Sized(seqs[(i - 1) + 1], n)
    BY <2>1
  <2>3. Flat(seqs, n, (i - 1) + 1) = Flat(seqs, n, i - 1) \o seqs[(i - 1) + 1]
    BY <2>1, <2>2, FlatGrows
  <2> QED
    BY <2>1, <2>3
<1>3. IsFlat(g0)
  <2>1. ASSUME NEW i \in 1..m PROVE g0[i] = IF i = 1 THEN seqs[i] ELSE g0[i - 1] \o seqs[i]
    <3>1. CASE i = 1
      BY <1>1, <3>1
    <3>2. CASE i # 1
      <4>1. i - 1 \in 1..m
        BY <3>2
      <4>2. g0[i] = Flat(seqs, n, i) /\ g0[i - 1] = Flat(seqs, n, i - 1)
        BY <4>1
      <4> QED
        BY <1>2, <3>2, <4>2
    <3> QED
      BY <3>1, <3>2
  <2>2. g0 = [i \in 1..m |-> g0[i]]
    OBVIOUS
  <2> HIDE DEF g0
  <2> QED
    BY <2>1, <2>2
<1>4. IsFlat(g1)
  BY <1>3
<1>5. ASSUME NEW i \in 1..m PROVE /\ i = 1 => g1[i] = seqs[i]
                                  /\ i # 1 => g1[i] = g1[i - 1] \o seqs[i]
  <2> HIDE DEF g1
  <2> QED
    BY <1>4
<1>6. FlattenSeq(seqs) = g1[m]
  <2>1. Len(seqs) = m
    BY SizedIs
  <2> QED
    BY <2>1 DEF FlattenSeq
<1> DEFINE G == {i \in 1..m : g1[i] = Flat(seqs, n, i)}
<1> HIDE DEF g1, g0
<1>7. \A i \in 1..m : i \in G
  <2>1. 1 \in G
    <3>1. 1 \in 1..m
      OBVIOUS
    <3>2. g1[1] = seqs[1]
      BY <1>5, <3>1
    <3> QED
      BY <1>1, <3>1, <3>2
  <2>2. ASSUME NEW i \in 1..(m - 1), i \in G PROVE i + 1 \in G
    <3>1. i + 1 \in 1..m /\ i + 1 # 1 /\ (i + 1) - 1 = i
      OBVIOUS
    <3>2. g1[i + 1] = g1[(i + 1) - 1] \o seqs[i + 1]
      BY <1>5, <3>1
    <3>3. Flat(seqs, n, i + 1) = Flat(seqs, n, (i + 1) - 1) \o seqs[i + 1]
      BY <1>2, <3>1
    <3>4. g1[i] = Flat(seqs, n, i)
      BY <2>2
    <3> QED
      BY <3>1, <3>2, <3>3, <3>4
  <2> HIDE DEF G
  <2>3. 1 \in Int /\ m \in Int /\ (1 <= m => 1 \in G) /\ \A k \in 1..(m - 1) : k \in G => k + 1 \in G
    BY <2>1, <2>2
  <2> QED
    BY <2>3, UpTo
<1>8. m \in 1..m
  OBVIOUS
<1> QED
  BY <1>6, <1>7, <1>8

\* The j-th of the columns.
LEMMA FlatPart ==
  ASSUME NEW seqs, NEW n \in Nat \ {0}, NEW m \in Nat \ {0}, NEW i \in 1..m, Sized(seqs[i], n)
  PROVE  /\ Sized(Flat(seqs, n, m), m * n)
         /\ SubSeq(Flat(seqs, n, m), (i - 1) * n + 1, i * n) = seqs[i]
<1> DEFINE x == Flat(seqs, n, m)
           a == (i - 1) * n
           T == {x[p] : p \in 1..(m * n)}
<1>1. m * n \in Nat /\ a \in Nat /\ i * n = a + n /\ a + n <= m * n
  <2>1. PICK b \in Nat : b = i - 1
    OBVIOUS
  <2>2. b < m /\ i = b + 1
    BY <2>1
  <2>3. n * b + n <= n * m /\ n * b \in Nat /\ n * m \in Nat
    BY <2>1, <2>2, ProductGrows
  <2>4. a = n * b /\ m * n = n * m /\ i * n = n * i
    BY <2>1, Product
  <2>5. n * i = n * b + n
    BY <2>1, <2>2
  <2> QED
    BY <2>3, <2>4, <2>5
<1>2. x = [p \in 1..(m * n) |-> seqs[((p - 1) \div n) + 1][((p - 1) % n) + 1]]
  BY DEF Flat
<1> HIDE DEF x
<1>3. x = [p \in 1..(m * n) |-> x[p]]
  BY <1>2
<1>4. Sized(x, m * n)
  BY <1>1, <1>3 DEF Sized
<1>5. x \in Seq(T) /\ Len(x) = m * n
  BY <1>4, SizedIs
<1>6. ASSUME NEW l \in 1..n PROVE a + l \in 1..(m * n) /\ x[a + l] = seqs[i][l]
  <2>1. /\ (i - 1) * n + l \in 1..(m * n)
        /\ ((i - 1) * n + l - 1) % n = l - 1 /\ ((i - 1) * n + l - 1) \div n = i - 1
    BY PlaceIs
  <2> DEFINE p == a + l
  <2>2. p \in 1..(m * n) /\ (p - 1) % n = l - 1 /\ (p - 1) \div n = i - 1
    BY <2>1
  <2> HIDE DEF p, a
  <2>3. x[p] = seqs[((p - 1) \div n) + 1][((p - 1) % n) + 1]
    BY <1>2, <2>2
  <2>4. (i - 1) + 1 = i /\ (l - 1) + 1 = l
    OBVIOUS
  <2>5. x[p] = seqs[i][l]
    BY <2>2, <2>3, <2>4
  <2> QED
    BY <2>2, <2>5 DEF p
<1> HIDE DEF a
<1> DEFINE y == SubSeq(x, a + 1, a + n)
<1>7. y = [l \in 1..n |-> x[a + l]]
  <2>1. SubSeq(x, a + 1, a + n) = [l \in 1..(1 + (a + n) - (a + 1)) |-> x[l + (a + 1) - 1]]
    BY <1>1
  <2>2. 1 + (a + n) - (a + 1) = n
    BY <1>1
  <2>3. \A l \in 1..n : l + (a + 1) - 1 = a + l
    BY <1>1
  <2> QED
    BY <2>1, <2>2, <2>3
<1> HIDE DEF y
<1>8. y = [l \in 1..n |-> seqs[i][l]]
  BY <1>6, <1>7
<1> QED
  BY <1>1, <1>4, <1>8 DEF Sized, y, a, x

LEMMA CountUpTo ==
  ASSUME NEW x \in Nat
  PROVE  IsFiniteSet(0..(x - 1)) /\ Cardinality(0..(x - 1)) = x
<1>1. CASE x = 0
  <2>1. 0..(x - 1) = {}
    BY <1>1
  <2> QED
    BY <1>1, <2>1, FS_EmptySet
<1>2. CASE x # 0
  BY <1>2, FS_Interval
<1> QED
  BY <1>1, <1>2

\* get_stage_kv, when it is as long as the slots from the first to the n-th.
LEMMA ReplicaBufferIs ==
  ASSUME NEW c, NEW f \in NonHead, NEW n \in Nat,
         NEW slots, slots = StoredSlots(c, Subject, f), slots # {}, slots \subseteq Slot, 0..(n - 1) \subseteq slots,
         \A j \in slots : c.items[Subject][<<f, j>>] = Col(Subject, f, j),
         NEW buf, buf = get_stage_kv(c, Subject, f), Len(buf) = n * LayersOf[f]
  PROVE  \A j \in 1..n : SubSeq(buf, (j - 1) * LayersOf[f] + 1, j * LayersOf[f]) = Col(Subject, f, j - 1)
<1> DEFINE L == LayersOf[f]
           m == Cardinality(slots)
           slot(i) == CHOOSE j \in slots : Cardinality({k \in slots : k < j}) = i - 1
           seqs == [i \in 1..m |-> c.items[Subject][<<f, slot(i)>>]]
<1>1. L \in Nat \ {0} /\ f \in Stage /\ Subject \in Request
  BY Lengths, KVAssumption
<1>2. slots \subseteq Nat /\ IsFiniteSet(slots) /\ m \in Nat \ {0}
  <2>1. IsFiniteSet(Slot) /\ Slot \subseteq Nat
    BY Numbers, FS_Interval
  <2>2. IsFiniteSet(slots)
    BY <2>1, FS_Subset
  <2> QED
    BY <2>1, <2>2, FS_CardinalityType, FS_EmptySet
<1>3. ASSUME NEW i \in 1..m
      PROVE  slot(i) \in slots /\ Cardinality({k \in slots : k < slot(i)}) = i - 1
  <2> DEFINE Less == {p \in slots \X slots : p[1] < p[2]}
  <2>1. StrictOrder(slots, Less)
    BY <1>2 DEF StrictOrder
  <2>2. \E s \in slots : Cardinality(Predecessors(slots, Less, s)) = i - 1
    <3> HIDE DEF Less
    <3> QED
      BY <1>2, <2>1, RankExists
  <2>3. ASSUME NEW s \in slots PROVE Predecessors(slots, Less, s) = {k \in slots : k < s}
    BY DEF Predecessors
  <2>4. \E s \in slots : Cardinality({k \in slots : k < s}) = i - 1
    BY <2>2, <2>3
  <2> QED
    BY <2>4
<1>4. buf = FlattenSeq(seqs)
  BY DEF get_stage_kv
<1> HIDE DEF slot
<1>5. Sized(seqs, m)
  BY <1>2 DEF Sized
<1>6. ASSUME NEW i \in 1..m PROVE seqs[i] = Col(Subject, f, slot(i)) /\ Sized(seqs[i], L)
  <2>1. slot(i) \in slots /\ slot(i) \in Slot
    BY <1>3
  <2>2. seqs[i] = c.items[Subject][<<f, slot(i)>>]
    OBVIOUS
  <2> HIDE DEF seqs
  <2> QED
    BY <1>1, <2>1, <2>2, ColSize
<1> HIDE DEF seqs
<1>7. buf = Flat(seqs, L, m)
  <2> HIDE DEF L, m
  <2> QED
    BY <1>1, <1>2, <1>4, <1>5, <1>6, FlattenIs
<1>8. m = n
  <2>1. Len(buf) = m * L
    <3>1. 1 \in 1..m
      BY <1>2
    <3> HIDE DEF L, m
    <3>2. Sized(Flat(seqs, L, m), m * L)
      BY <1>1, <1>2, <1>6, <3>1, FlatPart
    <3> QED
      BY <1>7, <3>2, SizedIs
  <2>2. m * L = n * L
    BY <2>1
  <2> HIDE DEF m, L
  <2>3. m < n => L * m + L <= L * n /\ L * m \in Nat
    BY <1>1, <1>2, ProductGrows
  <2>4. n < m => L * n + L <= L * m /\ L * n \in Nat
    BY <1>1, <1>2, ProductGrows
  <2>5. m * L = L * m /\ n * L = L * n
    BY <1>1, <1>2, Product
  <2> QED
    BY <1>1, <1>2, <2>2, <2>3, <2>4, <2>5
<1>9. slots = 0..(n - 1)
  <2>1. IsFiniteSet(0..(n - 1)) /\ Cardinality(0..(n - 1)) = n
    BY CountUpTo
  <2> QED
    BY <1>2, <1>8, <2>1, FS_Subset
<1>10. ASSUME NEW i \in 1..n PROVE slot(i) = i - 1
  <2>1. slot(i) \in 0..(n - 1) /\ Cardinality({k \in slots : k < slot(i)}) = i - 1
    BY <1>3, <1>8, <1>9
  <2>2. {k \in slots : k < slot(i)} = 0..(slot(i) - 1)
    BY <1>9, <2>1
  <2>3. Cardinality(0..(slot(i) - 1)) = slot(i)
    <3> DEFINE x == slot(i)
    <3>1. x \in Nat
      BY <2>1
    <3> HIDE DEF x
    <3>2. Cardinality(0..(x - 1)) = x
      BY <3>1, CountUpTo
    <3> QED
      BY <3>2 DEF x
  <2> QED
    BY <2>1, <2>2, <2>3
<1>11. ASSUME NEW j \in 1..n PROVE SubSeq(buf, (j - 1) * L + 1, j * L) = Col(Subject, f, j - 1)
  <2>1. j \in 1..m /\ seqs[j] = Col(Subject, f, j - 1) /\ Sized(seqs[j], L)
    BY <1>6, <1>8, <1>10
  <2> HIDE DEF L, m
  <2>2. SubSeq(Flat(seqs, L, m), (j - 1) * L + 1, j * L) = seqs[j]
    BY <1>1, <1>2, <2>1, FlatPart
  <2> QED
    BY <1>7, <2>1, <2>2
<1> QED
  BY <1>11

\* A history that is longer than a position has it.
LEMMA HistoryHas ==
  ASSUME NEW f, NEW p \in Position, ~(HistoryLen(f) <= p)
  PROVE  history[f][p] # "none"
<1> DEFINE has(q) == history[f][q] # "none"
           S == {q \in Position : \A r \in 0..q : has(r)}
<1> HIDE DEF has
<1>1. SUFFICES ASSUME ~has(p) PROVE FALSE
  BY DEF has
<1>2. p \in Nat /\ Position \subseteq Nat
  BY Numbers
<1>3. S \subseteq 0..(p - 1)
  <2>1. ASSUME NEW q \in S PROVE q \in 0..(p - 1)
    <3>1. q \in Nat /\ \A r \in 0..q : has(r)
      BY <1>2
    <3>2. p \notin 0..q
      BY <1>1, <3>1
    <3> QED
      BY <1>2, <3>1, <3>2
  <2> HIDE DEF S
  <2> QED
    BY <2>1
<1>4. IsFiniteSet(0..(p - 1)) /\ Cardinality(0..(p - 1)) = p
  BY <1>2, CountUpTo
<1> HIDE DEF S
<1>5. Cardinality(S) <= Cardinality(0..(p - 1)) /\ Cardinality(S) \in Nat /\ Cardinality(0..(p - 1)) \in Nat
  BY <1>3, <1>4, FS_Subset, FS_CardinalityType
<1>6. HistoryLen(f) = Cardinality(S)
  BY DEF HistoryLen, S, has
<1> QED
  BY <1>2, <1>4, <1>5, <1>6

-----------------------------------------------------------------------------
(* The invariant with at most one failure.                                  *)

\* A mode that is made for one failure, and no more than one.
OneFault == mode # "raid6" /\ Bounds[mode].failures <= 1

PlanOf(D) ==
  IF Viable(Placement, Recovery, D) THEN build_execution_plan(Placement, Recovery, D) ELSE Placement

\* Who has failed, and who is known to have.
Marks ==
  /\ \/ crashed = {} /\ injected \in {0, 1}
     \/ injected = 0 /\ \E d \in Crashable : crashed = {d}
  /\ \/ dead = {} \/ dead = crashed
     \/ injected = 1 /\ \E s \in NonHead : dead = {Placement[s]}
  /\ plan = PlanOf(dead)
  /\ late \in BOOLEAN /\ (late => crashed # {})

\* What there is to push, and what has been.  Nobody runs or pushes on a worker
\* that is gone.
IsMirror(x) == x = Mirror(x.stage, x.at, x.good) /\ x.at \in Position /\ x.good \in BOOLEAN
IsKVPush(x) == x = KVPush(x.stage, x.at, x.col) /\ x.at \in Nat /\ Sized(x.col, LayersOf[x.stage])
IsPush(x) == x.stage \in NonHead /\ (IsMirror(x) \/ IsKVPush(x))
KVSorts == \A s \in Stage : \A i \in DOMAIN kv[s] : Sized(kv[s][i], LayersOf[s])
PushSorts == \A d \in Device : \A i \in DOMAIN pushes[d] : IsPush(pushes[d][i])
GoneIdle ==
  /\ \A d \in crashed : pushes[d] = << >>
  /\ \A i \in Handlers : UnderWay(chain[i]) => chain[i].dev \notin crashed
HistorySorts == history \in [Stage -> [Position -> {"none", "good", "bad"}]]
Sorts == KVSorts /\ PushSorts /\ GoneIdle /\ HistorySorts

\* What lasts to the end.
After(p) == Prompt + p
Outer ==
  /\ \A s \in Stage : Len(kv[s]) <= Prompt + MaxTokens + 1
  /\ \A i \in Handlers : chain[i].blame \in {0} \cup NonHead
  /\ promoted \subseteq NonHead /\ next_hop \in [Stage -> Device]
  /\ job.n \in Slot
  /\ job.wrong => late /\ job.pc \in {"step", "done"}

\* Until the first call after a late crash, nothing that is computed is wrong.
Right == late => (promoted = {} \/ job.pc \in Attempt)
RightIn(c) ==
  \A r \in Request : \A key \in DOMAIN c.items[r] :
    IF mode = "replicate"
    THEN key[2] \in Slot /\ c.items[r][key] = Col(r, key[1], key[2])
    ELSE key \in Slot /\ c.items[r][key].parity = Sums[r][key][c.items[r][key].contributors]
RightPush(x) == IF x.kind = "kv" THEN x.at \in Slot /\ x.col = Col(Subject, x.stage, x.at) ELSE x.good
RightPushes == \A d \in Device : \A i \in DOMAIN pushes[d] : RightPush(pushes[d][i])
RightHistory == \A s \in Stage, p \in Position : history[s][p] # "bad"
Contents == Right => RightIn(cache) /\ RightPushes /\ RightHistory

\* Before the recovery has promoted anybody, a column is pushed once: the cache
\* has it, or an executor has it, or it is lost.
KeptIn(c, s, j) ==
  IF mode = "replicate" THEN Holds(c, Subject, <<s, j>>)
  ELSE Holds(c, Subject, j) /\ s \in c.items[Subject][j].contributors
KVOf(x, s, j) == x.kind = "kv" /\ x.stage = s /\ x.at = j
QueuedOn(d, s, j) == \E i \in DOMAIN pushes[d] : KVOf(pushes[d][i], s, j)
Queued(s, j) == \E d \in Device : QueuedOn(d, s, j)
Placed == \A d \in Device : \A i \in DOMAIN pushes[d] : d = Placement[pushes[d][i].stage]
QueuedOnce ==
  \A d \in Device : \A i \in DOMAIN pushes[d] : pushes[d][i].kind = "kv" =>
    /\ pushes[d][i].at < Len(kv[pushes[d][i].stage])
    /\ \A k \in DOMAIN pushes[d] : KVOf(pushes[d][k], pushes[d][i].stage, pushes[d][i].at) => k = i
KeptOnce ==
  \A s \in NonHead, j \in Nat : KeptIn(cache, s, j) => j < Len(kv[s]) /\ ~Queued(s, j)
PushedOnce == promoted = {} => Placed /\ QueuedOnce /\ KeptOnce

\* The chain.  The last stage that a handler's call has run.
Passed(h) == IF h.st = "arrived" THEN h.stage - 1 ELSE IF h.st = "ran" THEN h.stage ELSE N

\* The stages up to e have run the position, the others have not.
KVAt(e, S) ==
  \A s \in S : kv[s] = Prefix(s, IF s <= e THEN After(job.pos) ELSE Before(job.pos))

OnItsWay(h) == h.at = job.pos /\ h.good /\ h.dev = next_hop[h.stage] /\ h.from <= h.stage
NoOrphan == chain["orphan"].st = "idle"

\* A step of an undisturbed chain.
Going ==
  /\ NoOrphan /\ job.pc \in {"step", "wait"} /\ ~job.wrong /\ job.held = << >>
  /\ job.pc = "step" => chain["call"].st = "idle" /\ KVAt(0, Stage)
  /\ job.pc = "wait" => /\ chain["call"].st \in {"arrived", "ran", "ok"}
                        /\ OnItsWay(chain["call"]) /\ KVAt(Passed(chain["call"]), Stage)

\* No call has failed.
Fresh ==
  /\ injected = 0 /\ dead \subseteq crashed /\ ~late
  /\ next_hop = Placement /\ promoted = {} /\ Going
  /\ job.pc = "wait" =>
       /\ chain["call"].from = 1
       /\ \A f \in NonHead :
            Placement[f] \in crashed => (chain["call"].st = "ok" \/ chain["call"].stage < f)

Down(f) == crashed = {Placement[f]} \/ injected = 1

\* How far the failed call has come: when the worker has crashed late, an
\* abandoned handler may take it further.
Stopped(f, e, S) ==
  /\ e \in 0..N /\ e >= f - 1 /\ KVAt(e, S)
  /\ ~late => NoOrphan /\ e <= f /\ (e = f => f < N /\ crashed # {})
  /\ late => e >= f
  /\ \/ NoOrphan
     \/ /\ UnderWay(chain["orphan"]) /\ OnItsWay(chain["orphan"]) /\ chain["orphan"].stage > f
        /\ e = Passed(chain["orphan"])

Noticed(f) ==
  /\ Down(f) /\ dead \subseteq crashed
  /\ next_hop = Placement /\ promoted = {} /\ job.pc = "wait" /\ ~job.wrong /\ job.held = << >>
  /\ chain["call"].st = "error" /\ chain["call"].blame = f
  /\ \E e \in 0..N : Stopped(f, e, Stage)

\* The recovery.
Promoted == job.pc \in {"rebuild", "load"} \/ (job.pc = "promote" /\ job.k # 1)

RecoveryAt(f) ==
  /\ job.pc \in Attempt /\ ~job.wrong /\ job.victims = <<f>> /\ chain["call"].st = "idle"
  /\ Down(f) /\ dead = {Placement[f]}
  /\ (injected = 1 \/ Promoted) => Viable(Placement, Recovery, dead)
  /\ promoted = IF Promoted THEN {f} ELSE {}
  /\ Promoted \/ job.held = << >>
  /\ next_hop = IF job.pc \in {"rebuild", "load"} THEN plan ELSE Placement
  /\ \E e \in 0..N : Stopped(f, e, IF Promoted THEN Stage \ {f} ELSE Stage)

Sizes == {Before(job.pos), After(job.pos)} \ {0}

\* What a survivor has answered.
FetchedFrom(f, s) ==
  \E m \in Sizes : /\ job.got[s] = LayerMajor(s, Prefix(s, m))
                   /\ (~late /\ s > f) => m = Before(job.pos)
                   /\ job.pc # "fetch" => job.n <= m

\* Slots the gate has let pass: everything that will ever be pushed of them has
\* been delivered, and they are whole as long as they are there.
Whole(f, j) ==
  /\ \A s \in NonHead : ~Queued(s, j) /\ ((s # f \/ promoted = {}) => j < Len(kv[s]))
  /\ Holds(cache, Subject, j) => cache.items[Subject][j].contributors = NonHead

ParityStep(f) ==
  /\ job.pc # "read"
  /\ job.pc # "load" => /\ DOMAIN job.got = NonHead \ {f}
                        /\ \A s \in NonHead \ {f} :
                             (job.pc = "fetch" /\ job.got[s] = << >>) \/ FetchedFrom(f, s)
  /\ job.pc = "gate" => /\ job.n \in Sizes /\ job.k < job.n
                        /\ (~late /\ f < N) => job.n = Before(job.pos)
  /\ job.pc # "fetch" => \A j \in 0..((IF job.pc = "gate" THEN job.k ELSE job.n) - 1) : Whole(f, j)
  /\ job.pc = "rebuild" => job.k \in 1..(job.n + 1) /\ job.recon = <<Prefix(f, job.k - 1)>>

Buffered(f) ==
  \A j \in 1..job.n :
    SubSeq(job.got, (j - 1) * LayersOf[f] + 1, j * LayersOf[f]) = Col(Subject, f, j - 1)

ReplicaStep(f) ==
  /\ job.pc # "fetch"
  /\ job.pc = "gate" => job.n = Before(job.pos)
  /\ job.pc = "read" => /\ job.n = Before(job.pos) /\ job.n >= 1 /\ job.n <= Len(kv[f])
                        /\ \A j \in Nat : ~Queued(f, j)
                        /\ \/ StoredSlots(cache, Subject, f) = {}
                           \/ 0..(job.n - 1) \subseteq StoredSlots(cache, Subject, f)
  /\ job.pc = "history" => (Len(job.got) = job.n * LayersOf[f] => Buffered(f))
  /\ (job.pc = "promote" \/ (job.pc = "rebuild" /\ job.k <= job.n)) => Buffered(f)
  /\ job.pc = "rebuild" => \/ job.k = 1 /\ job.n >= 1
                           \/ job.k = job.n + 1 /\ job.recon = <<Prefix(f, job.n)>>

\* What is to be rebuilt is what the dead worker held, but for the position that
\* has failed.
Agreed(f) ==
  /\ job.n \in Sizes
  /\ ~late => job.n = Before(job.pos)
  /\ IF Promoted THEN /\ \E m \in Nat : job.held = <<Prefix(f, m)>> /\ job.n <= m
                 ELSE job.n <= Len(kv[f])

Recovering(f) ==
  /\ RecoveryAt(f)
  /\ IF mode = "replicate" THEN ReplicaStep(f) ELSE ParityStep(f)
  /\ job.pc \in {"history", "promote", "rebuild", "load"} => Agreed(f)
  /\ job.pc \in {"promote", "rebuild", "load"} => history[f][job.pos] = "good"
  /\ job.pc = "promote" => job.k \in {1, 2}
  /\ job.pc = "load" => /\ job.k \in {1, 2} /\ job.recon = <<Prefix(f, job.n)>>
                        /\ job.k = 2 => kv[f] = Prefix(f, job.n)

\* Stages that a handler has still to run.  The call and an abandoned handler may
\* both run a position.
Todo(i, s) ==
  LET h == chain[i]
  IN IF \/ h.st = "arrived" /\ h.stage <= s
        \/ h.st = "ran" /\ h.stage < s
        \/ h.st = "idle" /\ i = "call" /\ job.pc = "step"
     THEN 1 ELSE 0
AtMostTwice ==
  \A s \in Stage : Len(kv[s]) + Todo("call", s) + Todo("orphan", s) <= After(job.pos) + 1

\* The chain after the recovery.
Recovered(f) ==
  /\ Down(f) /\ dead = {Placement[f]} /\ Viable(Placement, Recovery, dead)
  /\ next_hop = plan /\ promoted = {f} /\ job.pc \in {"step", "wait"}
  /\ ~late => Going
  /\ late => /\ job.pc = "step" => chain["call"].st = "idle"
             /\ job.pc = "wait" => /\ chain["call"].st \in {"arrived", "ran", "ok"}
                                   /\ chain["call"].at = job.pos
             /\ NoOrphan \/ (UnderWay(chain["orphan"]) /\ chain["orphan"].at <= job.pos)
             /\ AtMostTwice

Phases ==
  /\ PushedOnce
  /\ Fresh \/ \E f \in NonHead : Noticed(f) \/ Recovering(f) \/ Recovered(f)

IInv ==
  /\ Shapes /\ CacheFits(cache)
  /\ OneFault => /\ Marks /\ Sorts /\ Outer /\ Contents
                 /\ Ended \/ Phases

-----------------------------------------------------------------------------
(* What a push does to the items of the requests.                           *)

\* The others keep theirs or lose all; of the one that is pushed for, only the
\* item under the key changes.
ItemsBut(c, new, r, key) ==
  /\ \A x \in Request : x # r => (new.items[x] = NoItems \/ new.items[x] = c.items[x])
  /\ DOMAIN new.items[r] = DOMAIN c.items[r] \cup {key}
  /\ \A k \in DOMAIN c.items[r] : k # key => new.items[r][k] = c.items[r][k]

Stored(c, new, r, key, col) ==
  IF Holds(c, r, key) THEN new.items[r][key] = c.items[r][key] ELSE new.items[r][key] = col

Added(c, new, r, s, j, col) ==
  IF s \in Entry(c, r, j).contributors THEN new.items[r][j] = c.items[r][j]
  ELSE new.items[r][j] = Folded(Entry(c, r, j), s, _parity_coeff(s), col, K)

LEMMA TouchItems ==
  ASSUME NEW c, NEW order, Counted(c)
  PROVE  [c EXCEPT !.order = order].items = c.items
<1>1. c = [items |-> c.items, order |-> c.order, used |-> c.used]
  BY DEF Counted
<1> DEFINE i0 == c.items
           o0 == c.order
           u0 == c.used
<1>2. c = [items |-> i0, order |-> o0, used |-> u0]
  BY <1>1
<1> HIDE DEF i0, o0, u0
<1>3. [c EXCEPT !.order = order].items = i0
  BY <1>2
<1> QED
  BY <1>3 DEF i0

LEMMA RecordStores ==
  ASSUME mode = "replicate", CacheFits(cache), NEW r \in Request, NEW s \in NonHead, NEW j, NEW col,
         Sized(col, LayersOf[s]), NEW new, new = record_kv(r, s, j, col)
  PROVE  ItemsBut(cache, new, r, <<s, j>>) /\ Stored(cache, new, r, <<s, j>>, col)
<1>0. Counted(cache) /\ \A x \in Request : ItemsFit(cache.items[x])
  BY DEF CacheFits, Counted
<1>1. new = store(cache, r, s, j, col)
  BY DEF record_kv
<1>2. CASE Holds(cache, r, <<s, j>>)
  <2> DEFINE order == touch(cache.order, r)
  <2>1. new = [cache EXCEPT !.order = order]
    BY <1>0, <1>1, <1>2, StoreIs
  <2> HIDE DEF order
  <2>2. new.items = cache.items
    BY <1>0, <2>1, TouchItems
  <2> QED
    BY <1>2, <2>2 DEF ItemsBut, Stored, Holds
<1>3. CASE ~Holds(cache, r, <<s, j>>)
  <2> DEFINE key == <<s, j>>
             items == cache.items[r]
             rec == Recorded(cache, r, key, col)
  <2>1. ItemFits(key, col)
    BY DEF ItemFits
  <2>3. new = evict_if_needed(rec, HeldBytes(rec))
    BY <1>0, <1>1, <1>3, StoreIs
  <2>6. ~Holds(cache, r, key)
    BY <1>3
  <2> HIDE DEF key
  <2>2. /\ Counted(rec) /\ Len(rec.order) > 0 /\ rec.order[Len(rec.order)] = r
        /\ rec.items[r] = Put(cache.items[r], key, col)
        /\ \A x \in Request : x # r => rec.items[x] = cache.items[x]
    BY <1>0, <2>1, RecordedIsCounted
  <2> HIDE DEF rec
  <2>4. /\ \A x \in Request : new.items[x] = NoItems \/ new.items[x] = rec.items[x]
        /\ new.items[r] = rec.items[r]
    BY <2>2, <2>3, EvictionFits
  <2>5. /\ DOMAIN new.items[r] = DOMAIN cache.items[r] \cup {key}
        /\ new.items[r][key] = col
        /\ \A k \in DOMAIN cache.items[r] : k # key => new.items[r][k] = cache.items[r][k]
    <3>2. new.items[r] = Put(items, key, col)
      BY <2>2, <2>4
    <3> HIDE DEF items
    <3>3. /\ DOMAIN Put(items, key, col) = DOMAIN items \cup {key}
          /\ Put(items, key, col)[key] = col
          /\ \A k \in DOMAIN items : k # key => Put(items, key, col)[k] = items[k]
      BY DEF Put
    <3> QED
      BY <3>2, <3>3 DEF items
  <2>7. \A x \in Request : x # r => (new.items[x] = NoItems \/ new.items[x] = cache.items[x])
    BY <2>2, <2>4
  <2>8. ItemsBut(cache, new, r, key) /\ Stored(cache, new, r, key, col)
    BY <2>5, <2>6, <2>7 DEF ItemsBut, Stored
  <2> QED
    BY <2>8 DEF key
<1> QED
  BY <1>2, <1>3

LEMMA RecordFolds ==
  ASSUME mode # "replicate", CacheFits(cache), NEW r \in Request, NEW s \in NonHead, NEW j, NEW col,
         Sized(col, LayersOf[s]), NEW new, new = record_kv(r, s, j, col)
  PROVE  ItemsBut(cache, new, r, j) /\ Added(cache, new, r, s, j, col)
<1> DEFINE old == Entry(cache, r, j)
           i == _parity_coeff(s)
           e == Folded(old, s, i, col, K)
           rec == Recorded(cache, r, j, e)
<1>0. Counted(cache) /\ \A x \in Request : ItemsFit(cache.items[x])
  BY DEF CacheFits, Counted
<1>1. new = xor_in(cache, r, s, j, col, i, K)
  BY DEF record_kv
<1> HIDE DEF i
<1>2. /\ EntryFits(e)
      /\ xor_in(cache, r, s, j, col, i, K) =
           IF s \in old.contributors THEN [cache EXCEPT !.order = touch(cache.order, r)]
           ELSE evict_if_needed(rec, HeldBytes(rec))
  BY <1>0, XorInIs
<1>3. CASE s \in old.contributors
  <2> DEFINE order == touch(cache.order, r)
  <2>1. new = [cache EXCEPT !.order = order]
    BY <1>1, <1>2, <1>3
  <2> HIDE DEF order
  <2>2. new.items = cache.items
    BY <1>0, <2>1, TouchItems
  <2>3. j \in DOMAIN cache.items[r]
    BY <1>3 DEF Entry, NoEntry, Holds
  <2> QED
    BY <1>3, <2>2, <2>3 DEF ItemsBut, Added
<1>4. CASE s \notin old.contributors
  <2>1. ItemFits(j, e)
    BY <1>2 DEF ItemFits
  <2>2. new = evict_if_needed(rec, HeldBytes(rec))
    BY <1>1, <1>2, <1>4
  <2>3. Added(cache, new, r, s, j, col) <=> new.items[r][j] = e
    BY <1>4 DEF Added, i
  <2> HIDE DEF e, old
  <2>4. /\ Counted(rec) /\ Len(rec.order) > 0 /\ rec.order[Len(rec.order)] = r
        /\ rec.items[r] = Put(cache.items[r], j, e)
        /\ \A x \in Request : x # r => rec.items[x] = cache.items[x]
    BY <1>0, <2>1, RecordedIsCounted
  <2> HIDE DEF rec
  <2>5. /\ \A x \in Request : new.items[x] = NoItems \/ new.items[x] = rec.items[x]
        /\ new.items[r] = rec.items[r]
    BY <2>2, <2>4, EvictionFits
  <2> DEFINE items == cache.items[r]
  <2>6. /\ DOMAIN new.items[r] = DOMAIN items \cup {j}
        /\ new.items[r][j] = e
        /\ \A k \in DOMAIN items : k # j => new.items[r][k] = items[k]
    <3>2. new.items[r] = Put(items, j, e)
      BY <2>4, <2>5
    <3> HIDE DEF items
    <3>3. /\ DOMAIN Put(items, j, e) = DOMAIN items \cup {j}
          /\ Put(items, j, e)[j] = e
          /\ \A k \in DOMAIN items : k # j => Put(items, j, e)[k] = items[k]
      BY DEF Put
    <3> QED
      BY <3>2, <3>3
  <2>7. \A x \in Request : x # r => (new.items[x] = NoItems \/ new.items[x] = cache.items[x])
    BY <2>4, <2>5
  <2> QED
    BY <2>3, <2>6, <2>7 DEF ItemsBut
<1> QED
  BY <1>3, <1>4

\* A column that is right leaves a cache that is.
LEMMA RecordRight ==
  ASSUME CacheFits(cache), RightIn(cache), NEW r \in Request, NEW s \in NonHead, NEW j \in Slot
  PROVE  RightIn(record_kv(r, s, j, Col(r, s, j)))
<1> DEFINE col == Col(r, s, j)
           new == record_kv(r, s, j, col)
<1> SUFFICES RightIn(new)
  OBVIOUS
<1>1. s \in Stage /\ Sized(col, LayersOf[s])
  BY Lengths, ColSize
<1>4. DOMAIN NoItems = {}
  BY NoItemsFit
<1> HIDE DEF col
<1>2. CASE mode = "replicate"
  <2> DEFINE key == <<s, j>>
  <2>0. new = record_kv(r, s, j, col)
    OBVIOUS
  <2> HIDE DEF new
  <2>1. ItemsBut(cache, new, r, key) /\ Stored(cache, new, r, key, col)
    BY <1>1, <1>2, <2>0, RecordStores
  <2>2. ASSUME NEW x \in Request, NEW k \in DOMAIN new.items[x]
        PROVE  k[2] \in Slot /\ new.items[x][k] = Col(x, k[1], k[2])
    <3>1. \A y \in Request : \A i \in DOMAIN cache.items[y] : i[2] \in Slot /\ cache.items[y][i] = Col(y, i[1], i[2])
      BY <1>2 DEF RightIn
    <3>2. CASE x # r
      BY <1>4, <2>1, <2>2, <3>1, <3>2 DEF ItemsBut
    <3>3. CASE x = r /\ k # key
      BY <2>1, <2>2, <3>1, <3>3 DEF ItemsBut
    <3>4. CASE x = r /\ k = key
      <4>1. key[1] = s /\ key[2] = j
        OBVIOUS
      <4>2. CASE Holds(cache, r, key)
        BY <2>1, <3>1, <3>4, <4>2 DEF Stored, Holds
      <4>3. CASE ~Holds(cache, r, key)
        BY <2>1, <3>4, <4>1, <4>3 DEF Stored, col
      <4> QED
        BY <4>2, <4>3
    <3> QED
      BY <3>2, <3>3, <3>4
  <2> QED
    BY <1>2, <2>2 DEF RightIn
<1>3. CASE mode # "replicate"
  <2>0. new = record_kv(r, s, j, col)
    OBVIOUS
  <2> HIDE DEF new
  <2>1. ItemsBut(cache, new, r, j) /\ Added(cache, new, r, s, j, col)
    BY <1>1, <1>3, <2>0, RecordFolds
  <2> DEFINE Good(x, k, e) == k \in Slot /\ e.parity = Sums[x][k][e.contributors]
  <2>2. ASSUME NEW x \in Request, NEW k \in DOMAIN new.items[x]
        PROVE  Good(x, k, new.items[x][k])
    <3>1. \A y \in Request : \A i \in DOMAIN cache.items[y] : Good(y, i, cache.items[y][i])
      BY <1>3 DEF RightIn
    <3>2. CASE x # r
      <4>1. new.items[x] = cache.items[x]
        BY <1>4, <2>1, <2>2, <3>2 DEF ItemsBut
      <4> QED
        BY <2>2, <3>1, <4>1
    <3>3. CASE x = r /\ k # j
      <4>1. k \in DOMAIN cache.items[r] /\ new.items[r][k] = cache.items[r][k]
        BY <2>1, <2>2, <3>3 DEF ItemsBut
      <4> QED
        BY <3>1, <3>3, <4>1
    <3>4. CASE x = r /\ k = j
      <4> DEFINE o == Entry(cache, r, j)
      <4>1. CASE s \in o.contributors
        <5>1. j \in DOMAIN cache.items[r]
          BY <4>1 DEF Entry, NoEntry, Holds
        <5>2. new.items[r][j] = cache.items[r][j]
          BY <2>1, <4>1 DEF Added
        <5> QED
          BY <3>1, <3>4, <5>1, <5>2
      <4>2. CASE s \notin o.contributors
        <5>1. new.items[r][j] = Folded(o, s, _parity_coeff(s), col, K)
          BY <2>1, <4>2 DEF Added
        <5>2. o.parity = Sums[r][j][o.contributors] /\ o.contributors \in SUBSET NonHead
          <6>1. CASE Holds(cache, r, j)
            <7>1. o = cache.items[r][j] /\ j \in DOMAIN cache.items[r]
              BY <6>1 DEF Entry, Holds
            <7>2. EntryFits(cache.items[r][j])
              BY <1>3, <7>1 DEF CacheFits, Counted, ItemsFit, ItemFits
            <7> HIDE DEF o
            <7> QED
              BY <3>1, <7>1, <7>2 DEF EntryFits
          <6>2. CASE ~Holds(cache, r, j)
            <7>1. o.parity = << >> /\ o.contributors = {}
              BY <6>2 DEF Entry, NoEntry
            <7> HIDE DEF o
            <7> QED
              BY <7>1, SumOfNobody
          <6> QED
            BY <6>1, <6>2
        <5>3. /\ Folded(o, s, _parity_coeff(s), col, K).parity = XorColumns(o.parity, col)
              /\ Folded(o, s, _parity_coeff(s), col, K).contributors = o.contributors \cup {s}
          BY DEF Folded
        <5> DEFINE e == new.items[r][j]
        <5>4. e.parity = XorColumns(o.parity, col) /\ e.contributors = o.contributors \cup {s}
          BY <5>1, <5>3
        <5> HIDE DEF e, o
        <5>5. XorColumns(Sums[r][j][o.contributors], col) = Sums[r][j][o.contributors \cup {s}]
          BY <4>2, <5>2, SumWithAnother DEF col
        <5>6. e.parity = Sums[r][j][e.contributors]
          BY <5>2, <5>4, <5>5
        <5> QED
          BY <3>4, <5>6 DEF e
      <4> QED
        BY <4>1, <4>2
    <3> QED
      BY <3>2, <3>3, <3>4
  <2> QED
    BY <1>3, <2>2 DEF RightIn
<1> QED
  BY <1>2, <1>3

-----------------------------------------------------------------------------
(* The executors: what is delivered, lost or pushed beside.                 *)

LEMMA RightInNext ==
  ASSUME mode' = mode
  PROVE  RightIn(cache)' <=> RightIn(cache')
  BY DEF RightIn

LEMMA KeptInNext ==
  ASSUME mode' = mode, NEW s, NEW j
  PROVE  KeptIn(cache, s, j)' <=> KeptIn(cache', s, j)
  BY DEF KeptIn, Holds

\* One executor has one push less.
Shrunk(d) ==
  \A x \in Device : \A i \in DOMAIN pushes'[x] :
    \/ x # d /\ i \in DOMAIN pushes[x] /\ pushes'[x][i] = pushes[x][i]
    \/ x = d /\ i + 1 \in DOMAIN pushes[d] /\ pushes'[d][i] = pushes[d][i + 1]

LEMMA ShrunkBy ==
  ASSUME PushesShaped(pushes), NEW d \in Device, pushes[d] # << >>, pushes' = [pushes EXCEPT ![d] = Tail(@)]
  PROVE  /\ Shrunk(d) /\ 1 \in DOMAIN pushes[d] /\ Head(pushes[d]) = pushes[d][1]
         /\ \A x \in Device : x # d => pushes'[x] = pushes[x]
         /\ \A x \in Device : DOMAIN pushes'[x] \subseteq Nat \ {0}
         /\ \A x \in Device : pushes[x] = << >> => pushes'[x] = << >>
<1> DEFINE q == pushes[d]
<1>1. IsSeq(q) /\ DOMAIN pushes = Device /\ \A x \in Device : IsSeq(pushes[x])
  BY DEF PushesShaped, QueueShaped
<1>2. /\ Len(Tail(q)) = Len(q) - 1 /\ Len(q) > 0 /\ Len(q) \in Nat
      /\ DOMAIN Tail(q) = 1..(Len(q) - 1)
      /\ \A i \in 1..(Len(q) - 1) : Tail(q)[i] = q[i + 1]
      /\ Head(q) = q[1] /\ 1 \in DOMAIN q /\ DOMAIN q = 1..Len(q)
  BY <1>1, TailIs, IsSeqIs
<1>3. pushes'[d] = Tail(q) /\ \A x \in Device : x # d => pushes'[x] = pushes[x]
  BY <1>1
<1> HIDE DEF q
<1>4. ASSUME NEW i \in DOMAIN pushes'[d] PROVE i + 1 \in DOMAIN q /\ pushes'[d][i] = q[i + 1]
  BY <1>2, <1>3
<1>5. Shrunk(d)
  BY <1>3, <1>4 DEF Shrunk, q
<1>6. \A x \in Device : DOMAIN pushes'[x] \subseteq Nat \ {0}
  <2> TAKE x \in Device
  <2>1. CASE x = d
    BY <1>2, <1>3, <2>1
  <2>2. CASE x # d
    <3>1. IsSeq(pushes[x]) /\ pushes'[x] = pushes[x]
      BY <1>1, <1>3, <2>2
    <3>2. Len(pushes[x]) \in Nat /\ DOMAIN pushes[x] = 1..Len(pushes[x])
      BY <3>1, IsSeqIs
    <3> QED
      BY <3>1, <3>2
  <2> QED
    BY <2>1, <2>2
<1>7. \A x \in Device : pushes[x] = << >> => pushes'[x] = << >>
  BY <1>3
<1> QED
  BY <1>2, <1>3, <1>5, <1>6, <1>7 DEF q

LEMMA ShrunkQueues ==
  ASSUME NEW d \in Device, Shrunk(d), mode' = mode
  PROVE  /\ PushSorts => PushSorts'
         /\ RightPushes => RightPushes'
         /\ Placed => Placed'
         /\ \A s, j : Queued(s, j)' => Queued(s, j)
<1>1. ASSUME NEW x \in Device, NEW i \in DOMAIN pushes'[x]
      PROVE  \E k \in DOMAIN pushes[x] : pushes'[x][i] = pushes[x][k]
  BY DEF Shrunk
<1>2. PushSorts => PushSorts'
  BY <1>1 DEF PushSorts, IsPush, IsMirror, IsKVPush
<1>3. RightPushes => RightPushes'
  BY <1>1 DEF RightPushes, RightPush
<1>4. Placed => Placed'
  BY <1>1 DEF Placed
<1>5. ASSUME NEW s, NEW j, Queued(s, j)' PROVE Queued(s, j)
  <2>1. PICK x \in Device : \E i \in DOMAIN pushes'[x] : KVOf(pushes'[x][i], s, j)
    BY <1>5 DEF Queued, QueuedOn, KVOf
  <2>2. PICK i \in DOMAIN pushes'[x] : KVOf(pushes'[x][i], s, j)
    BY <2>1
  <2>3. PICK k \in DOMAIN pushes[x] : pushes'[x][i] = pushes[x][k]
    BY <1>1
  <2> QED
    BY <2>2, <2>3 DEF Queued, QueuedOn
<1> QED
  BY <1>2, <1>3, <1>4, <1>5

LEMMA ShrunkOnce ==
  ASSUME PushesShaped(pushes), NEW d \in Device, Shrunk(d), QueuedOnce, UNCHANGED kv,
         \A x \in Device : DOMAIN pushes'[x] \subseteq Nat \ {0}
  PROVE  /\ QueuedOnce'
         /\ \A i \in DOMAIN pushes'[d] :
              pushes'[d][i].kind = "kv" => ~KVOf(pushes[d][1], pushes'[d][i].stage, pushes'[d][i].at)
<1>1. ASSUME NEW x \in Device, NEW i \in DOMAIN pushes'[x], pushes'[x][i].kind = "kv"
      PROVE  /\ pushes'[x][i].at < Len(kv'[pushes'[x][i].stage])
             /\ \A k \in DOMAIN pushes'[x] : KVOf(pushes'[x][k], pushes'[x][i].stage, pushes'[x][i].at) => k = i
             /\ x = d => (1 \in DOMAIN pushes[d] => ~KVOf(pushes[d][1], pushes'[d][i].stage, pushes'[d][i].at))
  <2>1. CASE x # d
    BY <1>1, <2>1 DEF Shrunk, QueuedOnce
  <2>2. CASE x = d
    <3>1. i + 1 \in DOMAIN pushes[d] /\ pushes'[d][i] = pushes[d][i + 1]
      BY <2>2 DEF Shrunk
    <3> DEFINE p == pushes[d][i + 1]
    <3>2. /\ p.at < Len(kv[p.stage])
          /\ \A k \in DOMAIN pushes[d] : KVOf(pushes[d][k], p.stage, p.at) => k = i + 1
      BY <1>1, <2>2, <3>1 DEF QueuedOnce
    <3>3. ASSUME NEW k \in DOMAIN pushes'[d], KVOf(pushes'[d][k], p.stage, p.at) PROVE k = i
      <4>1. k + 1 \in DOMAIN pushes[d] /\ pushes'[d][k] = pushes[d][k + 1]
        BY DEF Shrunk
      <4>2. k + 1 = i + 1
        BY <3>2, <3>3, <4>1
      <4>3. k \in Nat /\ i \in Nat
        BY <2>2
      <4> QED
        BY <4>2, <4>3
    <3>4. 1 # i + 1
      BY <2>2
    <3> QED
      BY <2>2, <3>1, <3>2, <3>3, <3>4
  <2> QED
    BY <2>1, <2>2
<1>2. QueuedOnce'
  BY <1>1 DEF QueuedOnce, KVOf
<1>3. ASSUME NEW i \in DOMAIN pushes'[d], pushes'[d][i].kind = "kv"
      PROVE  ~KVOf(pushes[d][1], pushes'[d][i].stage, pushes'[d][i].at)
  <2>1. i + 1 \in DOMAIN pushes[d] /\ IsSeq(pushes[d]) /\ i \in Nat \ {0}
    BY DEF Shrunk, PushesShaped, QueueShaped
  <2>2. Len(pushes[d]) \in Nat /\ DOMAIN pushes[d] = 1..Len(pushes[d])
    BY <2>1, IsSeqIs
  <2>3. 1 \in DOMAIN pushes[d]
    BY <2>1, <2>2
  <2> QED
    BY <1>1, <1>3, <2>3
<1> QED
  BY <1>2, <1>3

\* A step of which the chain and the gateway's thread see nothing.
Aside == UNCHANGED <<mode, crashed, dead, plan, next_hop, promoted, kv, chain, job, injected, late>>
KeptStay ==
  IF mode = "replicate"
  THEN \A f \in NonHead : (\A j \in Nat : ~Queued(f, j)) =>
         StoredSlots(cache', Subject, f) \in {{}, StoredSlots(cache, Subject, f)}
  ELSE \A j \in Nat : (\A s \in NonHead : ~Queued(s, j)) /\ Holds(cache', Subject, j) =>
         Holds(cache, Subject, j) /\ cache'.items[Subject][j] = cache.items[Subject][j]
Quiet ==
  /\ Aside /\ KeptStay
  /\ \A s, j : Queued(s, j)' => Queued(s, j)
  /\ \A s \in Stage, p \in Position : history[s][p] = "good" => history'[s][p] = "good"

\* Without a push, an item can only be lost.
LEMMA LostItems ==
  ASSUME UNCHANGED mode, cache'.items[Subject] = NoItems \/ cache'.items[Subject] = cache.items[Subject]
  PROVE  KeptStay /\ \A s, j : KeptIn(cache', s, j) => KeptIn(cache, s, j)
<1>1. DOMAIN NoItems = {}
  BY NoItemsFit
<1>2. CASE cache'.items[Subject] = cache.items[Subject]
  BY <1>2 DEF KeptStay, KeptIn, Holds, StoredSlots
<1>3. CASE cache'.items[Subject] = NoItems
  <2>1. \A k : ~Holds(cache', Subject, k)
    BY <1>1, <1>3 DEF Holds
  <2>2. \A f \in NonHead : StoredSlots(cache', Subject, f) = {}
    BY <1>1, <1>3 DEF StoredSlots
  <2> QED
    BY <2>1, <2>2 DEF KeptStay, KeptIn
<1> QED
  BY <1>2, <1>3

LEMMA GoneAreDevices == ASSUME Marks PROVE crashed \subseteq Crashable /\ crashed \subseteq Device
  BY KVAssumption DEF Marks

\* What an executor with one push less leaves of the facts about the queues.
LEMMA ShrunkKeeps ==
  ASSUME Shapes, Marks, Sorts, PushedOnce, Aside, NEW d \in Device, pushes[d] # << >>,
         pushes' = [pushes EXCEPT ![d] = Tail(@)]
  PROVE  /\ PushSorts' /\ GoneIdle' /\ KVSorts'
         /\ RightPushes => RightPushes'
         /\ promoted = {} => Placed' /\ QueuedOnce'
         /\ \A s, j : Queued(s, j)' => Queued(s, j)
<1>1. UNCHANGED mode /\ UNCHANGED kv /\ UNCHANGED promoted /\ UNCHANGED chain /\ UNCHANGED crashed
  BY DEF Aside
<1>2. PushesShaped(pushes)
  BY DEF Shapes
<1>3. /\ Shrunk(d)
      /\ \A x \in Device : DOMAIN pushes'[x] \subseteq Nat \ {0}
      /\ \A x \in Device : pushes[x] = << >> => pushes'[x] = << >>
  BY <1>2, ShrunkBy
<1>4. /\ PushSorts => PushSorts'
      /\ RightPushes => RightPushes'
      /\ Placed => Placed'
      /\ \A s, j : Queued(s, j)' => Queued(s, j)
  BY <1>1, <1>3, ShrunkQueues
<1>5. QueuedOnce => QueuedOnce'
  BY <1>1, <1>2, <1>3, ShrunkOnce
<1>6. GoneIdle'
  <2>1. GoneIdle /\ crashed \subseteq Device
    BY GoneAreDevices DEF Sorts
  <2> QED
    BY <1>1, <1>3, <2>1 DEF GoneIdle, UnderWay
<1>7. KVSorts'
  BY <1>1 DEF Sorts, KVSorts
<1> QED
  <2>1. PushSorts /\ (promoted = {} => Placed /\ QueuedOnce)
    BY DEF Sorts, PushedOnce
  <2>2. \A s, j : Queued(s, j)' => Queued(s, j)
    BY <1>4
  <2>3. (RightPushes => RightPushes') /\ PushSorts' /\ (promoted = {} => Placed' /\ QueuedOnce')
    BY <1>4, <1>5, <2>1
  <2> QED
    BY <1>6, <1>7, <2>2, <2>3

LEMMA LoseQuiet ==
  ASSUME Shapes, Marks, Sorts, Contents, PushedOnce, NEW d \in Device, Lose(d)
  PROVE  Sorts' /\ Contents' /\ PushedOnce' /\ Quiet
<1>1. /\ pushes[d] # << >> /\ pushes' = [pushes EXCEPT ![d] = Tail(@)]
      /\ Aside /\ UNCHANGED cache /\ UNCHANGED history
  BY DEF Lose, gateway, Aside
<1>2. /\ PushSorts' /\ GoneIdle' /\ KVSorts'
      /\ RightPushes => RightPushes'
      /\ promoted = {} => Placed' /\ QueuedOnce'
      /\ \A s, j : Queued(s, j)' => Queued(s, j)
  BY <1>1, ShrunkKeeps
<1>3. UNCHANGED mode /\ UNCHANGED kv /\ UNCHANGED promoted /\ UNCHANGED late /\ UNCHANGED job
  BY <1>1 DEF Aside
<1>4. Sorts'
  BY <1>1, <1>2 DEF Sorts, HistorySorts
<1>5. PushedOnce'
  <2>1. KeptOnce => KeptOnce'
    <3>1. \A s, j : KeptIn(cache, s, j)' <=> KeptIn(cache, s, j)
      BY <1>1, <1>3, KeptInNext
    <3> QED
      BY <1>2, <1>3, <3>1 DEF KeptOnce
  <2> QED
    BY <1>2, <1>3, <2>1 DEF PushedOnce
<1>6. Contents'
  <2>1. RightIn(cache)' <=> RightIn(cache)
    BY <1>1, <1>3, RightInNext
  <2>2. (Right' <=> Right) /\ (RightHistory' <=> RightHistory)
    BY <1>1, <1>3 DEF Right, RightHistory
  <2> QED
    BY <1>2, <2>1, <2>2 DEF Contents
<1>7. KeptStay
  BY <1>1, <1>3, LostItems
<1> QED
  BY <1>1, <1>2, <1>4, <1>5, <1>6, <1>7 DEF Quiet

\* Recording a push keeps what is pushed, and nothing else that was not kept.
LEMMA KeptAfter ==
  ASSUME CacheFits(cache), NEW s0 \in NonHead, NEW j0, NEW col, Sized(col, LayersOf[s0]),
         NEW new, new = record_kv(Subject, s0, j0, col), NEW s, NEW j, KeptIn(new, s, j)
  PROVE  KeptIn(cache, s, j) \/ (s = s0 /\ j = j0)
<1>0. Subject \in Request
  BY KVAssumption
<1>1. CASE mode = "replicate"
  <2>1. ItemsBut(cache, new, Subject, <<s0, j0>>)
    BY <1>0, <1>1, RecordStores
  <2>2. <<s, j>> \in DOMAIN cache.items[Subject] \cup {<<s0, j0>>}
    BY <1>1, <2>1 DEF ItemsBut, KeptIn, Holds
  <2> QED
    BY <1>1, <2>2 DEF KeptIn, Holds
<1>2. CASE mode # "replicate"
  <2>1. ItemsBut(cache, new, Subject, j0) /\ Added(cache, new, Subject, s0, j0, col)
    BY <1>0, <1>2, RecordFolds
  <2>2. j \in DOMAIN new.items[Subject] /\ s \in new.items[Subject][j].contributors
    BY <1>2 DEF KeptIn, Holds
  <2>3. CASE j # j0
    BY <1>2, <2>1, <2>2, <2>3 DEF ItemsBut, KeptIn, Holds
  <2>4. CASE j = j0 /\ s0 \in Entry(cache, Subject, j0).contributors
    <3>1. j0 \in DOMAIN cache.items[Subject]
      BY <2>4 DEF Entry, NoEntry, Holds
    <3> QED
      BY <1>2, <2>1, <2>2, <2>4, <3>1 DEF Added, KeptIn, Holds
  <2>5. CASE j = j0 /\ s0 \notin Entry(cache, Subject, j0).contributors
    <3> DEFINE o == Entry(cache, Subject, j0)
    <3>1. new.items[Subject][j0] = Folded(o, s0, _parity_coeff(s0), col, K)
      BY <2>1, <2>5 DEF Added
    <3>2. Folded(o, s0, _parity_coeff(s0), col, K).contributors = o.contributors \cup {s0}
      BY DEF Folded
    <3>3. s \in o.contributors \cup {s0}
      BY <2>2, <2>5, <3>1, <3>2
    <3>4. CASE s \in o.contributors
      BY <1>2, <2>5, <3>4 DEF Entry, NoEntry, Holds, KeptIn
    <3> QED
      BY <2>5, <3>3, <3>4
  <2> QED
    BY <2>3, <2>4, <2>5
<1> QED
  BY <1>1, <1>2

\* A push that is recorded does not touch what has no push under way.
LEMMA DeliveredStays ==
  ASSUME CacheFits(cache), NEW s0 \in NonHead, NEW j0 \in Nat, NEW col, Sized(col, LayersOf[s0]),
         cache' = record_kv(Subject, s0, j0, col), Queued(s0, j0)
  PROVE  KeptStay
<1>0. Subject \in Request
  BY KVAssumption
<1> DEFINE new == cache'
<1>3. new = record_kv(Subject, s0, j0, col)
  OBVIOUS
<1>4. KeptStay <=>
       IF mode = "replicate"
       THEN \A f \in NonHead : (\A j \in Nat : ~Queued(f, j)) =>
              StoredSlots(new, Subject, f) \in {{}, StoredSlots(cache, Subject, f)}
       ELSE \A j \in Nat : (\A s \in NonHead : ~Queued(s, j)) /\ Holds(new, Subject, j) =>
              Holds(cache, Subject, j) /\ new.items[Subject][j] = cache.items[Subject][j]
  BY DEF KeptStay
<1> HIDE DEF new
<1>1. CASE mode = "replicate"
  <2>1. ItemsBut(cache, new, Subject, <<s0, j0>>)
    BY <1>0, <1>1, <1>3, RecordStores
  <2>2. ASSUME NEW f \in NonHead, \A j \in Nat : ~Queued(f, j)
        PROVE  StoredSlots(new, Subject, f) = StoredSlots(cache, Subject, f)
    <3>1. f # s0 /\ <<s0, j0>>[1] = s0
      BY <2>2
    <3>2. {k \in DOMAIN new.items[Subject] : k[1] = f} = {k \in DOMAIN cache.items[Subject] : k[1] = f}
      BY <2>1, <3>1 DEF ItemsBut
    <3> QED
      BY <3>2 DEF StoredSlots
  <2> QED
    BY <1>1, <1>4, <2>2
<1>2. CASE mode # "replicate"
  <2>1. ItemsBut(cache, new, Subject, j0)
    BY <1>0, <1>2, <1>3, RecordFolds
  <2>2. ASSUME NEW j \in Nat, \A s \in NonHead : ~Queued(s, j), Holds(new, Subject, j)
        PROVE  Holds(cache, Subject, j) /\ new.items[Subject][j] = cache.items[Subject][j]
    BY <2>1, <2>2 DEF ItemsBut, Holds
  <2> QED
    BY <1>2, <1>4, <2>2
<1> QED
  BY <1>1, <1>2

LEMMA DeliverQuiet ==
  ASSUME Shapes, CacheFits(cache), Marks, Sorts, Contents, PushedOnce, NEW d \in Device, Deliver(d)
  PROVE  Sorts' /\ Contents' /\ PushedOnce' /\ Quiet
<1> DEFINE p == pushes[d][1]
<1>1. /\ pushes[d] # << >> /\ pushes' = [pushes EXCEPT ![d] = Tail(@)] /\ Aside
  BY DEF Deliver, Aside, bounds
<1>2. PushesShaped(pushes)
  BY DEF Shapes
<1>3. /\ Shrunk(d) /\ 1 \in DOMAIN pushes[d] /\ Head(pushes[d]) = pushes[d][1]
      /\ \A x \in Device : x # d => pushes'[x] = pushes[x]
      /\ \A x \in Device : DOMAIN pushes'[x] \subseteq Nat \ {0}
  BY <1>1, <1>2, ShrunkBy
<1>4. /\ PushSorts' /\ GoneIdle' /\ KVSorts'
      /\ RightPushes => RightPushes'
      /\ promoted = {} => Placed' /\ QueuedOnce'
      /\ \A s, j : Queued(s, j)' => Queued(s, j)
  BY <1>1, ShrunkKeeps
<1>5. UNCHANGED mode /\ UNCHANGED kv /\ UNCHANGED promoted /\ UNCHANGED late /\ UNCHANGED job
  BY <1>1 DEF Aside
<1>6. IsPush(p) /\ (RightPushes => RightPush(p))
  BY <1>3 DEF Sorts, PushSorts, RightPushes
<1>7. Right' <=> Right
  BY <1>5 DEF Right
<1>8. /\ p.kind = "kv" => cache' = record_kv(Subject, p.stage, p.at, p.col) /\ UNCHANGED history
      /\ p.kind # "kv" => UNCHANGED cache /\ history' = [history EXCEPT ![p.stage][p.at] =
                              IF @ # "none" THEN @ ELSE IF p.good THEN "good" ELSE "bad"]
  BY <1>3 DEF Deliver
<1> HIDE DEF p
<1>9. CASE p.kind = "kv"
  <2>1. p.stage \in NonHead /\ p.at \in Nat /\ Sized(p.col, LayersOf[p.stage])
    BY <1>6, <1>9 DEF IsPush, IsMirror, Mirror, IsKVPush
  <2>2. cache' = record_kv(Subject, p.stage, p.at, p.col) /\ UNCHANGED history
    BY <1>8, <1>9
  <2>3. Queued(p.stage, p.at)
    BY <1>3, <1>9 DEF Queued, QueuedOn, KVOf, p
  <2>4. KeptStay
    BY <2>1, <2>2, <2>3, DeliveredStays
  <2>5. Sorts'
    BY <1>4, <2>2 DEF Sorts, HistorySorts
  <2>6. Contents'
    <3>1. ASSUME Right PROVE RightIn(cache')
      <4>1. RightIn(cache) /\ RightPush(p)
        BY <1>6, <3>1 DEF Contents
      <4>2. p.at \in Slot /\ p.col = Col(Subject, p.stage, p.at)
        BY <1>9, <4>1 DEF RightPush
      <4>3. Subject \in Request
        BY KVAssumption
      <4> QED
        BY <2>1, <2>2, <4>1, <4>2, <4>3, RecordRight
    <3>2. RightHistory' <=> RightHistory
      BY <2>2 DEF RightHistory
    <3> QED
      BY <1>4, <1>5, <1>7, <3>1, <3>2, RightInNext DEF Contents
  <2>7. PushedOnce'
    <3> SUFFICES ASSUME promoted = {} PROVE Placed' /\ QueuedOnce' /\ KeptOnce'
      BY <1>5 DEF PushedOnce
    <3>1. Placed /\ QueuedOnce /\ KeptOnce
      BY DEF PushedOnce
    <3>2. ASSUME NEW s \in NonHead, NEW j \in Nat, KeptIn(cache', s, j)
          PROVE  j < Len(kv[s]) /\ ~Queued(s, j)'
      <4>1. CASE KeptIn(cache, s, j)
        BY <1>4, <3>1, <4>1 DEF KeptOnce
      <4>2. CASE s = p.stage /\ j = p.at
        <5>1. j < Len(kv[s])
          BY <1>3, <1>9, <3>1, <4>2 DEF QueuedOnce, p
        <5>2. ASSUME NEW x \in Device, NEW i \in DOMAIN pushes'[x], KVOf(pushes'[x][i], s, j)
              PROVE  FALSE
          <6>1. CASE x = d
            <7>1. ~KVOf(pushes[d][1], pushes'[d][i].stage, pushes'[d][i].at)
              BY <1>2, <1>3, <1>5, <3>1, <5>2, <6>1, ShrunkOnce DEF KVOf
            <7> QED
              BY <1>9, <4>2, <5>2, <6>1, <7>1 DEF KVOf, p
          <6>2. CASE x # d
            <7>1. i \in DOMAIN pushes[x] /\ KVOf(pushes[x][i], s, j)
              BY <1>3, <5>2, <6>2
            <7>2. x = Placement[s] /\ d = Placement[p.stage]
              BY <1>3, <3>1, <7>1 DEF Placed, KVOf, p
            <7> QED
              BY <4>2, <6>2, <7>2
          <6> QED
            BY <6>1, <6>2
        <5>3. ~Queued(s, j)'
          BY <5>2 DEF Queued, QueuedOn, KVOf
        <5> QED
          BY <5>1, <5>3
      <4> QED
        BY <2>1, <2>2, <3>2, <4>1, <4>2, KeptAfter
    <3>3. KeptOnce'
      BY <1>5, <3>2, KeptInNext DEF KeptOnce
    <3> QED
      BY <1>4, <3>3
  <2>8. \A s \in Stage, q \in Position : history[s][q] = "good" => history'[s][q] = "good"
    BY <2>2
  <2> QED
    BY <1>1, <1>4, <2>4, <2>5, <2>6, <2>7, <2>8 DEF Quiet
<1>10. CASE p.kind # "kv"
  <2>1. p.stage \in NonHead /\ p.at \in Position /\ p.good \in BOOLEAN
    BY <1>6, <1>10 DEF IsPush, IsMirror, KVPush, IsKVPush
  <2>2. /\ UNCHANGED cache
        /\ history' = [history EXCEPT ![p.stage][p.at] =
                              IF @ # "none" THEN @ ELSE IF p.good THEN "good" ELSE "bad"]
    BY <1>8, <1>10
  <2>3. HistorySorts /\ p.stage \in Stage
    BY <2>1, Lengths DEF Sorts
  <2>4. \A s \in Stage, q \in Position :
          \/ history'[s][q] = history[s][q]
          \/ history[s][q] = "none" /\ history'[s][q] = IF p.good THEN "good" ELSE "bad"
    BY <2>1, <2>2, <2>3 DEF HistorySorts
  <2>5. HistorySorts'
    BY <2>1, <2>2, <2>3 DEF HistorySorts
  <2>6. Contents'
    <3>1. RightIn(cache)' <=> RightIn(cache)
      BY <1>5, <2>2, RightInNext
    <3>2. ASSUME Right PROVE RightHistory'
      <4>1. RightHistory /\ p.good
        BY <1>6, <1>10, <3>2 DEF Contents, RightPush
      <4> QED
        BY <2>4, <4>1 DEF RightHistory
    <3> QED
      BY <1>4, <1>7, <3>1, <3>2 DEF Contents
  <2>7. PushedOnce'
    <3>1. KeptOnce => KeptOnce'
      <4>1. \A s, j : KeptIn(cache, s, j)' <=> KeptIn(cache, s, j)
        BY <1>5, <2>2, KeptInNext
      <4> QED
        BY <1>4, <1>5, <4>1 DEF KeptOnce
    <3> QED
      BY <1>4, <1>5, <3>1 DEF PushedOnce
  <2>8. KeptStay
    BY <1>5, <2>2, LostItems
  <2>9. \A s \in Stage, q \in Position : history[s][q] = "good" => history'[s][q] = "good"
    BY <2>4
  <2> QED
    BY <1>1, <1>4, <2>5, <2>6, <2>7, <2>8, <2>9 DEF Quiet, Sorts
<1> QED
  BY <1>9, <1>10

LEMMA OtherPushQuiet ==
  ASSUME Shapes, CacheFits(cache), Sorts, Contents, PushedOnce,
         NEW r \in Request \ {Subject}, NEW s0 \in NonHead, OtherPush(r, s0)
  PROVE  Sorts' /\ Contents' /\ PushedOnce' /\ Quiet
<1>1. /\ cache' = record_kv(r, s0, 0, Col(r, s0, 0)) /\ UNCHANGED pushes /\ UNCHANGED history
      /\ Aside
  BY DEF OtherPush, Aside, workers
<1>2. UNCHANGED mode /\ UNCHANGED kv /\ UNCHANGED promoted /\ UNCHANGED late /\ UNCHANGED job
      /\ UNCHANGED chain /\ UNCHANGED crashed
  BY <1>1 DEF Aside
<1>3. 0 \in Slot /\ 0 \in Nat /\ s0 \in Stage /\ r \in Request /\ Subject \in Request
  BY Numbers, Lengths, KVAssumption
<1>4. cache'.items[Subject] = NoItems \/ cache'.items[Subject] = cache.items[Subject]
  <2> DEFINE col == Col(r, s0, 0)
             new == cache'
  <2>1. Sized(col, LayersOf[s0]) /\ new = record_kv(r, s0, 0, col)
    BY <1>1, <1>3, ColSize
  <2> HIDE DEF col, new
  <2>2. mode = "replicate" => ItemsBut(cache, new, r, <<s0, 0>>)
    BY <1>3, <2>1, RecordStores
  <2>3. mode # "replicate" => ItemsBut(cache, new, r, 0)
    BY <1>3, <2>1, RecordFolds
  <2>4. new.items[Subject] = NoItems \/ new.items[Subject] = cache.items[Subject]
    BY <1>3, <2>2, <2>3 DEF ItemsBut
  <2> QED
    BY <2>4 DEF new
<1>5. KeptStay /\ \A s, j : KeptIn(cache', s, j) => KeptIn(cache, s, j)
  BY <1>2, <1>4, LostItems
<1>6. Sorts'
  BY <1>1, <1>2 DEF Sorts, KVSorts, PushSorts, GoneIdle, HistorySorts, UnderWay
<1>7. \A s, j : Queued(s, j)' <=> Queued(s, j)
  BY <1>1 DEF Queued, QueuedOn, KVOf
<1>8. Contents'
  <2>1. RightIn(cache) => RightIn(cache')
    BY <1>1, <1>3, RecordRight
  <2>2. /\ RightHistory' <=> RightHistory
        /\ Right' <=> Right
        /\ RightPushes' <=> RightPushes
    BY <1>1, <1>2 DEF RightHistory, Right, RightPushes
  <2> QED
    BY <1>2, <2>1, <2>2, RightInNext DEF Contents
<1>9. PushedOnce'
  <2>1. /\ Placed' <=> Placed
        /\ QueuedOnce' <=> QueuedOnce
    BY <1>1, <1>2 DEF Placed, QueuedOnce, KVOf
  <2>2. \A s, j : KeptIn(cache, s, j)' => KeptIn(cache, s, j)
    BY <1>2, <1>5, KeptInNext
  <2>3. KeptOnce => KeptOnce'
    BY <1>2, <1>7, <2>2 DEF KeptOnce
  <2> QED
    BY <1>2, <2>1, <2>3 DEF PushedOnce
<1> QED
  BY <1>1, <1>5, <1>6, <1>7, <1>8, <1>9 DEF Quiet

-----------------------------------------------------------------------------
(* The executors: what is pushed.                                           *)

\* One executor has m pushes more.
Grew(d, Q, m) ==
  \A x \in Device :
    /\ \A i \in DOMAIN pushes[x] : i \in DOMAIN pushes'[x] /\ pushes'[x][i] = pushes[x][i]
    /\ \A i \in DOMAIN pushes'[x] :
         \/ i \in DOMAIN pushes[x] /\ pushes'[x][i] = pushes[x][i]
         \/ /\ x = d /\ i \notin DOMAIN pushes[x] /\ i \in Nat
            /\ i - Len(pushes[d]) \in 1..m /\ pushes'[x][i] = Q[i - Len(pushes[d])]

LEMMA GrewByAll ==
  ASSUME PushesShaped(pushes), NEW d, NEW Q, NEW m, Sized(Q, m), pushes' = [pushes EXCEPT ![d] = @ \o Q]
  PROVE  Grew(d, Q, m)
<1>1. m \in Nat /\ Len(Q) = m /\ IsSeq(Q)
  BY SizedIs
<1> SUFFICES ASSUME NEW x \in Device
             PROVE  /\ \A i \in DOMAIN pushes[x] : i \in DOMAIN pushes'[x] /\ pushes'[x][i] = pushes[x][i]
                    /\ \A i \in DOMAIN pushes'[x] :
                         \/ i \in DOMAIN pushes[x] /\ pushes'[x][i] = pushes[x][i]
                         \/ /\ x = d /\ i \notin DOMAIN pushes[x] /\ i \in Nat
                            /\ i - Len(pushes[d]) \in 1..m /\ pushes'[x][i] = Q[i - Len(pushes[d])]
  BY DEF Grew
<1>2. IsSeq(pushes[x]) /\ DOMAIN pushes = Device
  BY DEF PushesShaped, QueueShaped
<1>3. CASE x # d
  BY <1>2, <1>3
<1>4. CASE x = d
  <2> DEFINE q == pushes[d]
  <2>1. pushes'[d] = q \o Q
    BY <1>2, <1>4
  <2>2. Len(q) \in Nat /\ DOMAIN q = 1..Len(q)
    BY <1>2, <1>4, IsSeqIs
  <2>3. /\ DOMAIN (q \o Q) = 1..(Len(q) + m)
        /\ \A i \in 1..(Len(q) + m) : (q \o Q)[i] = IF i <= Len(q) THEN q[i] ELSE Q[i - Len(q)]
    BY <1>1, <1>2, <1>4, ConcatIs
  <2> DEFINE y == q \o Q
             l == Len(q)
  <2>4. DOMAIN y = 1..(l + m) /\ \A i \in 1..(l + m) : y[i] = IF i <= l THEN q[i] ELSE Q[i - l]
    BY <2>3
  <2>5. l \in Nat /\ DOMAIN q = 1..l
    BY <2>2
  <2> HIDE DEF y, l, q
  <2>6. \A i \in 1..l : i \in DOMAIN y /\ y[i] = q[i]
    BY <1>1, <2>4, <2>5
  <2>7. \A i \in DOMAIN y : \/ i \in 1..l /\ y[i] = q[i]
                            \/ i \notin 1..l /\ i \in Nat /\ i - l \in 1..m /\ y[i] = Q[i - l]
    BY <1>1, <2>4, <2>5
  <2>8. pushes'[x] = y /\ pushes[x] = q /\ Len(pushes[d]) = l
    BY <1>4, <2>1 DEF y, q, l
  <2> QED
    BY <1>4, <2>5, <2>6, <2>7, <2>8
<1> QED
  BY <1>3, <1>4

LEMMA GrewByOne ==
  ASSUME PushesShaped(pushes), NEW d, NEW e, pushes' = [pushes EXCEPT ![d] = Append(@, e)]
  PROVE  Grew(d, <<e>>, 1)
<1> SUFFICES ASSUME NEW x \in Device
             PROVE  /\ \A i \in DOMAIN pushes[x] : i \in DOMAIN pushes'[x] /\ pushes'[x][i] = pushes[x][i]
                    /\ \A i \in DOMAIN pushes'[x] :
                         \/ i \in DOMAIN pushes[x] /\ pushes'[x][i] = pushes[x][i]
                         \/ /\ x = d /\ i \notin DOMAIN pushes[x] /\ i \in Nat
                            /\ i - Len(pushes[d]) \in 1..1 /\ pushes'[x][i] = <<e>>[i - Len(pushes[d])]
  BY DEF Grew
<1>2. IsSeq(pushes[x]) /\ DOMAIN pushes = Device
  BY DEF PushesShaped, QueueShaped
<1>3. CASE x # d
  BY <1>2, <1>3
<1>4. CASE x = d
  <2> DEFINE q == pushes[d]
             l == Len(q)
             y == Append(q, e)
  <2>1. pushes'[d] = y
    BY <1>2, <1>4
  <2>2. l \in Nat /\ DOMAIN q = 1..l
    BY <1>2, <1>4, IsSeqIs
  <2>3. DOMAIN y = 1..(l + 1) /\ (\A i \in 1..l : y[i] = q[i]) /\ y[l + 1] = e
    BY <1>2, <1>4, AppendIs
  <2> HIDE DEF y, l, q
  <2>4. \A i \in 1..l : i \in DOMAIN y /\ y[i] = q[i]
    BY <2>2, <2>3
  <2>5. \A i \in DOMAIN y : \/ i \in 1..l /\ y[i] = q[i]
                            \/ i \notin 1..l /\ i \in Nat /\ i - l = 1 /\ y[i] = e
    BY <2>2, <2>3
  <2>6. pushes'[x] = y /\ pushes[x] = q /\ Len(pushes[d]) = l
    BY <1>4, <2>1 DEF y, q, l
  <2>7. <<e>>[1] = e /\ 1 \in 1..1
    OBVIOUS
  <2> QED
    BY <1>4, <2>2, <2>4, <2>5, <2>6, <2>7
<1> QED
  BY <1>3, <1>4

LEMMA GrewQueues ==
  ASSUME NEW d, NEW Q, NEW m, Grew(d, Q, m), \A k \in 1..m : IsPush(Q[k]), mode' = mode
  PROVE  /\ PushSorts => PushSorts'
         /\ RightPushes /\ (\A k \in 1..m : RightPush(Q[k])) => RightPushes'
         /\ Placed /\ (\A k \in 1..m : d = Placement[Q[k].stage]) => Placed'
         /\ \A s, j : Queued(s, j) => Queued(s, j)'
         /\ \A s, j : Queued(s, j)' => Queued(s, j) \/ \E k \in 1..m : KVOf(Q[k], s, j)
<1>1. ASSUME NEW x \in Device, NEW i \in DOMAIN pushes'[x]
      PROVE  \/ i \in DOMAIN pushes[x] /\ pushes'[x][i] = pushes[x][i]
             \/ x = d /\ \E k \in 1..m : pushes'[x][i] = Q[k]
  BY DEF Grew
<1>2. PushSorts => PushSorts'
  <2> SUFFICES ASSUME PushSorts, NEW x \in Device, NEW i \in DOMAIN pushes'[x] PROVE IsPush(pushes'[x][i])
    BY DEF PushSorts, IsPush, IsMirror, IsKVPush
  <2> QED
    BY <1>1 DEF PushSorts
<1>3. RightPushes /\ (\A k \in 1..m : RightPush(Q[k])) => RightPushes'
  <2> SUFFICES ASSUME RightPushes, \A k \in 1..m : RightPush(Q[k]), NEW x \in Device, NEW i \in DOMAIN pushes'[x]
               PROVE  RightPush(pushes'[x][i])
    BY DEF RightPushes, RightPush
  <2> QED
    BY <1>1 DEF RightPushes
<1>4. Placed /\ (\A k \in 1..m : d = Placement[Q[k].stage]) => Placed'
  BY <1>1 DEF Placed
<1>5. ASSUME NEW s, NEW j, Queued(s, j) PROVE Queued(s, j)'
  <2>1. PICK x \in Device : \E i \in DOMAIN pushes[x] : KVOf(pushes[x][i], s, j)
    BY <1>5 DEF Queued, QueuedOn
  <2>2. \E i \in DOMAIN pushes'[x] : KVOf(pushes'[x][i], s, j)
    BY <2>1 DEF Grew
  <2> QED
    BY <2>2 DEF Queued, QueuedOn, KVOf
<1>6. ASSUME NEW s, NEW j, Queued(s, j)' PROVE Queued(s, j) \/ \E k \in 1..m : KVOf(Q[k], s, j)
  <2>1. PICK x \in Device : \E i \in DOMAIN pushes'[x] : KVOf(pushes'[x][i], s, j)
    BY <1>6 DEF Queued, QueuedOn, KVOf
  <2>2. PICK i \in DOMAIN pushes'[x] : KVOf(pushes'[x][i], s, j)
    BY <2>1
  <2> QED
    BY <1>1, <2>2 DEF Queued, QueuedOn
<1>7. (\A s, j : Queued(s, j) => Queued(s, j)')
  BY <1>5
<1>8. \A s, j : Queued(s, j)' => Queued(s, j) \/ \E k \in 1..m : KVOf(Q[k], s, j)
  BY <1>6
<1> QED
  BY <1>2, <1>3, <1>4, <1>7, <1>8

-----------------------------------------------------------------------------
(* RunStage.                                                                *)

\* Somebody is reached who serves the stage, or nobody is.
Reached(i, h) ==
  IF Serves(h.dev, h.stage) THEN chain' = [chain EXCEPT ![i] = h]
  ELSE chain' = [chain EXCEPT ![i] = IF i = "call" THEN Failed(h, h.stage) ELSE Idle]

LEMMA ReachIs ==
  ASSUME Shapes, Marks, Sorts, PushedOnce, NEW i \in Handlers, NEW h \in HandlerType, h.st = "arrived",
         Reach(i, h), UNCHANGED <<mode, crashed, promoted, kv, cache, history>>
  PROVE  /\ Reached(i, h) /\ Sorts' /\ PushedOnce'
         /\ RightPushes /\ (h.good \/ ~Serves(h.dev, h.stage)) => RightPushes'
         /\ \A s, j : Queued(s, j)' <=> Queued(s, j)
<1> DEFINE x == Mirror(h.stage, h.at, h.good)
<1>1. h.stage \in Stage /\ h.at \in Position /\ h.good \in BOOLEAN /\ PushesShaped(pushes)
  BY DEF HandlerType, Shapes
<1>2. Reached(i, h)
  BY DEF Reach, Reached
<1>3. \/ pushes' = pushes
      \/ Serves(h.dev, h.stage) /\ h.stage # 1 /\ pushes' = [pushes EXCEPT ![h.dev] = Append(@, x)]
  BY DEF Reach
<1>4. Serves(h.dev, h.stage) => h.dev \notin crashed /\ (promoted = {} => h.dev = Placement[h.stage])
  BY DEF Serves
<1>5. /\ x.kind = "mirror" /\ x.stage = h.stage
      /\ h.stage # 1 => IsPush(x)
      /\ h.good => RightPush(x)
  BY <1>1, Lengths DEF Mirror, IsPush, IsMirror, RightPush
<1>6. crashed \subseteq Device /\ DOMAIN pushes = Device
  BY <1>1, GoneAreDevices DEF PushesShaped
<1> HIDE DEF x
<1>7. /\ PushSorts' /\ (\A d \in crashed : pushes'[d] = << >>)
      /\ RightPushes /\ (h.good \/ ~Serves(h.dev, h.stage)) => RightPushes'
      /\ promoted = {} => Placed' /\ QueuedOnce'
      /\ \A s, j : Queued(s, j)' <=> Queued(s, j)
  <2>0. PushSorts /\ (\A d \in crashed : pushes[d] = << >>) /\ (promoted = {} => Placed /\ QueuedOnce)
    BY DEF Sorts, GoneIdle, PushedOnce
  <2>1. CASE pushes' = pushes
    <3>1. /\ PushSorts' <=> PushSorts
          /\ RightPushes' <=> RightPushes
          /\ Placed' <=> Placed
          /\ QueuedOnce' <=> QueuedOnce
      BY <2>1 DEF PushSorts, RightPushes, Placed, QueuedOnce, KVOf, IsPush, IsMirror, IsKVPush, RightPush
    <3>2. \A s, j : Queued(s, j)' <=> Queued(s, j)
      BY <2>1 DEF Queued, QueuedOn, KVOf
    <3>3. \A d \in crashed : pushes'[d] = << >>
      BY <2>0, <2>1
    <3> QED
      BY <2>0, <3>1, <3>2, <3>3
  <2>2. CASE Serves(h.dev, h.stage) /\ h.stage # 1 /\ pushes' = [pushes EXCEPT ![h.dev] = Append(@, x)]
    <3>1. Grew(h.dev, <<x>>, 1)
      BY <1>1, <2>2, GrewByOne
    <3>2. \A k \in 1..1 : <<x>>[k] = x
      OBVIOUS
    <3> DEFINE Q == <<x>>
    <3>3. (\A k \in 1..1 : Q[k] = x) /\ Grew(h.dev, Q, 1)
      BY <3>1, <3>2
    <3> HIDE DEF Q
    <3>4. /\ PushSorts => PushSorts'
          /\ RightPushes /\ (\A k \in 1..1 : RightPush(Q[k])) => RightPushes'
          /\ Placed /\ (\A k \in 1..1 : h.dev = Placement[Q[k].stage]) => Placed'
          /\ \A s, j : Queued(s, j) => Queued(s, j)'
          /\ \A s, j : Queued(s, j)' => Queued(s, j) \/ \E k \in 1..1 : KVOf(Q[k], s, j)
      BY <1>5, <2>2, <3>3, GrewQueues
    <3>5. \A s, j : Queued(s, j)' <=> Queued(s, j)
      BY <1>5, <3>3, <3>4 DEF KVOf
    <3>6. promoted = {} => Placed'
      BY <1>4, <1>5, <2>0, <2>2, <3>3, <3>4
    <3>7. RightPushes /\ (h.good \/ ~Serves(h.dev, h.stage)) => RightPushes'
      BY <1>5, <2>2, <3>3, <3>4
    <3>8. \A d \in crashed : pushes'[d] = << >>
      BY <1>4, <1>6, <2>0, <2>2
    <3>9. QueuedOnce => QueuedOnce'
      <4>1. \A d \in Device : \A k \in DOMAIN pushes'[d] :
              pushes'[d][k].kind = "kv" => k \in DOMAIN pushes[d] /\ pushes'[d][k] = pushes[d][k]
        BY <1>5, <3>3 DEF Grew
      <4> QED
        BY <4>1 DEF QueuedOnce, KVOf
    <3> QED
      BY <2>0, <3>4, <3>5, <3>6, <3>7, <3>8, <3>9
  <2> QED
    BY <1>3, <2>1, <2>2
<1>8. GoneIdle'
  <2>1. \A n \in Handlers : UnderWay(chain'[n]) => chain'[n].dev \notin crashed
    <3>0. DOMAIN chain = Handlers /\ \A n \in Handlers : UnderWay(chain[n]) => chain[n].dev \notin crashed
      BY DEF Shapes, ChainShaped, Sorts, GoneIdle
    <3>1. PICK t : /\ chain' = [chain EXCEPT ![i] = t]
                   /\ UnderWay(t) => t.dev \notin crashed
      <4>1. Failed(h, h.stage).st = "error" /\ Idle.st = "idle"
        BY <1>1, FailedType, IdleType
      <4>2. ~UnderWay(Failed(h, h.stage)) /\ ~UnderWay(Idle)
        BY <4>1 DEF UnderWay
      <4>3. CASE Serves(h.dev, h.stage)
        BY <1>2, <1>4, <4>3 DEF Reached
      <4>4. CASE ~Serves(h.dev, h.stage) /\ i = "call"
        BY <1>2, <4>2, <4>4 DEF Reached
      <4>5. CASE ~Serves(h.dev, h.stage) /\ i # "call"
        BY <1>2, <4>2, <4>5 DEF Reached
      <4> QED
        BY <4>3, <4>4, <4>5
    <3> QED
      BY <3>0, <3>1
  <2> QED
    BY <1>7, <2>1 DEF GoneIdle, UnderWay
<1>9. Sorts'
  <2>1. KVSorts' /\ HistorySorts'
    BY DEF Sorts, KVSorts, HistorySorts
  <2> QED
    BY <1>7, <1>8, <2>1 DEF Sorts
<1>10. PushedOnce'
  <2>1. \A s, j : KeptIn(cache, s, j)' <=> KeptIn(cache, s, j)
    BY KeptInNext
  <2>2. KeptOnce => KeptOnce'
    BY <1>7, <2>1 DEF KeptOnce
  <2> QED
    BY <1>7, <2>2 DEF PushedOnce
<1> QED
  BY <1>2, <1>7, <1>9, <1>10

LEMMA SameSeq ==
  ASSUME NEW n, NEW x, NEW y, Sized(x, n), Sized(y, n), \A i \in 1..n : x[i] = y[i]
  PROVE  x = y
  BY DEF Sized

\* A handler that has run.
Ran(h) == [h EXCEPT !.st = "ran", !.good = Runs(h)]

LEMMA RanIs ==
  ASSUME Shapes, NEW h \in HandlerType
  PROVE  /\ Ran(h) \in HandlerType /\ Ran(h).st = "ran" /\ Ran(h).good = Runs(h)
         /\ Ran(h).stage = h.stage /\ Ran(h).dev = h.dev /\ Ran(h).at = h.at /\ Ran(h).from = h.from
         /\ Ran(h).blame = h.blame
<1>1. Runs(h) \in BOOLEAN
  BY DEF HandlerType, Runs
<1> HIDE DEF Runs
<1> QED
  BY <1>1 DEF HandlerType, Ran

\* What is pushed of the new columns.
LEMMA ShippedSorts ==
  ASSUME NEW h \in HandlerType, IsSeq(kv[h.stage]), h.stage # 1
  PROVE  \A k \in 1..Count0(h) : /\ IsPush(Shipped(h)[k]) /\ Shipped(h)[k].kind = "kv"
                                 /\ Shipped(h)[k].stage = h.stage
                                 /\ Shipped(h)[k].at = First0(h) + k - 1
                                 /\ Shipped(h)[k].col = NewColumns(h)[k]
<1> SUFFICES ASSUME NEW k \in 1..Count0(h)
             PROVE  /\ IsPush(Shipped(h)[k]) /\ Shipped(h)[k].kind = "kv"
                    /\ Shipped(h)[k].stage = h.stage
                    /\ Shipped(h)[k].at = First0(h) + k - 1
                    /\ Shipped(h)[k].col = NewColumns(h)[k]
  OBVIOUS
<1>1. Shipped(h)[k] = KVPush(h.stage, First0(h) + k - 1, NewColumns(h)[k])
  BY ShippedAre
<1>2. Sized(NewColumns(h)[k], LayersOf[h.stage]) /\ First0(h) \in Nat /\ Count0(h) \in Nat
  BY NewColumnsAre
<1>3. h.stage \in NonHead /\ First0(h) + k - 1 \in Nat
  BY <1>2, Lengths DEF HandlerType
<1> DEFINE x == Shipped(h)[k]
           a == First0(h) + k - 1
           c == NewColumns(h)[k]
<1>4. x = KVPush(h.stage, a, c) /\ a \in Nat /\ Sized(c, LayersOf[h.stage])
  BY <1>1, <1>2, <1>3
<1> HIDE DEF x, a, c
<1>5. x.kind = "kv" /\ x.stage = h.stage /\ x.at = a /\ x.col = c
  BY <1>4 DEF KVPush
<1>6. IsPush(x)
  BY <1>3, <1>4, <1>5 DEF IsPush, IsKVPush
<1> QED
  BY <1>5, <1>6 DEF x, a, c

LEMMA RunIs ==
  ASSUME Shapes, Marks, Sorts, NEW i \in Handlers, Run(i), NEW h, h = chain[i]
  PROVE  /\ h \in HandlerType /\ h.st = "arrived" /\ h.stage \in Stage /\ h.at \in Position
         /\ chain' = [chain EXCEPT ![i] = Ran(h)]
         /\ UNCHANGED <<mode, crashed, next_hop, promoted, dead, plan, cache, history, job, injected, late>>
         /\ \A s \in Stage : s # h.stage => kv'[s] = kv[s]
         /\ kv'[h.stage] = (IF h.at = 0 THEN << >> ELSE kv[h.stage]) \o NewColumns(h)
         /\ Len(kv'[h.stage]) = IF h.at = 0 THEN Prompt ELSE Len(kv[h.stage]) + 1
         /\ h.stage = 1 => pushes' = pushes
         /\ h.stage # 1 => Grew(h.dev, Shipped(h), Count0(h))
         /\ Sorts'
<1> DEFINE old == IF h.at = 0 THEN << >> ELSE kv[h.stage]
           new == old \o NewColumns(h)
<1>1. /\ h \in HandlerType /\ h.st = "arrived" /\ KVShaped(kv) /\ PushesShaped(pushes)
      /\ DOMAIN chain = Handlers
      /\ UNCHANGED <<mode, crashed, next_hop, promoted, dead, plan, cache, history, job, injected, late>>
      /\ chain' = [chain EXCEPT ![i].st = "ran", ![i].good = Runs(h)]
      /\ kv' = [kv EXCEPT ![h.stage] = new]
      /\ pushes' = IF h.stage = 1 THEN pushes ELSE [pushes EXCEPT ![h.dev] = @ \o Shipped(h)]
  BY DEF Run, Shapes, ChainShaped, gateway, bounds
<1>2. h.stage \in Stage /\ h.at \in Position /\ IsSeq(kv[h.stage]) /\ DOMAIN kv = Stage
  BY <1>1 DEF HandlerType, KVShaped
<1>3. chain' = [chain EXCEPT ![i] = Ran(h)]
  BY <1>1 DEF Ran
<1>4. /\ Sized(NewColumns(h), Count0(h)) /\ Count0(h) \in Nat /\ IsSeq(NewColumns(h))
      /\ Len(NewColumns(h)) = Count0(h)
      /\ \A j \in 1..Count0(h) : Sized(NewColumns(h)[j], LayersOf[h.stage])
  BY <1>1, <1>2, NewColumnsAre, SizedIs
<1>5. /\ IsSeq(old) /\ Len(old) = (IF h.at = 0 THEN 0 ELSE Len(kv[h.stage])) /\ Len(old) \in Nat
      /\ \A j \in DOMAIN old : Sized(old[j], LayersOf[h.stage])
  <2>1. CASE h.at = 0
    BY <2>1, EmptyIsSized
  <2>2. CASE h.at # 0
    BY <1>2, <2>2, IsSeqIs DEF Sorts, KVSorts
  <2> QED
    BY <2>1, <2>2
<1> HIDE DEF old
<1>6. /\ Len(new) = Len(old) + Count0(h) /\ DOMAIN new = 1..(Len(old) + Count0(h))
      /\ \A k \in 1..(Len(old) + Count0(h)) : new[k] = IF k <= Len(old) THEN old[k] ELSE NewColumns(h)[k - Len(old)]
  BY <1>4, <1>5, ConcatIs
<1>7. DOMAIN old = 1..Len(old)
  BY <1>5, IsSeqIs
<1> HIDE DEF new
<1>8. kv'[h.stage] = new /\ \A s \in Stage : s # h.stage => kv'[s] = kv[s]
  BY <1>1, <1>2
<1>9. \A k \in DOMAIN new : Sized(new[k], LayersOf[h.stage])
  <2> TAKE k \in DOMAIN new
  <2>1. CASE k <= Len(old)
    <3>1. k \in DOMAIN old
      BY <1>4, <1>5, <1>6, <1>7, <2>1
    <3> QED
      BY <1>5, <1>6, <2>1, <3>1
  <2>2. CASE ~(k <= Len(old))
    <3>1. k - Len(old) \in 1..Count0(h)
      BY <1>4, <1>5, <1>6, <2>2
    <3> QED
      BY <1>4, <1>6, <2>2, <3>1
  <2> QED
    BY <2>1, <2>2
<1>10. KVSorts'
  BY <1>8, <1>9 DEF Sorts, KVSorts
<1>11. Len(new) = IF h.at = 0 THEN Prompt ELSE Len(kv[h.stage]) + 1
  BY <1>5, <1>6, Numbers DEF Count0
<1>12. h.dev \notin crashed
  BY <1>1 DEF Sorts, GoneIdle, UnderWay
<1>13. h.stage # 1 => Grew(h.dev, Shipped(h), Count0(h))
  BY <1>1, <1>2, ShippedAre, GrewByAll
<1>14. PushSorts'
  <2>0. PushSorts
    BY DEF Sorts
  <2>1. CASE h.stage = 1
    BY <1>1, <2>0, <2>1 DEF PushSorts, IsPush, IsMirror, IsKVPush
  <2>2. CASE h.stage # 1
    <3>1. \A k \in 1..Count0(h) : IsPush(Shipped(h)[k])
      BY <1>1, <1>2, <2>2, ShippedSorts
    <3> QED
      BY <1>1, <1>13, <2>0, <2>2, <3>1, GrewQueues
  <2> QED
    BY <2>1, <2>2
<1>15. GoneIdle'
  <2>0. crashed \subseteq Device /\ DOMAIN pushes = Device /\ GoneIdle
    BY <1>1, GoneAreDevices DEF PushesShaped, Sorts
  <2>1. \A d \in crashed : pushes'[d] = << >>
    BY <1>1, <1>12, <2>0 DEF GoneIdle
  <2>2. \A n \in Handlers : UnderWay(chain'[n]) => chain'[n].dev \notin crashed
    BY <1>1, <1>3, <1>12, <2>0, RanIs DEF GoneIdle
  <2> QED
    BY <1>1, <2>1, <2>2 DEF GoneIdle, UnderWay
<1>16. Sorts'
  BY <1>1, <1>10, <1>14, <1>15 DEF Sorts, HistorySorts
<1> QED
  BY <1>1, <1>2, <1>3, <1>8, <1>11, <1>13, <1>16 DEF new, old

\* A run over a cache that holds exactly the slots before the position.
LEMMA RunRight ==
  ASSUME Shapes, Marks, Sorts, PushedOnce, NEW i \in Handlers, Run(i), NEW h, h = chain[i],
         h.good, kv[h.stage] = Prefix(h.stage, Before(h.at)), promoted = {} => h.dev = Placement[h.stage]
  PROVE  /\ Runs(h) /\ kv'[h.stage] = Prefix(h.stage, Prompt + h.at)
         /\ RightPushes => RightPushes'
         /\ \A s, j : Queued(s, j)' => Queued(s, j) \/ (s = h.stage /\ ~(j < Len(kv[s])))
         /\ PushedOnce'
<1>1. /\ h \in HandlerType /\ h.stage \in Stage /\ h.at \in Position
      /\ UNCHANGED <<mode, promoted, cache>>
      /\ \A s \in Stage : s # h.stage => kv'[s] = kv[s]
      /\ kv'[h.stage] = (IF h.at = 0 THEN << >> ELSE kv[h.stage]) \o NewColumns(h)
      /\ Len(kv'[h.stage]) = IF h.at = 0 THEN Prompt ELSE Len(kv[h.stage]) + 1
      /\ h.stage = 1 => pushes' = pushes
      /\ h.stage # 1 => Grew(h.dev, Shipped(h), Count0(h))
  BY RunIs
<1> DEFINE b == Before(h.at)
           s0 == h.stage
           n == Prompt + h.at
<1>2. /\ b \in Nat /\ n \in Nat /\ Len(kv[s0]) = b /\ b = (IF h.at = 0 THEN 0 ELSE Len(kv[s0]))
      /\ n = b + Count0(h) /\ b <= n /\ Count0(h) \in Nat /\ b = First0(h)
  BY <1>1, PrefixIs, Numbers DEF Before, Count0, First0
<1>3. Runs(h)
  BY DEF Runs
<1>4. IsSeq(kv[s0])
  BY <1>1 DEF Shapes, KVShaped
<1>5. /\ Sized(NewColumns(h), Count0(h))
      /\ \A j \in 1..Count0(h) : NewColumns(h)[j] = Col(Subject, s0, b + j - 1) /\ b + j - 1 \in Slot
  <2>1. /\ Sized(NewColumns(h), Count0(h)) /\ First0(h) = b
        /\ \A j \in 1..Count0(h) :
             /\ NewColumns(h)[j] = IF Runs(h) THEN Col(Subject, h.stage, First0(h) + j - 1)
                                   ELSE BadCol(h.stage)
             /\ Runs(h) => First0(h) + j - 1 \in Slot
    BY <1>1, <1>2, <1>4, NewColumnsAre
  <2> HIDE DEF b
  <2> QED
    BY <1>3, <2>1
<1> HIDE DEF b, n
<1>6. kv'[s0] = Prefix(s0, n)
  <2> DEFINE old == IF h.at = 0 THEN << >> ELSE kv[h.stage]
             new == old \o NewColumns(h)
  <2>1. IsSeq(old) /\ Len(old) = b /\ \A k \in 1..b : old[k] = Col(Subject, s0, k - 1)
    <3>1. CASE h.at = 0
      <4>1. b = 0
        BY <1>2, <3>1
      <4> QED
        BY <3>1, <4>1, EmptyIsSized
    <3>2. CASE h.at # 0
      <4>1. kv[s0] = Prefix(s0, b)
        BY DEF b
      <4> QED
        BY <1>2, <1>4, <3>2, <4>1, PrefixIs
    <3> QED
      BY <3>1, <3>2
  <2> HIDE DEF old
  <2>2. IsSeq(NewColumns(h)) /\ Len(NewColumns(h)) = Count0(h)
    BY <1>5, SizedIs
  <2>3. /\ IsSeq(new) /\ Len(new) = b + Count0(h)
        /\ \A k \in 1..(b + Count0(h)) : new[k] = IF k <= b THEN old[k] ELSE NewColumns(h)[k - b]
    BY <2>1, <2>2, ConcatIs
  <2> HIDE DEF new
  <2>4. Sized(new, n)
    BY <1>2, <2>3, IsSeqIs
  <2>5. ASSUME NEW k \in 1..n PROVE new[k] = Prefix(s0, n)[k]
    <3>1. Prefix(s0, n)[k] = Col(Subject, s0, k - 1)
      BY <1>2, PrefixIs
    <3>2. CASE k <= b
      <4>1. k \in 1..b
        BY <1>2, <3>2
      <4> QED
        BY <1>2, <2>1, <2>3, <3>1, <3>2, <4>1
    <3>3. CASE ~(k <= b)
      <4>1. k - b \in 1..Count0(h) /\ b + (k - b) - 1 = k - 1
        BY <1>2, <3>3
      <4>2. NewColumns(h)[k - b] = Col(Subject, s0, b + (k - b) - 1)
        BY <1>5, <4>1
      <4> QED
        BY <1>2, <2>3, <3>1, <3>3, <4>1, <4>2
    <3> QED
      BY <3>2, <3>3
  <2>6. new = Prefix(s0, n)
    BY <1>2, <2>4, <2>5, PrefixIs, SameSeq
  <2> QED
    BY <1>1, <2>6 DEF new, old
<1>7. CASE s0 = 1
  <2>1. pushes' = pushes
    BY <1>1, <1>7
  <2>2. RightPushes' <=> RightPushes
    BY <2>1, <1>1 DEF RightPushes, RightPush
  <2>3. \A s, j : Queued(s, j)' <=> Queued(s, j)
    BY <2>1 DEF Queued, QueuedOn, KVOf
  <2>4. PushedOnce'
    <3>1. \A s \in NonHead : kv'[s] = kv[s]
      BY <1>1, <1>7, Lengths
    <3>2. \A s, j : KeptIn(cache, s, j)' <=> KeptIn(cache, s, j)
      BY <1>1, KeptInNext
    <3>3. KeptOnce => KeptOnce'
      BY <2>3, <3>1, <3>2 DEF KeptOnce
    <3>4. Placed' <=> Placed
      BY <2>1 DEF Placed
    <3>5. QueuedOnce => QueuedOnce'
      <4>1. \A d \in Device : \A k \in DOMAIN pushes[d] : pushes[d][k].stage \in NonHead
        BY DEF Sorts, PushSorts, IsPush
      <4> QED
        BY <2>1, <3>1, <4>1 DEF QueuedOnce, KVOf
    <3> QED
      BY <1>1, <3>3, <3>4, <3>5 DEF PushedOnce
  <2> QED
    BY <1>3, <1>6, <2>2, <2>3, <2>4 DEF n
<1>8. CASE s0 # 1
  <2> DEFINE Q == Shipped(h)
             m == Count0(h)
             l == Len(pushes[h.dev])
  <2>1. Grew(h.dev, Q, m)
    BY <1>1, <1>8
  <2>2. \A k \in 1..m : /\ IsPush(Q[k]) /\ Q[k].kind = "kv" /\ Q[k].stage = s0 /\ Q[k].at = b + k - 1
                        /\ Q[k].col = Col(Subject, s0, b + k - 1) /\ b + k - 1 \in Slot
    <3>1. \A k \in 1..m : /\ IsPush(Q[k]) /\ Q[k].kind = "kv" /\ Q[k].stage = h.stage
                          /\ Q[k].at = First0(h) + k - 1 /\ Q[k].col = NewColumns(h)[k]
      BY <1>1, <1>4, <1>8, ShippedSorts
    <3> HIDE DEF Q
    <3> QED
      BY <1>2, <1>5, <3>1
  <2>3. m \in Nat /\ n = b + m
    BY <1>2
  <2> HIDE DEF Q, m
  <2>4. \A k \in 1..m : RightPush(Q[k])
    BY <2>2 DEF RightPush
  <2>5. /\ RightPushes /\ (\A k \in 1..m : RightPush(Q[k])) => RightPushes'
        /\ Placed /\ (\A k \in 1..m : h.dev = Placement[Q[k].stage]) => Placed'
        /\ \A s, j : Queued(s, j)' => Queued(s, j) \/ \E k \in 1..m : KVOf(Q[k], s, j)
    <3>1. \A k \in 1..m : IsPush(Q[k])
      BY <2>2
    <3> QED
      BY <1>1, <2>1, <3>1, GrewQueues
  <2>6. ASSUME NEW s, NEW j, NEW k \in 1..m, KVOf(Q[k], s, j)
        PROVE  s = s0 /\ ~(j < Len(kv[s]))
    <3>1. s = s0 /\ j = b + k - 1
      BY <2>2, <2>6 DEF KVOf
    <3>2. ~(b + k - 1 < b)
      BY <1>2, <2>3
    <3> QED
      BY <1>2, <3>1, <3>2
  <2>7. \A s, j : Queued(s, j)' => Queued(s, j) \/ (s = h.stage /\ ~(j < Len(kv[s])))
    BY <2>5, <2>6
  <2>8. PushedOnce'
    <3> SUFFICES ASSUME promoted = {} PROVE Placed' /\ QueuedOnce' /\ KeptOnce'
      BY <1>1 DEF PushedOnce
    <3>1. Placed /\ QueuedOnce /\ KeptOnce
      BY DEF PushedOnce
    <3>2. Placed'
      BY <2>2, <2>5, <3>1
    <3>3. \A s \in Stage : Len(kv[s]) \in Nat /\ Len(kv'[s]) \in Nat /\ Len(kv[s]) <= Len(kv'[s])
      <4>1. Len(kv'[s0]) = n
        BY <1>2, <1>6, PrefixIs
      <4>2. \A s \in Stage : Len(kv[s]) \in Nat
        BY IsSeqIs DEF Shapes, KVShaped
      <4>3. Len(kv[s0]) <= Len(kv'[s0]) /\ Len(kv'[s0]) \in Nat
        BY <1>2, <4>1
      <4>4. \A s \in Stage : s # s0 => Len(kv'[s]) = Len(kv[s])
        BY <1>1
      <4>5. \A s \in Stage : s # s0 => Len(kv[s]) <= Len(kv'[s])
        BY <4>2, <4>4
      <4> HIDE DEF s0
      <4> QED
        BY <4>2, <4>3, <4>4, <4>5
    <3>4. KeptOnce'
      <4>1. ASSUME NEW s \in NonHead, NEW j \in Nat, KeptIn(cache, s, j)
            PROVE  j < Len(kv'[s]) /\ ~Queued(s, j)'
        <5>1. j < Len(kv[s]) /\ ~Queued(s, j) /\ s \in Stage
          BY <3>1, <4>1, Lengths DEF KeptOnce
        <5> QED
          BY <2>7, <3>3, <5>1
      <4> QED
        BY <1>1, <4>1, KeptInNext DEF KeptOnce
    <3>5. QueuedOnce'
      <4> SUFFICES ASSUME NEW d \in Device, NEW u \in DOMAIN pushes'[d], pushes'[d][u].kind = "kv"
                   PROVE  /\ pushes'[d][u].at < Len(kv'[pushes'[d][u].stage])
                          /\ \A v \in DOMAIN pushes'[d] :
                               KVOf(pushes'[d][v], pushes'[d][u].stage, pushes'[d][u].at) => v = u
        BY DEF QueuedOnce, KVOf
      <4> DEFINE Old(v) == v \in DOMAIN pushes[d] /\ pushes'[d][v] = pushes[d][v]
                 New(v) == d = h.dev /\ v \in Nat /\ v - l \in 1..m /\ pushes'[d][v] = Q[v - l]
      <4>1. \A v \in DOMAIN pushes'[d] : Old(v) \/ New(v)
        BY <2>1 DEF Grew
      <4>2. \A v : Old(v) => /\ pushes[d][v].stage \in Stage
                             /\ pushes'[d][v].kind = "kv" =>
                                  /\ pushes[d][v].at \in Nat
                                  /\ pushes[d][v].at < Len(kv[pushes[d][v].stage])
        <5> TAKE v
        <5> HAVE Old(v)
        <5>1. IsPush(pushes[d][v])
          BY DEF Sorts, PushSorts
        <5>2. pushes[d][v].stage \in Stage /\ (pushes[d][v].kind = "kv" => pushes[d][v].at \in Nat)
          BY <5>1, Lengths DEF IsPush, IsMirror, Mirror, IsKVPush
        <5>3. pushes[d][v].kind = "kv" => pushes[d][v].at < Len(kv[pushes[d][v].stage])
          BY <3>1 DEF QueuedOnce
        <5> QED
          BY <5>2, <5>3
      <4>3. \A v : New(v) => /\ pushes'[d][v].stage = s0 /\ pushes'[d][v].at = b + (v - l) - 1
        BY <2>2
      <4>4. l \in Nat \/ d # h.dev
        <5>1. d = h.dev => IsSeq(pushes[h.dev])
          BY DEF Shapes, PushesShaped, QueueShaped
        <5> QED
          BY <5>1, IsSeqIs
      <4> HIDE DEF l, Q
      <4>5. CASE Old(u)
        <5>1. pushes'[d][u].at < Len(kv'[pushes'[d][u].stage])
          BY <3>3, <4>2, <4>5
        <5>2. ASSUME NEW v \in DOMAIN pushes'[d], KVOf(pushes'[d][v], pushes'[d][u].stage, pushes'[d][u].at)
              PROVE  v = u
          <6>1. CASE Old(v)
            BY <3>1, <4>5, <5>2, <6>1 DEF QueuedOnce
          <6>2. CASE New(v)
            <7>1. pushes[d][u].stage = s0 /\ pushes[d][u].at = b + (v - l) - 1
              BY <4>3, <4>5, <5>2, <6>2 DEF KVOf
            <7>2. pushes[d][u].at < b
              BY <1>2, <4>2, <4>5, <7>1
            <7>3. \A w \in 1..m : ~(b + w - 1 < b)
              BY <1>2, <2>3
            <7> QED
              BY <6>2, <7>1, <7>2, <7>3
          <6> QED
            BY <4>1, <6>1, <6>2
        <5> QED
          BY <5>1, <5>2
      <4>6. CASE New(u)
        <5>1. pushes'[d][u].stage = s0 /\ pushes'[d][u].at = b + (u - l) - 1
          BY <4>3, <4>6
        <5>2. pushes'[d][u].at < Len(kv'[pushes'[d][u].stage])
          <6>1. Len(kv'[s0]) = n
            BY <1>2, <1>6, PrefixIs
          <6>2. PICK k \in 1..m : k = u - l
            BY <4>6
          <6>3. pushes'[d][u].stage = s0 /\ pushes'[d][u].at = b + k - 1
            BY <5>1, <6>2
          <6>4. b + k - 1 < n
            BY <1>2, <2>3
          <6> QED
            BY <6>1, <6>3, <6>4
        <5>3. ASSUME NEW v \in DOMAIN pushes'[d], KVOf(pushes'[d][v], pushes'[d][u].stage, pushes'[d][u].at)
              PROVE  v = u
          <6>1. CASE Old(v)
            <7>1. pushes[d][v].stage = s0 /\ pushes[d][v].at = b + (u - l) - 1 /\ pushes'[d][v].kind = "kv"
              BY <5>1, <5>3, <6>1 DEF KVOf
            <7>2. pushes[d][v].at < b
              BY <1>2, <4>2, <6>1, <7>1
            <7>3. \A w \in 1..m : ~(b + w - 1 < b)
              BY <1>2, <2>3
            <7> QED
              BY <4>6, <7>1, <7>2, <7>3
          <6>2. CASE New(v)
            <7>1. b + (v - l) - 1 = b + (u - l) - 1
              BY <4>3, <5>1, <5>3, <6>2 DEF KVOf
            <7>2. l \in Nat /\ u \in Nat /\ v \in Nat /\ b \in Nat
              BY <1>2, <2>3, <4>4, <4>6, <6>2
            <7> QED
              BY <7>1, <7>2
          <6> QED
            BY <4>1, <6>1, <6>2
        <5> QED
          BY <5>2, <5>3
      <4> QED
        BY <4>1, <4>5, <4>6
    <3> QED
      BY <3>2, <3>4, <3>5
  <2> QED
    BY <1>3, <1>6, <2>4, <2>5, <2>7, <2>8 DEF n
<1> QED
  BY <1>7, <1>8

-----------------------------------------------------------------------------
(* What stays of the phases.                                                *)

\* A step that neither runs a stage nor pushes anything.
LEMMA StillKeeps ==
  ASSUME Sorts, Contents, PushedOnce, UNCHANGED <<mode, crashed, promoted, kv, pushes, cache, history>>,
         Right' => Right, \A i \in Handlers : UnderWay(chain'[i]) => chain'[i].dev \notin crashed
  PROVE  /\ Sorts' /\ Contents' /\ PushedOnce' /\ KeptStay
         /\ \A s, j : Queued(s, j)' <=> Queued(s, j)
<1>1. Sorts'
  BY DEF Sorts, KVSorts, PushSorts, IsPush, IsMirror, IsKVPush, GoneIdle, HistorySorts, UnderWay
<1>2. Contents'
  <2>1. RightIn(cache)' <=> RightIn(cache)
    BY RightInNext
  <2>2. (RightPushes' <=> RightPushes) /\ (RightHistory' <=> RightHistory)
    BY DEF RightPushes, RightHistory
  <2> QED
    BY <2>1, <2>2 DEF Contents
<1>3. \A s, j : Queued(s, j)' <=> Queued(s, j)
  BY DEF Queued, QueuedOn, KVOf
<1>4. PushedOnce'
  <2>1. (Placed' <=> Placed) /\ (QueuedOnce' <=> QueuedOnce)
    BY DEF Placed, QueuedOnce, KVOf
  <2>2. \A s, j : KeptIn(cache, s, j)' <=> KeptIn(cache, s, j)
    BY KeptInNext
  <2>3. KeptOnce => KeptOnce'
    BY <1>3, <2>2 DEF KeptOnce
  <2> QED
    BY <2>1, <2>3 DEF PushedOnce
<1>5. KeptStay
  BY LostItems
<1> QED
  BY <1>1, <1>2, <1>3, <1>4, <1>5

\* A recovery that others disturb.
LEMMA RecoveringStays ==
  ASSUME NEW f \in NonHead, Shapes, Recovering(f),
         UNCHANGED <<mode, crashed, injected, late, dead, plan, promoted, next_hop, job>>,
         chain'["call"].st = "idle", kv'[f] = kv[f],
         \A s \in Stage : Len(kv[s]) \in Nat /\ Len(kv'[s]) \in Nat /\ Len(kv[s]) <= Len(kv'[s]),
         KeptStay, \A s, j : Queued(s, j)' => Queued(s, j) \/ (s # f /\ ~(j < Len(kv[s]))),
         \A s \in Stage, p \in Position : history[s][p] = "good" => history'[s][p] = "good",
         \E e \in 0..N : Stopped(f, e, IF Promoted THEN Stage \ {f} ELSE Stage)'
  PROVE  Recovering(f)'
<1>0. f \in Stage /\ NonHead \subseteq Stage /\ job.pos \in Position /\ job.n \in Nat /\ job.k \in Nat
  BY Lengths DEF Shapes, JobShaped
<1>1. Promoted' <=> Promoted
  BY DEF Promoted
<1>2. RecoveryAt(f)'
  <2>1. RecoveryAt(f)
    BY DEF Recovering
  <2> QED
    BY <1>1, <2>1 DEF RecoveryAt, Down
<1>3. ASSUME mode # "replicate", NEW j \in Nat, Whole(f, j) PROVE Whole(f, j)'
  <2>1. ASSUME NEW s \in NonHead
        PROVE  ~Queued(s, j)' /\ ~Queued(s, j) /\ (s # f \/ promoted' = {} => j < Len(kv'[s]))
    <3>1. ~Queued(s, j) /\ (s # f \/ promoted = {} => j < Len(kv[s])) /\ s \in Stage
      BY <1>0, <1>3 DEF Whole
    <3> QED
      BY <3>1
  <2>2. Holds(cache', Subject, j) => cache'.items[Subject][j].contributors = NonHead
    BY <1>3, <2>1 DEF Whole, KeptStay
  <2> QED
    BY <2>1, <2>2 DEF Whole, Holds
<1>4. mode # "replicate" /\ ParityStep(f) => ParityStep(f)'
  <2> SUFFICES ASSUME mode # "replicate", ParityStep(f) PROVE ParityStep(f)'
    OBVIOUS
  <2>1. job.pc # "fetch" => \A j \in 0..((IF job.pc = "gate" THEN job.k ELSE job.n) - 1) : Whole(f, j)'
    <3>1. \A j \in 0..((IF job.pc = "gate" THEN job.k ELSE job.n) - 1) : j \in Nat
      BY <1>0
    <3> QED
      BY <1>3, <3>1 DEF ParityStep
  <2>2. \A s : FetchedFrom(f, s)' <=> FetchedFrom(f, s)
    BY DEF FetchedFrom, Sizes, After
  <2>3. /\ job'.pc # "read"
        /\ job'.pc # "load" => /\ DOMAIN job'.got = NonHead \ {f}
                               /\ \A s \in NonHead \ {f} :
                                    (job'.pc = "fetch" /\ job'.got[s] = << >>) \/ FetchedFrom(f, s)'
        /\ job'.pc = "gate" => /\ job'.n \in Sizes' /\ job'.k < job'.n
                               /\ (~late' /\ f < N) => job'.n = Before(job'.pos)
        /\ job'.pc = "rebuild" => job'.k \in 1..(job'.n + 1) /\ job'.recon = <<Prefix(f, job'.k - 1)>>
    BY <2>2 DEF ParityStep, Sizes, After
  <2>4. job'.pc # "fetch" => \A j \in 0..((IF job'.pc = "gate" THEN job'.k ELSE job'.n) - 1) : Whole(f, j)'
    BY <2>1
  <2> HIDE <2>1
  <2> QED
    BY <2>3, <2>4 DEF ParityStep
<1>5. mode = "replicate" /\ ReplicaStep(f) => ReplicaStep(f)'
  <2> SUFFICES ASSUME mode = "replicate", ReplicaStep(f) PROVE ReplicaStep(f)'
    OBVIOUS
  <2>1. Buffered(f)' <=> Buffered(f)
    BY DEF Buffered
  <2>2. job.pc = "read" => /\ job.n = Before(job.pos) /\ job.n >= 1 /\ job.n <= Len(kv'[f])
                           /\ \A j \in Nat : ~Queued(f, j)'
                           /\ \/ StoredSlots(cache', Subject, f) = {}
                              \/ 0..(job.n - 1) \subseteq StoredSlots(cache', Subject, f)
    BY DEF ReplicaStep, KeptStay
  <2> QED
    BY <2>1, <2>2 DEF ReplicaStep, StoredSlots
<1>6. Agreed(f) => Agreed(f)'
  BY <1>1 DEF Agreed, Sizes, After
<1>7. /\ job'.pc \in {"promote", "rebuild", "load"} => history'[f][job'.pos] = "good"
      /\ job'.pc = "promote" => job'.k \in {1, 2}
      /\ job'.pc = "load" => /\ job'.k \in {1, 2} /\ job'.recon = <<Prefix(f, job'.n)>>
                             /\ job'.k = 2 => kv'[f] = Prefix(f, job'.n)
  BY <1>0 DEF Recovering
<1> QED
  BY <1>2, <1>4, <1>5, <1>6, <1>7 DEF Recovering

LEMMA QuietPhases ==
  ASSUME Shapes, Phases, Quiet, PushedOnce'
  PROVE  Phases'
<1>1. Aside
  BY DEF Quiet
<1>2. Fresh => Fresh'
  BY <1>1 DEF Aside, Fresh, Going, NoOrphan, KVAt, OnItsWay, After
<1>3. ASSUME NEW f \in NonHead, Noticed(f) PROVE Noticed(f)'
  BY <1>1, <1>3 DEF Aside, Noticed, Down, Stopped, NoOrphan, KVAt, OnItsWay, After
<1>4. ASSUME NEW f \in NonHead, Recovered(f) PROVE Recovered(f)'
  BY <1>1, <1>4 DEF Aside, Recovered, Down, Going, NoOrphan, KVAt, OnItsWay, After, AtMostTwice, Todo
<1>5. ASSUME NEW f \in NonHead, Recovering(f) PROVE Recovering(f)'
  <2>1. \A s \in Stage : Len(kv[s]) \in Nat
    BY IsSeqIs DEF Shapes, KVShaped
  <2>2. /\ UNCHANGED <<mode, crashed, injected, late, dead, plan, promoted, next_hop, job>>
        /\ UNCHANGED kv /\ UNCHANGED chain
    BY <1>1 DEF Aside
  <2>3. chain["call"].st = "idle" /\ \E e \in 0..N : Stopped(f, e, IF Promoted THEN Stage \ {f} ELSE Stage)
    BY <1>5 DEF Recovering, RecoveryAt
  <2>4. \E e \in 0..N : Stopped(f, e, IF Promoted THEN Stage \ {f} ELSE Stage)'
    BY <2>2, <2>3 DEF Stopped, NoOrphan, KVAt, OnItsWay, After, Promoted
  <2>5. \A s \in Stage : Len(kv[s]) \in Nat /\ Len(kv'[s]) \in Nat /\ Len(kv[s]) <= Len(kv'[s])
    BY <2>1, <2>2
  <2>6. /\ KeptStay /\ \A s, j : Queued(s, j)' => Queued(s, j) \/ (s # f /\ ~(j < Len(kv[s])))
        /\ \A s \in Stage, p \in Position : history[s][p] = "good" => history'[s][p] = "good"
    BY DEF Quiet
  <2> QED
    BY <1>5, <2>2, <2>3, <2>4, <2>5, <2>6, RecoveringStays
<1> QED
  BY <1>2, <1>3, <1>4, <1>5 DEF Phases

-----------------------------------------------------------------------------
(* Who serves.                                                              *)

LEMMA PlanOfNobody == PlanOf({}) = Placement
<1>1. Viable(Placement, Recovery, {})
  BY NobodyDead
<1>2. build_execution_plan(Placement, Recovery, {}) = Placement
  BY Lengths DEF build_execution_plan, Serving
<1> QED
  BY <1>1, <1>2 DEF PlanOf

LEMMA PlanOfOne ==
  ASSUME NEW f \in NonHead, Viable(Placement, Recovery, {Placement[f]})
  PROVE  /\ PlanOf({Placement[f]}) = build_execution_plan(Placement, Recovery, {Placement[f]})
         /\ PlanOf({Placement[f]})[f] = Recovery[Placement[f]]
         /\ Recovery[Placement[f]] \in Device /\ Recovery[Placement[f]] # Placement[f]
         /\ \A s \in Stage : s # f => PlanOf({Placement[f]})[s] = Placement[s] /\ Placement[s] # Placement[f]
<1>1. f \in Stage /\ DOMAIN Placement = Stage /\ Placement[f] \in Device
  BY Lengths
<1>2. PlanOf({Placement[f]}) = build_execution_plan(Placement, Recovery, {Placement[f]})
  BY DEF PlanOf
<1>3. Recovery[Placement[f]] \in Device /\ Recovery[Placement[f]] # Placement[f]
  BY <1>1, Lengths DEF Viable, MaybeDevice
<1>4. \A s \in Stage : s # f => Placement[s] # Placement[f]
  BY <1>1, Lengths
<1> QED
  BY <1>1, <1>2, <1>3, <1>4 DEF build_execution_plan, Serving

LEMMA PlanOfType ==
  ASSUME NEW D
  PROVE  PlanOf(D) \in [Stage -> Device]
<1>1. Placement \in Placements /\ Recovery \in RecoveryTable /\ Stage = 1..Len(Placement)
  BY KVAssumption DEF Stage, N
<1> QED
  BY <1>1, ViablePlanStages, Lengths DEF PlanOf

LEMMA DownIs ==
  ASSUME Marks, NEW f \in NonHead, Down(f)
  PROVE  /\ crashed = {Placement[f]} \/ crashed = {}
         /\ injected = 1 => crashed = {}
         /\ injected # 1 => crashed = {Placement[f]}
         /\ late => crashed = {Placement[f]}
<1>1. injected = 1 => crashed = {}
  BY DEF Marks
<1>2. late => crashed # {}
  BY DEF Marks
<1> QED
  BY <1>1, <1>2 DEF Down

\* The chain of the plan after one worker has gone.
LEMMA PlanServes ==
  ASSUME Marks, NEW f \in NonHead, Down(f), dead = {Placement[f]}, Viable(Placement, Recovery, dead),
         promoted = {f}
  PROVE  \A s \in Stage : Serves(plan[s], s)
<1>1. crashed \subseteq {Placement[f]}
  BY DownIs
<1>2. plan = PlanOf({Placement[f]})
  BY DEF Marks
<1> TAKE s \in Stage
<1>3. CASE s = f
  BY <1>1, <1>2, <1>3, PlanOfOne DEF Serves
<1>4. CASE s # f
  BY <1>1, <1>2, <1>4, PlanOfOne DEF Serves
<1> QED
  BY <1>3, <1>4

-----------------------------------------------------------------------------
(* A handler calls the next one.                                            *)

Onward(h) == [h EXCEPT !.st = "arrived", !.stage = @ + 1, !.dev = next_hop[h.stage + 1]]
Answered(h) == [h EXCEPT !.st = "ok"]

LEMMA OnwardIs ==
  ASSUME Shapes, NEW h \in HandlerType, h.stage < N
  PROVE  /\ Onward(h) \in HandlerType /\ Onward(h).st = "arrived" /\ Onward(h).stage = h.stage + 1
         /\ h.stage + 1 \in NonHead /\ h.stage + 1 \in Stage
         /\ Onward(h).dev = next_hop[h.stage + 1] /\ Onward(h).at = h.at /\ Onward(h).good = h.good
         /\ Onward(h).from = h.from /\ Onward(h).blame = h.blame
<1>1. h.stage \in 1..N /\ N \in Nat
  BY Lengths DEF HandlerType
<1>2. h.stage + 1 \in NonHead /\ h.stage + 1 \in Stage
  BY <1>1, Lengths
<1>3. next_hop[h.stage + 1] \in MaybeDevice
  BY <1>2 DEF Shapes
<1> QED
  BY <1>1, <1>2, <1>3 DEF HandlerType, Onward

LEMMA AnsweredIs ==
  ASSUME NEW h \in HandlerType
  PROVE  /\ Answered(h) \in HandlerType /\ Answered(h).st = "ok" /\ Answered(h).stage = h.stage
         /\ Answered(h).dev = h.dev /\ Answered(h).at = h.at /\ Answered(h).good = h.good
         /\ Answered(h).from = h.from /\ Answered(h).blame = h.blame
  BY DEF HandlerType, Answered

LEMMA ForwardIs ==
  ASSUME Shapes, Marks, Sorts, Contents, PushedOnce, NEW i \in Handlers, Forward(i), NEW h, h = chain[i]
  PROVE  /\ h \in HandlerType /\ h.st = "ran" /\ h.stage \in Stage
         /\ UNCHANGED <<mode, crashed, next_hop, promoted, kv, dead, plan, cache, history, job, injected, late>>
         /\ \/ h.stage < N /\ Reached(i, Onward(h))
            \/ h.stage = N /\ chain' = [chain EXCEPT ![i] = IF i = "call" THEN Answered(h) ELSE Idle]
         /\ Sorts' /\ PushedOnce' /\ KeptStay
         /\ h.good \/ ~Right => Contents'
         /\ \A s, j : Queued(s, j)' <=> Queued(s, j)
<1>1. /\ h \in HandlerType /\ h.st = "ran" /\ DOMAIN chain = Handlers
      /\ UNCHANGED <<mode, crashed, next_hop, promoted, kv, dead, plan, cache, history, job, injected, late>>
      /\ h.stage < N => Reach(i, Onward(h))
      /\ ~(h.stage < N) => /\ chain' = [chain EXCEPT ![i] = IF i = "call" THEN Answered(h) ELSE Idle]
                           /\ pushes' = pushes
  BY DEF Forward, Shapes, ChainShaped, gateway, bounds, Onward, Answered
<1>2. h.stage \in 1..N /\ N \in Nat /\ h.stage \in Stage
  BY <1>1, Lengths DEF HandlerType
<1>3. KeptStay
  BY <1>1, LostItems
<1>4. Right' <=> Right
  BY <1>1 DEF Right
<1>5. CASE h.stage < N
  <2> DEFINE t == Onward(h)
  <2>1. t \in HandlerType /\ t.st = "arrived" /\ t.good = h.good
    BY <1>1, <1>5, OnwardIs
  <2>2. Reach(i, t)
    BY <1>1, <1>5
  <2> HIDE DEF t
  <2>3. /\ Reached(i, t) /\ Sorts' /\ PushedOnce'
        /\ RightPushes /\ (t.good \/ ~Serves(t.dev, t.stage)) => RightPushes'
        /\ \A s, j : Queued(s, j)' <=> Queued(s, j)
    BY <1>1, <2>1, <2>2, ReachIs
  <2>4. h.good \/ ~Right => Contents'
    <3>1. RightIn(cache)' <=> RightIn(cache)
      BY <1>1, RightInNext
    <3>2. RightHistory' <=> RightHistory
      BY <1>1 DEF RightHistory
    <3>3. RightPushes /\ h.good => RightPushes'
      BY <2>1, <2>3
    <3> QED
      BY <1>4, <3>1, <3>2, <3>3 DEF Contents
  <2> QED
    BY <1>1, <1>2, <1>3, <1>5, <2>3, <2>4 DEF t
<1>6. CASE ~(h.stage < N)
  <2>1. h.stage = N
    BY <1>2, <1>6
  <2>2. ASSUME NEW n \in Handlers, UnderWay(chain'[n]) PROVE chain'[n].dev \notin crashed
    <3>1. ~UnderWay(Answered(h)) /\ ~UnderWay(Idle)
      BY <1>1, AnsweredIs, IdleType DEF UnderWay
    <3>2. chain'[n] = chain[n] \/ chain'[n] = Answered(h) \/ chain'[n] = Idle
      BY <1>1, <1>6
    <3>3. chain'[n] = chain[n]
      BY <2>2, <3>1, <3>2
    <3> QED
      BY <2>2, <3>3 DEF Sorts, GoneIdle
  <2>3. /\ Sorts' /\ Contents' /\ PushedOnce'
        /\ \A s, j : Queued(s, j)' <=> Queued(s, j)
    BY <1>1, <1>4, <1>6, <2>2, StillKeeps
  <2> QED
    BY <1>1, <1>2, <1>3, <1>6, <2>1, <2>3
<1> QED
  BY <1>5, <1>6

\* A handler that runs the stage over a cache that is right.
WellRun(i, h) ==
  /\ h \in HandlerType /\ h.st = "arrived" /\ h.stage \in Stage /\ h.at \in Position
  /\ UNCHANGED <<mode, crashed, next_hop, promoted, dead, plan, cache, history, job, injected, late>>
  /\ chain' = [chain EXCEPT ![i] = Ran(h)] /\ Ran(h).good
  /\ \A s \in Stage : s # h.stage => kv'[s] = kv[s]
  /\ kv'[h.stage] = Prefix(h.stage, Prompt + h.at)
  /\ \A s \in Stage : Len(kv[s]) \in Nat /\ Len(kv'[s]) \in Nat /\ Len(kv[s]) <= Len(kv'[s])
  /\ Sorts' /\ Contents' /\ PushedOnce' /\ KeptStay
  /\ \A s, j : Queued(s, j)' => Queued(s, j) \/ (s = h.stage /\ ~(j < Len(kv[s])))

LEMMA RunsWell ==
  ASSUME Shapes, Marks, Sorts, Contents, PushedOnce, NEW i \in Handlers, Run(i), NEW h, h = chain[i],
         h.good, kv[h.stage] = Prefix(h.stage, Before(h.at)), promoted = {} => h.dev = Placement[h.stage]
  PROVE  WellRun(i, h)
<1>1. /\ h \in HandlerType /\ h.st = "arrived" /\ h.stage \in Stage /\ h.at \in Position
      /\ UNCHANGED <<mode, crashed, next_hop, promoted, dead, plan, cache, history, job, injected, late>>
      /\ chain' = [chain EXCEPT ![i] = Ran(h)]
      /\ \A s \in Stage : s # h.stage => kv'[s] = kv[s]
      /\ Sorts'
  BY RunIs
<1>2. /\ Runs(h) /\ kv'[h.stage] = Prefix(h.stage, Prompt + h.at)
      /\ RightPushes => RightPushes'
      /\ \A s, j : Queued(s, j)' => Queued(s, j) \/ (s = h.stage /\ ~(j < Len(kv[s])))
      /\ PushedOnce'
  BY RunRight
<1>3. Ran(h).good
  BY <1>1, <1>2, RanIs
<1>4. Contents'
  <2>1. RightIn(cache)' <=> RightIn(cache)
    BY <1>1, RightInNext
  <2>2. (RightHistory' <=> RightHistory) /\ (Right' <=> Right)
    BY <1>1 DEF RightHistory, Right
  <2> QED
    BY <1>2, <2>1, <2>2 DEF Contents
<1>5. KeptStay
  BY <1>1, LostItems
<1>6. \A s \in Stage : Len(kv[s]) \in Nat /\ Len(kv'[s]) \in Nat /\ Len(kv[s]) <= Len(kv'[s])
  <2> TAKE s \in Stage
  <2>1. Len(kv[s]) \in Nat
    BY IsSeqIs DEF Shapes, KVShaped
  <2>2. CASE s # h.stage
    BY <1>1, <2>1, <2>2
  <2>3. CASE s = h.stage
    <3>0. Before(h.at) \in Nat /\ Prompt + h.at \in Nat
      BY <1>1, Numbers
    <3>1. Len(kv[s]) = Before(h.at) /\ Len(kv'[s]) = Prompt + h.at
      BY <1>2, <2>3, <3>0, PrefixIs
    <3> QED
      BY <1>1, <2>1, <3>1, Numbers DEF Before
  <2> QED
    BY <2>2, <2>3
<1> QED
  BY <1>1, <1>2, <1>3, <1>4, <1>5, <1>6 DEF WellRun

\* What an abandoned handler does.
LEMMA OrphanMoves ==
  ASSUME Shapes, Marks, Sorts, Contents, PushedOnce, NEW f \in NonHead, NEW e \in 0..N,
         NEW S, S \in {Stage, Stage \ {f}}, Stopped(f, e, S), promoted = {} => next_hop = Placement,
         Run("orphan") \/ Forward("orphan"), Outer
  PROVE  /\ UNCHANGED <<mode, crashed, next_hop, promoted, dead, plan, cache, history, job, injected, late>>
         /\ Sorts' /\ Contents' /\ PushedOnce' /\ KeptStay /\ Outer'
         /\ kv'[f] = kv[f] /\ chain'["call"] = chain["call"]
         /\ \A s \in Stage : Len(kv[s]) \in Nat /\ Len(kv'[s]) \in Nat /\ Len(kv[s]) <= Len(kv'[s])
         /\ \A s, j : Queued(s, j)' => Queued(s, j) \/ (s # f /\ ~(j < Len(kv[s])))
         /\ \E e2 \in 0..N : Stopped(f, e2, S)'
<1>z. PICK h : h = chain["orphan"]
  OBVIOUS
<1>0. /\ "orphan" \in Handlers /\ DOMAIN chain = Handlers /\ h \in HandlerType /\ f \in Stage
      /\ f \in Nat /\ N \in Nat /\ N > 2 /\ Stage = 1..N /\ job.pos \in Position /\ h = chain["orphan"]
  BY <1>z, Lengths DEF Handlers, Shapes, ChainShaped, JobShaped
<1>1. /\ UnderWay(h) /\ OnItsWay(h) /\ h.stage > f /\ e = Passed(h) /\ KVAt(e, S)
      /\ h.stage \in Stage /\ h.stage \in S /\ h.at = job.pos /\ h.good /\ h.dev = next_hop[h.stage]
      /\ h.from <= h.stage
  <2>1. h.st # "idle" /\ h.stage \in Stage
    BY <1>0 DEF Run, Forward, HandlerType
  <2>2. ~NoOrphan
    BY <1>0, <2>1 DEF NoOrphan
  <2>3. h.stage > f => h.stage # f
    BY <1>0, <2>1
  <2> QED
    BY <1>0, <2>1, <2>2, <2>3 DEF Stopped, OnItsWay
<1>2. late
  BY <1>1, <1>0 DEF Stopped, NoOrphan, UnderWay
<1>3. \A s \in Stage : Len(kv[s]) \in Nat
  BY IsSeqIs DEF Shapes, KVShaped
<1>4. CASE Run("orphan")
  <2>1. h.st = "arrived"
    BY <1>0, <1>4 DEF Run
  <2>2. e = h.stage - 1 /\ kv[h.stage] = Prefix(h.stage, Before(h.at))
    <3>1. e = h.stage - 1
      BY <1>1, <2>1 DEF Passed
    <3>2. ~(h.stage <= e)
      BY <1>0, <1>1, <3>1
    <3> QED
      BY <1>1, <3>1, <3>2 DEF KVAt
  <2>3. promoted = {} => h.dev = Placement[h.stage]
    BY <1>1
  <2>4. /\ UNCHANGED <<mode, crashed, next_hop, promoted, dead, plan, cache, history, job, injected, late>>
        /\ chain' = [chain EXCEPT !["orphan"] = Ran(h)] /\ Ran(h).good
        /\ \A s \in Stage : s # h.stage => kv'[s] = kv[s]
        /\ kv'[h.stage] = Prefix(h.stage, Prompt + h.at)
        /\ \A s \in Stage : Len(kv[s]) \in Nat /\ Len(kv'[s]) \in Nat /\ Len(kv[s]) <= Len(kv'[s])
        /\ Sorts' /\ Contents' /\ PushedOnce' /\ KeptStay
        /\ \A s, j : Queued(s, j)' => Queued(s, j) \/ (s = h.stage /\ ~(j < Len(kv[s])))
    <3>1. WellRun("orphan", h)
      BY <1>0, <1>1, <1>4, <2>2, <2>3, RunsWell
    <3> QED
      BY <3>1 DEF WellRun
  <2>5. /\ Ran(h).st = "ran" /\ Ran(h).stage = h.stage /\ Ran(h).dev = h.dev /\ Ran(h).at = h.at
        /\ Ran(h).from = h.from /\ Ran(h).blame = h.blame
    BY <1>0, RanIs
  <2>6. chain'["call"] = chain["call"] /\ chain'["orphan"] = Ran(h)
    BY <1>0, <2>4 DEF Handlers
  <2>e. PICK e2 \in 0..N : e2 = h.stage
    BY <1>0, <1>1
  <2>7. ASSUME NEW s \in S
        PROVE  kv'[s] = Prefix(s, IF s <= e2 THEN After(job.pos) ELSE Before(job.pos))
    <3>0. s \in Stage
      BY <1>0
    <3>1. CASE s = h.stage
      <4>1. s <= e2
        BY <1>0, <2>e, <3>1
      <4> QED
        BY <1>1, <2>4, <3>1, <4>1 DEF After
    <3>2. CASE s # h.stage
      <4>1. kv'[s] = kv[s]
        BY <2>4, <3>0, <3>2
      <4>2. s <= e <=> s <= e2
        BY <1>0, <1>1, <2>2, <2>e, <3>0, <3>2
      <4>3. kv[s] = Prefix(s, IF s <= e THEN After(job.pos) ELSE Before(job.pos))
        BY <1>1 DEF KVAt
      <4> QED
        BY <4>1, <4>2, <4>3
    <3> QED
      BY <3>1, <3>2
  <2>8. Stopped(f, e2, S)'
    <3>1. e2 \in 0..N /\ e2 >= f - 1 /\ e2 >= f
      BY <1>0, <1>1, <2>e
    <3>2. UnderWay(chain["orphan"])' /\ e2 = Passed(chain["orphan"])' /\ chain'["orphan"].stage > f
      BY <1>1, <2>5, <2>6, <2>e DEF UnderWay, Passed
    <3>3. OnItsWay(chain["orphan"])'
      BY <1>1, <2>4, <2>5, <2>6 DEF OnItsWay
    <3>4. KVAt(e2, S)'
      BY <2>4, <2>7 DEF KVAt, After
    <3> QED
      BY <1>2, <2>4, <3>1, <3>2, <3>3, <3>4 DEF Stopped
  <2>9. Outer'
    <3>1. \A s \in Stage : Len(kv'[s]) <= Prompt + MaxTokens + 1
      <4>1. Prompt + h.at <= Prompt + MaxTokens + 1 /\ Prompt + h.at \in Nat
        BY <1>0, <1>1, Numbers
      <4>2. Len(kv'[h.stage]) <= Prompt + MaxTokens + 1
        BY <2>4, <4>1, PrefixIs
      <4> QED
        BY <2>4, <4>2 DEF Outer
    <3>2. \A i \in Handlers : chain'[i].blame \in {0} \cup NonHead
      BY <1>0, <2>4, <2>5, <2>6 DEF Outer, Handlers
    <3> QED
      BY <2>4, <3>1, <3>2 DEF Outer
  <2>10. h.stage # f
    BY <1>0, <1>1
  <2>11. kv'[f] = kv[f] /\ \A s, j : Queued(s, j)' => Queued(s, j) \/ (s # f /\ ~(j < Len(kv[s])))
    BY <1>0, <2>4, <2>10
  <2> QED
    BY <2>4, <2>6, <2>8, <2>9, <2>11
<1>5. CASE Forward("orphan")
  <2>1. /\ h.st = "ran"
        /\ UNCHANGED <<mode, crashed, next_hop, promoted, kv, dead, plan, cache, history, job, injected, late>>
        /\ \/ h.stage < N /\ Reached("orphan", Onward(h))
           \/ h.stage = N /\ chain' = [chain EXCEPT !["orphan"] = Idle]
        /\ Sorts' /\ PushedOnce' /\ KeptStay
        /\ h.good \/ ~Right => Contents'
        /\ \A s, j : Queued(s, j)' <=> Queued(s, j)
    BY <1>0, <1>5, ForwardIs
  <2>2. e = h.stage
    BY <1>1, <2>1 DEF Passed
  <2>3. \/ chain' = [chain EXCEPT !["orphan"] = Idle]
        \/ h.stage < N /\ chain' = [chain EXCEPT !["orphan"] = Onward(h)]
    BY <2>1 DEF Reached
  <2>4. chain'["call"] = chain["call"]
    BY <1>0, <2>3 DEF Handlers
  <2>5. KVAt(e, S)'
    BY <1>1, <2>1 DEF KVAt, After
  <2>6. Stopped(f, e, S)' /\ chain'["orphan"].blame \in {0} \cup NonHead
    <3>1. e \in 0..N /\ e >= f - 1 /\ e >= f
      BY <1>0, <1>1, <2>2
    <3>2. CASE chain' = [chain EXCEPT !["orphan"] = Idle]
      <4>1. chain'["orphan"] = Idle /\ Idle.st = "idle" /\ Idle.blame = 0
        BY <1>0, <3>2 DEF Idle
      <4>2. NoOrphan'
        BY <4>1 DEF NoOrphan
      <4> QED
        BY <1>2, <2>1, <2>5, <3>1, <4>1, <4>2 DEF Stopped
    <3>3. CASE h.stage < N /\ chain' = [chain EXCEPT !["orphan"] = Onward(h)]
      <4> DEFINE t == Onward(h)
      <4>1. /\ t.st = "arrived" /\ t.stage = h.stage + 1 /\ t.dev = next_hop[h.stage + 1] /\ t.at = h.at
            /\ t.good = h.good /\ t.from = h.from /\ t.blame = h.blame
        BY <1>0, <3>3, OnwardIs
      <4>2. chain'["orphan"] = t
        BY <1>0, <3>3
      <4> HIDE DEF t
      <4>3. UnderWay(chain["orphan"])' /\ e = Passed(chain["orphan"])' /\ chain'["orphan"].stage > f
        BY <1>0, <1>1, <2>2, <4>1, <4>2 DEF UnderWay, Passed
      <4>4. h.from \in Stage
        BY <1>0 DEF HandlerType
      <4>7. h.from <= h.stage + 1
        BY <1>0, <1>1, <4>4
      <4>5. OnItsWay(chain["orphan"])'
        BY <1>1, <2>1, <4>1, <4>2, <4>7 DEF OnItsWay
      <4>6. t.blame \in {0} \cup NonHead
        BY <1>0, <4>1 DEF Outer
      <4> QED
        BY <1>2, <2>1, <2>5, <3>1, <4>2, <4>3, <4>5, <4>6 DEF Stopped
    <3> QED
      BY <2>3, <3>2, <3>3
  <2>7. Outer'
    BY <2>1, <2>4, <2>6 DEF Outer, Handlers
  <2> QED
    BY <1>0, <1>1, <1>3, <2>1, <2>4, <2>6, <2>7
<1> QED
  BY <1>4, <1>5

-----------------------------------------------------------------------------
(* One step.                                                                *)

Lives ==
  /\ Shapes /\ CacheFits(cache) /\ OneFault
  /\ Marks /\ Sorts /\ Outer /\ Contents /\ Phases /\ ~Ended
Kept == Marks' /\ Sorts' /\ Outer' /\ Contents' /\ (Ended' \/ Phases')

LEMMA SameMarks ==
  ASSUME Marks, UNCHANGED <<mode, crashed, dead, plan, injected, late>>
  PROVE  Marks'
  BY DEF Marks, PlanOf

LEMMA QuietKept ==
  ASSUME Lives, Sorts', Contents', PushedOnce', Quiet
  PROVE  Kept
<1>1. Aside
  BY DEF Quiet
<1>2. Marks'
  BY <1>1, SameMarks DEF Lives, Aside
<1>3. Outer'
  BY <1>1 DEF Lives, Aside, Outer
<1>4. Phases'
  BY QuietPhases DEF Lives
<1> QED
  BY <1>2, <1>3, <1>4 DEF Kept

LEMMA PushesKept ==
  ASSUME Lives, \/ \E d \in Device : Deliver(d) \/ Lose(d)
                \/ \E r \in Request \ {Subject}, s \in NonHead : OtherPush(r, s)
  PROVE  Kept
<1>1. Sorts' /\ Contents' /\ PushedOnce' /\ Quiet
  BY DeliverQuiet, LoseQuiet, OtherPushQuiet DEF Lives, Phases
<1> QED
  BY <1>1, QuietKept

LEMMA OnFailureKept ==
  ASSUME Lives, NEW d \in Device, OnFailure(d)
  PROVE  Kept
<1>1. /\ d \in crashed \ dead /\ dead' = dead \cup {d}
      /\ plan' = IF Viable(Placement, Recovery, dead')
                 THEN build_execution_plan(Placement, Recovery, dead') ELSE plan
      /\ UNCHANGED <<mode, crashed, next_hop, promoted, kv, pushes, cache, history, chain, job, injected, late>>
  BY DEF OnFailure, MarkDead, workers, bounds
<1>2. crashed = {d} /\ dead = {} /\ dead' = {d} /\ injected = 0
  <2>1. PICK c \in Crashable : crashed = {c} /\ injected = 0
    BY <1>1 DEF Lives, Marks
  <2>2. c = d
    BY <1>1, <2>1
  <2>3. dead # crashed
    BY <1>1
  <2>4. dead = {}
    BY <2>1, <2>3 DEF Lives, Marks
  <2> QED
    BY <1>1, <2>1, <2>2, <2>4
<1>3. Marks'
  <2>1. plan = Placement
    BY <1>2, PlanOfNobody DEF Lives, Marks
  <2>2. plan' = PlanOf(dead')
    BY <1>1, <2>1 DEF PlanOf
  <2> QED
    BY <1>1, <1>2, <2>2 DEF Lives, Marks, PlanOf
<1>4. Sorts' /\ Contents' /\ PushedOnce'
  <2>1. Right' => Right
    BY <1>1 DEF Right
  <2>2. \A i \in Handlers : UnderWay(chain'[i]) => chain'[i].dev \notin crashed
    BY <1>1 DEF Lives, Sorts, GoneIdle
  <2> QED
    BY <1>1, <2>1, <2>2, StillKeeps DEF Lives, Phases
<1>5. Outer'
  BY <1>1 DEF Lives, Outer
<1>6. CASE Fresh
  <2>1. Fresh'
    BY <1>1, <1>2, <1>6 DEF Fresh, Going, NoOrphan, KVAt, OnItsWay, After
  <2> QED
    BY <1>3, <1>4, <1>5, <2>1 DEF Kept, Phases
<1>7. ASSUME NEW f \in NonHead, Noticed(f)
      PROVE  Kept
  <2>1. Noticed(f)'
    BY <1>1, <1>2, <1>7 DEF Noticed, Down, Stopped, NoOrphan, KVAt, OnItsWay, After
  <2> QED
    BY <1>3, <1>4, <1>5, <2>1 DEF Kept, Phases
<1>8. ASSUME NEW f \in NonHead, Recovering(f) \/ Recovered(f)
      PROVE  FALSE
  BY <1>2, <1>8 DEF Recovering, RecoveryAt, Recovered
<1> QED
  BY <1>6, <1>7, <1>8 DEF Lives, Phases

-----------------------------------------------------------------------------
(* The failure.                                                             *)

LEMMA NoFailureYet ==
  ASSUME Lives, MoreFailures
  PROVE  crashed = {} /\ injected = 0 /\ dead = {} /\ ~late /\ Fresh
<1>1. Bounds[mode].failures \in Nat /\ Bounds[mode].failures <= 1
  BY KVAssumption DEF Lives, OneFault, Shapes
<1>2. Cardinality(crashed) + injected < Bounds[mode].failures /\ ~late
  BY DEF MoreFailures, MoreTrouble
<1>3. Cardinality({}) = 0 /\ \A d : Cardinality({d}) = 1
  BY FS_EmptySet, FS_Singleton
<1>4. ASSUME NEW d, crashed = {d}, injected = 0 PROVE FALSE
  <2>1. Cardinality(crashed) = 1
    BY <1>3, <1>4
  <2> QED
    BY <1>1, <1>2, <1>4, <2>1
<1>5. crashed = {} /\ injected \in {0, 1}
  BY <1>4 DEF Lives, Marks
<1>6. injected = 0
  <2>1. Cardinality(crashed) = 0
    BY <1>3, <1>5
  <2> QED
    BY <1>1, <1>2, <1>5, <2>1
<1>7. dead = {}
  BY <1>5, <1>6 DEF Lives, Marks
<1>8. ASSUME NEW f \in NonHead, Noticed(f) \/ Recovering(f) \/ Recovered(f)
      PROVE  FALSE
  <2>1. Down(f)
    BY <1>8 DEF Noticed, Recovering, RecoveryAt, Recovered
  <2> QED
    BY <1>5, <1>6, <2>1 DEF Down
<1> QED
  BY <1>2, <1>5, <1>6, <1>7, <1>8 DEF Lives, Phases

\* The call fails in front of a stage, or in it.
LEMMA CallStops ==
  ASSUME Lives, Fresh, NEW f \in NonHead, UnderWay(chain["call"]), NEW e \in 0..N, e >= f - 1,
         e = Passed(chain["call"]), e <= f, e = f => f < N /\ crashed' # {},
         UNCHANGED <<mode, next_hop, promoted, kv, job, dead>>, Down(f)', dead \subseteq crashed', ~late',
         chain'["call"].st = "error", chain'["call"].blame = f, chain'["orphan"].st = "idle"
  PROVE  Noticed(f)'
<1>1. job.pc = "wait" /\ KVAt(e, Stage) /\ ~job.wrong /\ job.held = << >>
  BY DEF Fresh, Going, UnderWay
<1>2. Stopped(f, e, Stage)'
  BY <1>1 DEF Stopped, NoOrphan, KVAt, After
<1> QED
  BY <1>1, <1>2 DEF Noticed, Fresh

LEMMA InjectFaultKept ==
  ASSUME Lives, NEW i \in Handlers, InjectFault(i)
  PROVE  Kept
<1>1. PICK h : h = chain[i]
  OBVIOUS
<1>2. /\ h.st = "arrived" /\ h.stage \in NonHead \ promoted /\ MoreFailures
      /\ injected' = injected + 1 /\ DOMAIN chain = Handlers /\ h \in HandlerType
      /\ chain' = [chain EXCEPT ![i] = IF i = "call" THEN Failed(h, h.stage) ELSE Idle]
      /\ UNCHANGED <<mode, crashed, next_hop, promoted, kv, pushes, dead, plan, cache, history, job, late>>
  BY <1>1 DEF InjectFault, workers, gateway, Lives, Shapes, ChainShaped
<1>3. crashed = {} /\ injected = 0 /\ dead = {} /\ ~late /\ Fresh
  BY <1>2, NoFailureYet
<1>4. i = "call"
  BY <1>1, <1>2, <1>3 DEF Handlers, Fresh, Going, NoOrphan
<1>5. PICK f \in NonHead : f = h.stage
  BY <1>2
<1>6. /\ chain'["call"].st = "error" /\ chain'["call"].blame = f /\ chain'["orphan"] = chain["orphan"]
      /\ chain'["orphan"].st = "idle"
  <2>1. chain' = [chain EXCEPT !["call"] = Failed(h, f)] /\ f \in Stage
    BY <1>2, <1>4, <1>5, Lengths
  <2>2. chain'["call"] = Failed(h, f) /\ chain'["orphan"] = chain["orphan"]
    BY <1>2, <2>1 DEF Handlers
  <2>3. Failed(h, f).st = "error" /\ Failed(h, f).blame = f
    BY <1>2, <2>1, FailedType
  <2> QED
    BY <1>3, <2>2, <2>3 DEF Fresh, Going, NoOrphan
<1>7. Noticed(f)'
  <2>1. PICK e \in 0..N : e = f - 1
    BY Lengths
  <2>2. e = Passed(chain["call"]) /\ UnderWay(chain["call"])
    BY <1>1, <1>2, <1>4, <1>5, <2>1 DEF Passed, UnderWay
  <2>3. Down(f)'
    BY <1>2, <1>3 DEF Down
  <2>4. e >= f - 1 /\ e <= f /\ e # f
    BY <2>1, Lengths
  <2> QED
    BY <1>2, <1>3, <1>6, <2>2, <2>3, <2>4, CallStops
<1>8. Marks'
  BY <1>2, <1>3 DEF Lives, Marks, PlanOf
<1>9. Sorts' /\ Contents' /\ PushedOnce'
  <2>1. Right' => Right
    BY <1>2 DEF Right
  <2>2. \A k \in Handlers : UnderWay(chain'[k]) => chain'[k].dev \notin crashed
    BY <1>3
  <2> QED
    BY <1>2, <2>1, <2>2, StillKeeps DEF Lives, Phases
<1>10. Outer'
  BY <1>2, <1>6 DEF Lives, Outer, Handlers
<1> QED
  BY <1>5, <1>7, <1>8, <1>9, <1>10 DEF Kept, Phases

\* The pushes that are gone with a worker.
LEMMA EmptiedKeeps ==
  ASSUME Shapes, Sorts, Contents, PushedOnce, NEW d \in Device, pushes' = [pushes EXCEPT ![d] = << >>],
         UNCHANGED <<mode, promoted, kv, cache, history>>, Right,
         \A x \in crashed' : x \in crashed \/ x = d,
         \A i \in Handlers : UnderWay(chain'[i]) => chain'[i].dev \notin crashed'
  PROVE  Sorts' /\ Contents' /\ PushedOnce'
<1>1. /\ DOMAIN pushes = Device /\ DOMAIN pushes'[d] = {} /\ pushes'[d] = << >>
      /\ \A x \in Device : x # d => pushes'[x] = pushes[x]
  BY EmptyIsSized DEF Shapes, PushesShaped
<1>2. \A x \in Device : \A i \in DOMAIN pushes'[x] :
        /\ x # d /\ i \in DOMAIN pushes[x] /\ pushes'[x][i] = pushes[x][i] /\ DOMAIN pushes'[x] = DOMAIN pushes[x]
        /\ pushes'[x] = pushes[x]
  BY <1>1
<1>3. Sorts'
  <2>1. PushSorts'
    BY <1>2 DEF Sorts, PushSorts, IsPush, IsMirror, IsKVPush
  <2>2. \A x \in crashed' : pushes'[x] = << >>
    <3> TAKE x \in crashed'
    <3>1. CASE x = d
      BY <1>1, <3>1
    <3>2. CASE x # d
      <4>1. pushes[x] = << >>
        BY <3>2 DEF Sorts, GoneIdle
      <4> QED
        BY <3>2, <4>1
    <3> QED
      BY <3>1, <3>2
  <2>3. GoneIdle'
    BY <2>2 DEF GoneIdle, UnderWay
  <2> QED
    BY <2>1, <2>3 DEF Sorts, KVSorts, HistorySorts
<1>4. Contents'
  <2>1. RightIn(cache)' <=> RightIn(cache)
    BY RightInNext
  <2>2. RightPushes => RightPushes'
    BY <1>2 DEF RightPushes, RightPush
  <2>3. RightHistory' <=> RightHistory
    BY DEF RightHistory
  <2> QED
    BY <2>1, <2>2, <2>3 DEF Contents
<1>5. \A s, j : Queued(s, j)' => Queued(s, j)
  BY <1>2 DEF Queued, QueuedOn, KVOf
<1>6. PushedOnce'
  <2>1. Placed => Placed'
    BY <1>2 DEF Placed
  <2>2. QueuedOnce => QueuedOnce'
    BY <1>2 DEF QueuedOnce, KVOf
  <2>3. \A s, j : KeptIn(cache, s, j)' <=> KeptIn(cache, s, j)
    BY KeptInNext
  <2>4. KeptOnce => KeptOnce'
    BY <1>5, <2>3 DEF KeptOnce
  <2> QED
    BY <2>1, <2>2, <2>4 DEF PushedOnce
<1> QED
  BY <1>3, <1>4, <1>6

LEMMA CrashKept ==
  ASSUME Lives, NEW d \in Device, Crash(d)
  PROVE  Kept
<1>1. PICK c : c = chain["call"]
  OBVIOUS
<1>2. PICK cut : cut = {s \in Waiting(c) : next_hop[s] = d}
  OBVIOUS
<1>3. PICK o : o = chain["orphan"]
  OBVIOUS
<1>4. /\ d \in Crashable \ crashed /\ MoreFailures /\ crashed' = crashed \cup {d}
      /\ pushes' = [pushes EXCEPT ![d] = << >>]
      /\ late' = (late \/ cut # {} \/ (RunningOn(d, c) /\ c.stage = N /\ c.st = "ran"))
      /\ UNCHANGED <<mode, next_hop, promoted, kv, dead, plan, cache, history, job, injected>>
  BY <1>1, <1>2, <1>3 DEF Crash, gateway
<1>5. chain' = [call |-> IF cut # {} THEN Failed(c, Min(cut))
                         ELSE IF RunningOn(d, c) THEN Failed(c, c.stage) ELSE c,
                orphan |-> IF cut # {} /\ ~RunningOn(d, c) THEN c
                           ELSE IF RunningOn(d, o) THEN Idle ELSE o]
  BY <1>1, <1>2, <1>3 DEF Crash
<1>6. /\ chain'["call"] = IF cut # {} THEN Failed(c, Min(cut))
                          ELSE IF RunningOn(d, c) THEN Failed(c, c.stage) ELSE c
      /\ chain'["orphan"] = IF cut # {} /\ ~RunningOn(d, c) THEN c
                            ELSE IF RunningOn(d, o) THEN Idle ELSE o
  BY <1>5
<1>7. crashed = {} /\ injected = 0 /\ dead = {} /\ ~late /\ Fresh /\ crashed' = {d}
  BY <1>4, NoFailureYet
<1>8. /\ o.st = "idle" /\ ~RunningOn(d, o) /\ c \in HandlerType /\ next_hop = Placement /\ promoted = {}
      /\ UnderWay(c) => job.pc = "wait" /\ OnItsWay(c) /\ c.from = 1 /\ KVAt(Passed(c), Stage)
  BY <1>1, <1>3, <1>7 DEF Fresh, Going, NoOrphan, RunningOn, UnderWay, Lives, Shapes, ChainShaped, Handlers
<1>9. d # Placement[1]
  BY <1>4, KVAssumption
<1>10. \A s \in Stage : Placement[s] = d => s \in NonHead
  BY <1>9, Lengths
<1>11. Marks'
  BY <1>4, <1>7 DEF Lives, Marks, PlanOf
<1>12. SUFFICES (Fresh \/ \E f \in NonHead : Noticed(f))' /\ chain'["call"].blame \in {0} \cup NonHead
                /\ chain'["orphan"].blame \in {0} \cup NonHead
                /\ \A i \in Handlers : UnderWay(chain'[i]) => chain'[i].dev # d
  <2>1. Sorts' /\ Contents' /\ PushedOnce'
    <3>1. Right
      BY <1>8 DEF Right
    <3>2. /\ \A x \in crashed' : x \in crashed \/ x = d
          /\ \A i \in Handlers : UnderWay(chain'[i]) => chain'[i].dev \notin crashed'
      BY <1>7, <1>12
    <3> QED
      BY <1>4, <3>1, <3>2, EmptiedKeeps DEF Lives, Phases
  <2>2. Outer'
    <3>1. job.wrong => FALSE
      BY <1>7 DEF Fresh, Going
    <3> QED
      BY <1>4, <1>12, <3>1 DEF Lives, Outer, Handlers
  <2> QED
    BY <1>11, <1>12, <2>1, <2>2 DEF Kept, Phases
<1>13. c.blame \in {0} \cup NonHead /\ o.blame \in {0} \cup NonHead
  BY <1>1, <1>3 DEF Lives, Outer, Handlers
<1>14. CASE cut # {}
  <2>1. PICK f \in cut : TRUE
    BY <1>14
  <2>2. UnderWay(c) /\ f \in c.from..(c.stage - 1) /\ Placement[f] = d
    BY <1>2, <1>8, <2>1 DEF Waiting
  <2>3. /\ OnItsWay(c) /\ c.from = 1 /\ KVAt(Passed(c), Stage) /\ c.stage \in Stage /\ job.pc = "wait"
        /\ c.dev = Placement[c.stage]
    BY <1>8, <2>2 DEF OnItsWay, HandlerType
  <2>4. f \in Stage /\ f \in NonHead /\ f < c.stage /\ c.stage # f
    <3>1. f \in Stage /\ f < c.stage
      BY <2>2, <2>3, Lengths
    <3> QED
      BY <1>10, <2>2, <3>1, Lengths
  <2>5. ~RunningOn(d, c) /\ c.dev # d
    BY <2>2, <2>3, <2>4, Lengths DEF RunningOn
  <2>6. Min(cut) = f
    <3>1. \A s \in cut : s \in Nat /\ s \in Stage /\ s = f
      <4> TAKE s \in cut
      <4>1. s \in c.from..(c.stage - 1) /\ Placement[s] = d
        BY <1>2, <1>8, <2>2 DEF Waiting
      <4>2. s \in Stage
        BY <2>3, <4>1, Lengths
      <4> QED
        BY <2>2, <2>4, <4>1, <4>2, Lengths
    <3>2. cut \in SUBSET Nat
      BY <3>1
    <3> QED
      BY <1>14, <3>1, <3>2, MinOf
  <2>7. chain'["call"] = Failed(c, f) /\ chain'["orphan"] = c /\ late'
    BY <1>4, <1>6, <1>14, <2>5, <2>6
  <2>8. chain'["call"].st = "error" /\ chain'["call"].blame = f
    BY <1>8, <2>4, <2>7, FailedType
  <2>9. PICK e \in 0..N : e = Passed(c) /\ e >= f
    BY <2>2, <2>3, <2>4, Lengths DEF Passed, UnderWay
  <2>10. Stopped(f, e, Stage)'
    <3>1. UnderWay(chain["orphan"])' /\ OnItsWay(chain["orphan"])' /\ e = Passed(chain["orphan"])'
      BY <1>4, <2>2, <2>3, <2>7, <2>9 DEF UnderWay, OnItsWay, Passed
    <3>2. KVAt(e, Stage)'
      BY <1>4, <2>3, <2>9 DEF KVAt, After
    <3>3. chain'["orphan"].stage > f /\ e >= f - 1
      BY <2>3, <2>4, <2>7, <2>9, Lengths
    <3> QED
      BY <2>7, <2>9, <3>1, <3>2, <3>3 DEF Stopped
  <2>11. Down(f)' /\ dead' \subseteq crashed'
    BY <1>4, <1>7, <2>2 DEF Down
  <2>12. Noticed(f)'
    BY <1>4, <1>7, <1>8, <2>3, <2>8, <2>10, <2>11 DEF Noticed, Fresh, Going
  <2> QED
    BY <1>13, <2>4, <2>5, <2>7, <2>8, <2>12 DEF Handlers, UnderWay
<1>15. CASE cut = {} /\ RunningOn(d, c)
  <2>1. UnderWay(c) /\ c.dev = d
    BY <1>15 DEF RunningOn
  <2>2. PICK f : f = c.stage
    OBVIOUS
  <2>3. /\ OnItsWay(c) /\ KVAt(Passed(c), Stage) /\ f \in Stage /\ job.pc = "wait" /\ d = Placement[f]
        /\ f \in NonHead
    BY <1>8, <1>10, <2>1, <2>2 DEF OnItsWay, HandlerType
  <2>4. chain'["call"] = Failed(c, f) /\ chain'["orphan"] = o
    BY <1>6, <1>8, <1>15, <2>2
  <2>5. chain'["call"].st = "error" /\ chain'["call"].blame = f /\ chain'["orphan"].st = "idle"
    BY <1>8, <2>3, <2>4, FailedType
  <2>6. Down(f)' /\ dead' \subseteq crashed' /\ crashed' # {}
    BY <1>4, <1>7, <2>3 DEF Down
  <2>7. PICK e \in 0..N : e = Passed(c) /\ e >= f - 1 /\ e <= f /\ (e = f <=> c.st = "ran")
    <3>1. f \in Nat /\ f >= 2 /\ f <= N /\ N \in Nat
      BY <2>3, Lengths
    <3>2. CASE c.st = "arrived"
      <4>1. Passed(c) = f - 1 /\ c.st # "ran"
        BY <2>2, <3>2 DEF Passed
      <4> QED
        BY <3>1, <4>1
    <3>3. CASE c.st = "ran"
      <4>1. Passed(c) = f
        BY <2>2, <3>3 DEF Passed
      <4> QED
        BY <3>1, <3>3, <4>1
    <3> QED
      BY <2>1, <3>2, <3>3 DEF UnderWay
  <2>8. Noticed(f)'
    <3>1. CASE late'
      <4>1. e = f
        BY <1>4, <1>7, <1>15, <2>7, <3>1
      <4>2. Stopped(f, e, Stage)'
        <5>1. KVAt(e, Stage)'
          BY <1>4, <2>3, <2>7 DEF KVAt, After
        <5>2. e >= f
          BY <4>1, <2>7
        <5>3. NoOrphan'
          BY <2>5 DEF NoOrphan
        <5> QED
          BY <2>7, <3>1, <5>1, <5>2, <5>3 DEF Stopped
      <4> QED
        BY <1>4, <1>7, <1>8, <2>3, <2>5, <2>6, <4>2 DEF Noticed, Fresh, Going
    <3>2. CASE ~late'
      <4>1. e = f => f < N
        <5>1. c.st = "ran" => c.stage # N
          BY <1>4, <1>15, <3>2
        <5>2. f # N => f < N
          BY <2>3, Lengths
        <5> QED
          BY <2>2, <2>7, <5>1, <5>2
      <4> QED
        BY <1>1, <1>4, <1>7, <2>1, <2>3, <2>5, <2>6, <2>7, <3>2, <4>1, CallStops
    <3> QED
      BY <3>1, <3>2
  <2> QED
    BY <1>13, <2>3, <2>4, <2>5, <2>8 DEF Handlers, UnderWay
<1>16. CASE cut = {} /\ ~RunningOn(d, c)
  <2>1. chain'["call"] = c /\ chain'["orphan"] = o /\ ~late'
    BY <1>4, <1>6, <1>7, <1>8, <1>16
  <2>2. \A i \in Handlers : UnderWay(chain'[i]) => chain'[i].dev # d
    BY <1>8, <1>16, <2>1 DEF RunningOn, Handlers, UnderWay
  <2>3. ASSUME NEW f \in NonHead, Placement[f] = d, job.pc = "wait"
        PROVE  c.st = "ok" \/ c.stage < f
    <3>1. c.st \in {"arrived", "ran", "ok"}
      BY <1>1, <1>7, <2>3 DEF Fresh, Going
    <3>2. SUFFICES ASSUME UnderWay(c) PROVE c.stage < f
      BY <3>1 DEF UnderWay
    <3>3. c.from = 1 /\ c.dev = Placement[c.stage] /\ c.stage \in Stage
      BY <1>8, <3>2 DEF OnItsWay, HandlerType
    <3>4. c.stage # f
      BY <1>16, <2>3, <3>2, <3>3 DEF RunningOn
    <3>5. f \notin 1..(c.stage - 1)
      BY <1>2, <1>8, <1>16, <2>3, <3>2, <3>3 DEF Waiting
    <3> QED
      BY <3>3, <3>4, <3>5, Lengths
  <2>4. Going'
    BY <1>1, <1>3, <1>4, <1>7, <2>1 DEF Fresh, Going, NoOrphan, KVAt, OnItsWay, After, Passed
  <2>5. Fresh'
    BY <1>1, <1>4, <1>7, <1>8, <2>1, <2>3, <2>4 DEF Fresh
  <2> QED
    BY <1>13, <2>1, <2>2, <2>5
<1> QED
  BY <1>14, <1>15, <1>16

-----------------------------------------------------------------------------
(* The undisturbed chain.                                                   *)

Chained == Going /\ (Fresh \/ (~late /\ \E f \in NonHead : Recovered(f)))
RunsTwice == late /\ \E f \in NonHead : Recovered(f)

LEMMA ChainOrLate ==
  ASSUME Lives, job.pc = "step" \/ chain["call"].st \in {"arrived", "ran", "ok"}
  PROVE  Chained \/ RunsTwice
<1>1. ASSUME NEW f \in NonHead, Noticed(f) \/ Recovering(f) PROVE FALSE
  BY <1>1 DEF Noticed, Recovering, RecoveryAt, Attempt
<1>2. Fresh => Going
  BY DEF Fresh
<1>3. ASSUME NEW f \in NonHead, Recovered(f), ~late PROVE Going
  BY <1>3 DEF Recovered
<1> QED
  BY <1>1, <1>2, <1>3 DEF Lives, Phases, Chained, RunsTwice

LEMMA RightStays ==
  ASSUME UNCHANGED <<promoted, late>>, job.pc \notin Attempt /\ job'.pc \notin Attempt
  PROVE  Right' => Right
  BY DEF Right

\* Who serves while no call fails.
LEMMA HeadServes ==
  ASSUME Lives, Chained \/ RunsTwice
  PROVE  plan[1] = next_hop[1] /\ Serves(plan[1], 1)
<1>1. 1 \in Stage /\ Placement[1] \notin Crashable /\ 1 \notin NonHead
  BY KVAssumption, Lengths
<1>2. ASSUME NEW f \in NonHead, Recovered(f)
      PROVE  plan[1] = next_hop[1] /\ Serves(plan[1], 1)
  BY <1>1, <1>2, PlanServes DEF Recovered, Lives
<1>3. CASE Fresh
  <2>1. crashed \subseteq Crashable
    BY GoneAreDevices DEF Lives
  <2>2. dead \subseteq crashed /\ next_hop = Placement /\ promoted = {} /\ Placement[1] \notin crashed
    BY <1>1, <1>3, <2>1 DEF Fresh
  <2>3. plan = PlanOf(dead) /\ Placement[1] \notin dead
    BY <2>2 DEF Lives, Marks
  <2>4. plan[1] = Placement[1]
    <3>1. DOMAIN Placement = Stage
      BY Lengths
    <3>2. build_execution_plan(Placement, Recovery, dead)[1] = Placement[1]
      BY <1>1, <2>3, <3>1 DEF build_execution_plan, Serving
    <3> QED
      BY <2>3, <3>2 DEF PlanOf
  <2> QED
    BY <2>2, <2>4 DEF Serves
<1> QED
  BY <1>2, <1>3 DEF Chained, RunsTwice

Invoked(s) ==
  [st |-> "arrived", stage |-> s, dev |-> plan[s], at |-> job.pos, good |-> TRUE, from |-> s, blame |-> 0]

LEMMA InvokeIs ==
  ASSUME Lives, NEW s \in Stage, Invoke(s, TRUE), UNCHANGED <<mode, crashed, promoted, kv, cache, history>>,
         Serves(plan[s], s), Right' => Right
  PROVE  /\ chain' = [chain EXCEPT !["call"] = Invoked(s)]
         /\ Sorts' /\ Contents' /\ PushedOnce' /\ KeptStay
         /\ \A t, j : Queued(t, j)' <=> Queued(t, j)
<1>1. PICK h : h = [Idle EXCEPT !.st = "arrived", !.stage = s, !.from = s, !.dev = plan[s],
                                !.at = job.pos, !.good = TRUE]
  OBVIOUS
<1>2. Reach("call", h)
  BY <1>1 DEF Invoke
<1>3. h \in HandlerType /\ h = Invoked(s)
  BY <1>1, InvokedType DEF Invoked, Lives
<1>4. h.st = "arrived" /\ h.good /\ h.dev = plan[s] /\ h.stage = s /\ "call" \in Handlers
  BY <1>3 DEF Invoked, Handlers
<1>5. /\ Reached("call", h) /\ Sorts' /\ PushedOnce'
      /\ RightPushes /\ (h.good \/ ~Serves(h.dev, h.stage)) => RightPushes'
      /\ \A t, j : Queued(t, j)' <=> Queued(t, j)
  BY <1>2, <1>3, <1>4, ReachIs DEF Lives, Phases
<1>6. Contents'
  <2>1. RightIn(cache)' <=> RightIn(cache)
    BY RightInNext
  <2>2. RightHistory' <=> RightHistory
    BY DEF RightHistory
  <2> QED
    BY <1>4, <1>5, <2>1, <2>2 DEF Contents, Lives
<1>7. KeptStay
  BY LostItems
<1>8. chain' = [chain EXCEPT !["call"] = Invoked(s)]
  BY <1>3, <1>4, <1>5 DEF Reached
<1> QED
  BY <1>5, <1>6, <1>7, <1>8

LEMMA GoingKept ==
  ASSUME Lives, Chained, UNCHANGED <<mode, crashed, next_hop, promoted, dead, plan, injected, late>>,
         Going', Sorts', Contents', PushedOnce',
         \A s \in Stage : Len(kv'[s]) <= Prompt + MaxTokens + 1,
         \A i \in Handlers : chain'[i].blame \in {0} \cup NonHead, job'.n \in Slot,
         Fresh /\ job'.pc = "wait" =>
           /\ chain'["call"].from = 1
           /\ \A f \in NonHead :
                Placement[f] \in crashed => (chain'["call"].st = "ok" \/ chain'["call"].stage < f)
  PROVE  Kept
<1>1. Marks'
  BY SameMarks DEF Lives
<1>2. ~job'.wrong /\ job'.pc \in {"step", "wait"}
  BY DEF Going
<1>3. Outer'
  BY <1>2 DEF Lives, Outer
<1>4. CASE Fresh
  <2>1. Fresh'
    BY <1>4 DEF Fresh
  <2> QED
    BY <1>1, <1>3, <2>1 DEF Kept, Phases
<1>5. ASSUME NEW f \in NonHead, Recovered(f), ~late
      PROVE  Kept
  <2>1. Recovered(f)'
    BY <1>2, <1>5 DEF Recovered, Down
  <2> QED
    BY <1>1, <1>3, <2>1 DEF Kept, Phases
<1> QED
  BY <1>4, <1>5 DEF Chained

LEMMA StepChained ==
  ASSUME Lives, Chained, Step
  PROVE  Kept
<1>1. /\ job.pc = "step" /\ Invoke(1, TRUE) /\ job' = [job EXCEPT !.pc = "wait"] /\ 1 \in Stage
      /\ UNCHANGED <<mode, crashed, next_hop, promoted, kv, dead, plan, cache, history, injected, late>>
  BY Lengths DEF Step, bounds
<1>2. job'.pc = "wait" /\ job'.pos = job.pos /\ job'.wrong = job.wrong /\ job'.held = job.held /\ job'.n = job.n
  BY <1>1 DEF Lives, Shapes, JobShaped
<1>3. plan[1] = next_hop[1] /\ Serves(plan[1], 1)
  BY HeadServes
<1>4. Right' => Right
  BY <1>1, <1>2, RightStays DEF Attempt
<1>5. chain' = [chain EXCEPT !["call"] = Invoked(1)] /\ Sorts' /\ Contents' /\ PushedOnce'
  BY <1>1, <1>3, <1>4, InvokeIs
<1>6. chain'["call"] = Invoked(1) /\ chain'["orphan"] = chain["orphan"]
  BY <1>5 DEF Lives, Shapes, ChainShaped, Handlers
<1>7. /\ Invoked(1).st = "arrived" /\ Invoked(1).stage = 1 /\ Invoked(1).dev = next_hop[1]
      /\ Invoked(1).at = job.pos /\ Invoked(1).good /\ Invoked(1).from = 1 /\ Invoked(1).blame = 0
  BY <1>3 DEF Invoked
<1>8. NoOrphan /\ ~job.wrong /\ job.held = << >> /\ KVAt(0, Stage)
  BY <1>1 DEF Chained, Going
<1>9. Going'
  <2>1. OnItsWay(chain["call"])'
    BY <1>1, <1>2, <1>6, <1>7 DEF OnItsWay
  <2>2. KVAt(Passed(chain["call"]), Stage)'
    BY <1>1, <1>2, <1>6, <1>7, <1>8 DEF KVAt, Passed, After
  <2>3. NoOrphan'
    BY <1>6, <1>8 DEF NoOrphan
  <2> QED
    BY <1>2, <1>6, <1>7, <1>8, <2>1, <2>2, <2>3 DEF Going
<1>10. \A i \in Handlers : chain'[i].blame \in {0} \cup NonHead
  BY <1>6, <1>7 DEF Lives, Outer, Handlers
<1>11. \A f \in NonHead : 1 < f
  BY Lengths
<1> QED
  BY <1>1, <1>2, <1>5, <1>6, <1>7, <1>9, <1>10, <1>11, GoingKept DEF Lives, Outer

\* The position is done.
LEMMA StepDoneIs ==
  ASSUME Shapes, StepDone
  PROVE  /\ job.pc = "wait" /\ chain["call"].st = "ok" /\ UNCHANGED Local
         /\ chain' = [chain EXCEPT !["call"] = Idle]
         /\ job'.wrong = (job.wrong \/ ~chain["call"].good) /\ job'.held = << >> /\ job'.n = 0
         /\ \/ job'.pc = "done"
            \/ job'.pc = "step" /\ job'.pos = job.pos + 1 /\ job'.pos \in Position
<1> DEFINE last == job.pos + 1 = MaxTokens
           w == job.wrong \/ ~chain["call"].good
<1>1. /\ IsJob(NoJob) /\ NoJob.pos = 0 /\ NoJob.n = 0 /\ NoJob.held = << >>
  BY DEF NoJob, IsJob
<1>2. job' = [NoJob EXCEPT !.pc = IF last THEN "done" ELSE "step",
                           !.pos = IF last THEN NoJob.pos ELSE job.pos + 1, !.wrong = w]
  BY DEF StepDone
<1>3. CASE last
  <2> HIDE DEF w
  <2>1. job' = [NoJob EXCEPT !.pc = "done", !.pos = NoJob.pos, !.wrong = w]
    BY <1>2, <1>3
  <2>2. job'.pc = "done" /\ job'.wrong = w /\ job'.held = << >> /\ job'.n = 0
    BY <1>1, <2>1 DEF IsJob
  <2> QED
    BY <2>2 DEF StepDone, w
<1>4. CASE ~last
  <2>0. job.pos + 1 \in Position
    BY <1>4, NextPosition DEF Shapes, JobShaped
  <2> HIDE DEF w
  <2>1. job' = [NoJob EXCEPT !.pc = "step", !.pos = job.pos + 1, !.wrong = w]
    BY <1>2, <1>4
  <2>2. job'.pc = "step" /\ job'.pos = job.pos + 1 /\ job'.wrong = w /\ job'.held = << >> /\ job'.n = 0
    BY <1>1, <2>1 DEF IsJob
  <2> QED
    BY <2>0, <2>2 DEF StepDone, w
<1> QED
  BY <1>3, <1>4

LEMMA StepDoneChained ==
  ASSUME Lives, Chained, StepDone
  PROVE  Kept
<1>1. /\ job.pc = "wait" /\ chain["call"].st = "ok"
      /\ UNCHANGED <<mode, crashed, next_hop, promoted, kv, pushes, dead, plan, cache, history, injected, late>>
      /\ chain' = [chain EXCEPT !["call"] = Idle]
      /\ job'.wrong = (job.wrong \/ ~chain["call"].good) /\ job'.held = << >> /\ job'.n = 0
      /\ \/ job'.pc = "done"
         \/ job'.pc = "step" /\ job'.pos = job.pos + 1 /\ job'.pos \in Position
  BY StepDoneIs DEF Lives, Local, workers, bounds
<1>2. chain'["call"] = Idle /\ chain'["orphan"] = chain["orphan"] /\ Idle.st = "idle" /\ Idle.blame = 0
  BY <1>1 DEF Lives, Shapes, ChainShaped, Handlers, Idle
<1>3. /\ NoOrphan /\ ~job.wrong /\ OnItsWay(chain["call"]) /\ KVAt(Passed(chain["call"]), Stage)
      /\ Passed(chain["call"]) = N
  BY <1>1 DEF Chained, Going, Passed
<1>4. ~job'.wrong
  BY <1>1, <1>3 DEF OnItsWay
<1>5. Right' => Right
  BY <1>1, RightStays DEF Attempt
<1>6. Sorts' /\ Contents' /\ PushedOnce'
  <2>1. \A i \in Handlers : UnderWay(chain'[i]) => chain'[i].dev \notin crashed
    BY <1>2 DEF Lives, Sorts, GoneIdle, Handlers, UnderWay
  <2> QED
    BY <1>1, <1>5, <2>1, StillKeeps DEF Lives, Phases
<1>7. Marks'
  BY <1>1, SameMarks DEF Lives
<1>8. \A i \in Handlers : chain'[i].blame \in {0} \cup NonHead
  BY <1>2 DEF Lives, Outer, Handlers
<1>9. job'.n \in Slot /\ \A s \in Stage : Len(kv'[s]) <= Prompt + MaxTokens + 1
  BY <1>1, Numbers DEF Lives, Outer
<1>10. CASE job'.pc = "done"
  <2>1. Outer'
    BY <1>1, <1>4, <1>8, <1>9 DEF Lives, Outer
  <2>2. Ended'
    BY <1>10 DEF Ended
  <2> QED
    BY <1>6, <1>7, <2>1, <2>2 DEF Kept
<1>11. CASE job'.pc = "step" /\ job'.pos = job.pos + 1 /\ job'.pos \in Position
  <2>1. job.pos \in Position /\ Before(job.pos + 1) = After(job.pos) /\ N \in Nat /\ Stage = 1..N
    BY Numbers, Lengths DEF Lives, Shapes, JobShaped, Before, After
  <2>2. ASSUME NEW s \in Stage
        PROVE  kv'[s] = Prefix(s, IF s <= 0 THEN After(job'.pos) ELSE Before(job'.pos))
    <3>1. s <= N /\ ~(s <= 0)
      BY <2>1
    <3>2. kv[s] = Prefix(s, After(job.pos))
      BY <1>3, <3>1 DEF KVAt
    <3> QED
      BY <1>1, <1>11, <2>1, <3>1, <3>2
  <2>3. KVAt(0, Stage)'
    BY <2>2 DEF KVAt, After
  <2>4. Going'
    BY <1>1, <1>2, <1>3, <1>4, <1>11, <2>3 DEF Going, NoOrphan
  <2> QED
    BY <1>1, <1>6, <1>8, <1>9, <1>11, <2>4, GoingKept
<1> QED
  BY <1>1, <1>10, <1>11

LEMMA RunChained ==
  ASSUME Lives, Chained, Run("call")
  PROVE  Kept
<1>1. PICK h : h = chain["call"]
  OBVIOUS
<1>2. h.st = "arrived" /\ "call" \in Handlers /\ h \in HandlerType /\ DOMAIN chain = Handlers
  BY <1>1 DEF Run, Lives, Shapes, ChainShaped, Handlers
<1>3. job.pc = "wait" /\ OnItsWay(h) /\ KVAt(Passed(h), Stage) /\ Passed(h) = h.stage - 1 /\ NoOrphan
      /\ h.stage \in Stage
  BY <1>1, <1>2 DEF Chained, Going, Passed, HandlerType
<1>4. kv[h.stage] = Prefix(h.stage, Before(h.at))
  <2>1. ~(h.stage <= Passed(h))
    BY <1>3, Lengths
  <2> QED
    BY <1>3, <2>1 DEF KVAt, OnItsWay
<1>5. promoted = {} => h.dev = Placement[h.stage]
  BY <1>3 DEF Chained, Recovered, Fresh, OnItsWay
<1>6. WellRun("call", h)
  BY <1>1, <1>2, <1>3, <1>4, <1>5, RunsWell DEF Lives, Phases, OnItsWay
<1>7. /\ UNCHANGED <<mode, crashed, next_hop, promoted, dead, plan, cache, history, job, injected, late>>
      /\ Sorts' /\ Contents' /\ PushedOnce'
      /\ \A s \in Stage : s # h.stage => kv'[s] = kv[s]
      /\ kv'[h.stage] = Prefix(h.stage, Prompt + h.at)
  BY <1>6 DEF WellRun
<1>8. chain'["call"] = Ran(h) /\ chain'["orphan"] = chain["orphan"]
  BY <1>2, <1>6 DEF WellRun, Handlers
<1>9. /\ Ran(h).st = "ran" /\ Ran(h).stage = h.stage /\ Ran(h).dev = h.dev /\ Ran(h).at = h.at
      /\ Ran(h).from = h.from /\ Ran(h).blame = h.blame /\ Ran(h).good
  BY <1>2, <1>6, RanIs DEF WellRun, Lives
<1>10. ASSUME NEW s \in Stage
       PROVE  kv'[s] = Prefix(s, IF s <= h.stage THEN After(job.pos) ELSE Before(job.pos))
  <2>1. CASE s = h.stage
    <3>1. s <= h.stage
      BY <1>3, <2>1, Lengths
    <3>2. Prompt + h.at = After(job.pos)
      BY <1>3 DEF OnItsWay, After
    <3> QED
      BY <1>7, <2>1, <3>1, <3>2
  <2>2. CASE s # h.stage
    <3>1. kv[s] = Prefix(s, IF s <= Passed(h) THEN After(job.pos) ELSE Before(job.pos))
      BY <1>3 DEF KVAt
    <3>2. s <= Passed(h) <=> s <= h.stage
      BY <1>3, <2>2, Lengths
    <3> QED
      BY <1>7, <2>2, <3>1, <3>2
  <2> QED
    BY <2>1, <2>2
<1>11. Going'
  <2>1. Passed(chain["call"])' = h.stage
    BY <1>8, <1>9 DEF Passed
  <2>2. KVAt(Passed(chain["call"]), Stage)'
    BY <1>7, <1>8, <1>9, <1>10 DEF KVAt, After, Passed
  <2>3. OnItsWay(chain["call"])'
    BY <1>3, <1>7, <1>8, <1>9 DEF OnItsWay
  <2>4. NoOrphan'
    BY <1>3, <1>8 DEF NoOrphan
  <2> QED
    BY <1>3, <1>7, <1>8, <1>9, <2>2, <2>3, <2>4 DEF Chained, Going
<1>12. \A s \in Stage : Len(kv'[s]) <= Prompt + MaxTokens + 1
  <2> TAKE s \in Stage
  <2>1. job.pos \in Position
    BY DEF Lives, Shapes, JobShaped
  <2>2. /\ Prompt + h.at \in Nat /\ Prompt + h.at <= Prompt + MaxTokens + 1
    BY <1>3, <2>1, Numbers DEF OnItsWay
  <2>3. Len(kv'[h.stage]) = Prompt + h.at
    BY <1>7, <2>2, PrefixIs
  <2> QED
    BY <1>7, <2>2, <2>3 DEF Lives, Outer
<1>13. \A i \in Handlers : chain'[i].blame \in {0} \cup NonHead
  BY <1>1, <1>8, <1>9 DEF Lives, Outer, Handlers
<1>14. ASSUME Fresh
       PROVE  /\ chain'["call"].from = 1
              /\ \A f \in NonHead :
                   Placement[f] \in crashed => (chain'["call"].st = "ok" \/ chain'["call"].stage < f)
  BY <1>1, <1>2, <1>3, <1>8, <1>9, <1>14 DEF Fresh
<1> QED
  BY <1>7, <1>11, <1>12, <1>13, <1>14, GoingKept DEF Lives, Outer

LEMMA ForwardChained ==
  ASSUME Lives, Chained, Forward("call")
  PROVE  Kept
<1>1. PICK h : h = chain["call"]
  OBVIOUS
<1>2. h.st = "ran" /\ "call" \in Handlers /\ h \in HandlerType /\ DOMAIN chain = Handlers /\ h.stage \in Stage
  BY <1>1 DEF Forward, Lives, Shapes, ChainShaped, Handlers, HandlerType
<1>3. job.pc = "wait" /\ OnItsWay(h) /\ KVAt(h.stage, Stage) /\ NoOrphan /\ ~job.wrong /\ job.held = << >>
      /\ h.good
  BY <1>1, <1>2 DEF Chained, Going, Passed, OnItsWay
<1>4. /\ UNCHANGED <<mode, crashed, next_hop, promoted, kv, dead, plan, cache, history, job, injected, late>>
      /\ \/ h.stage < N /\ Reached("call", Onward(h))
         \/ h.stage = N /\ chain' = [chain EXCEPT !["call"] = Answered(h)]
      /\ Sorts' /\ PushedOnce' /\ Contents'
  BY <1>1, <1>2, <1>3, ForwardIs DEF Lives, Phases
<1>5. /\ \A s \in Stage : Len(kv'[s]) <= Prompt + MaxTokens + 1
      /\ job'.n \in Slot
      /\ \A i \in Handlers : chain[i].blame \in {0} \cup NonHead
  BY <1>4 DEF Lives, Outer
<1>6. ASSUME NEW t \in HandlerType, chain' = [chain EXCEPT !["call"] = t], t.st \in {"arrived", "ok"},
             t.at = h.at, t.good, t.dev = next_hop[t.stage], t.from = h.from, t.blame = h.blame,
             h.from <= t.stage, Passed(t) = h.stage,
             Fresh => \A f \in NonHead : Placement[f] \in crashed => (t.st = "ok" \/ t.stage < f)
      PROVE  Kept
  <2>1. chain'["call"] = t /\ chain'["orphan"] = chain["orphan"]
    BY <1>2, <1>6 DEF Handlers
  <2>2. OnItsWay(chain["call"])'
    BY <1>3, <1>4, <1>6, <2>1 DEF OnItsWay
  <2>3. KVAt(Passed(chain["call"]), Stage)'
    BY <1>3, <1>4, <1>6, <2>1 DEF KVAt, After, Passed
  <2>4. Going'
    BY <1>3, <1>4, <1>6, <2>1, <2>2, <2>3 DEF Going, NoOrphan
  <2>5. \A i \in Handlers : chain'[i].blame \in {0} \cup NonHead
    BY <1>1, <1>2, <1>5, <1>6, <2>1 DEF Handlers
  <2>6. ASSUME Fresh
        PROVE  /\ chain'["call"].from = 1
               /\ \A f \in NonHead :
                    Placement[f] \in crashed => (chain'["call"].st = "ok" \/ chain'["call"].stage < f)
    BY <1>1, <1>3, <1>6, <2>1, <2>6 DEF Fresh
  <2> QED
    BY <1>4, <1>5, <2>4, <2>5, <2>6, GoingKept
<1>7. CASE h.stage = N /\ chain' = [chain EXCEPT !["call"] = Answered(h)]
  <2> DEFINE t == Answered(h)
  <2>1. /\ t \in HandlerType /\ t.st = "ok" /\ t.stage = h.stage /\ t.dev = h.dev /\ t.at = h.at
        /\ t.good = h.good /\ t.from = h.from /\ t.blame = h.blame
    BY <1>2, AnsweredIs
  <2> HIDE DEF t
  <2>2. Passed(t) = h.stage
    BY <1>7, <2>1 DEF Passed
  <2>3. t.dev = next_hop[t.stage] /\ h.from <= t.stage
    BY <1>3, <2>1 DEF OnItsWay
  <2> QED
    BY <1>3, <1>6, <1>7, <2>1, <2>2, <2>3 DEF t
<1>8. CASE h.stage < N /\ Reached("call", Onward(h))
  <2> DEFINE t == Onward(h)
  <2>1. /\ t \in HandlerType /\ t.st = "arrived" /\ t.stage = h.stage + 1 /\ t.dev = next_hop[h.stage + 1]
        /\ t.at = h.at /\ t.good = h.good /\ t.from = h.from /\ t.blame = h.blame
        /\ h.stage + 1 \in NonHead /\ h.stage + 1 \in Stage
    BY <1>2, <1>8, OnwardIs DEF Lives
  <2>2. Reached("call", t)
    BY <1>8
  <2> HIDE DEF t
  <2>3. PICK g \in NonHead : g = h.stage + 1 /\ g \in Stage
    BY <2>1
  <2>4. /\ Passed(t) = h.stage /\ h.from <= t.stage
    <3>1. h.from <= h.stage /\ h.from \in Stage
      BY <1>2, <1>3 DEF OnItsWay, HandlerType
    <3> QED
      BY <1>2, <2>1, <3>1, Lengths DEF Passed
  <2>5. CASE Serves(t.dev, t.stage)
    <3>1. chain' = [chain EXCEPT !["call"] = t]
      BY <2>2, <2>5 DEF Reached
    <3>2. ASSUME Fresh, NEW f \in NonHead, Placement[f] \in crashed
          PROVE  t.stage < f
      <4>1. h.stage < f
        BY <1>1, <1>2, <1>3, <3>2 DEF Fresh
      <4>2. t.dev \notin crashed /\ t.dev = Placement[g]
        BY <2>1, <2>3, <2>5, <3>2 DEF Serves, Fresh
      <4>3. f # g
        BY <3>2, <4>2
      <4> QED
        BY <1>2, <2>1, <2>3, <4>1, <4>3, Lengths
    <3> QED
      BY <1>3, <1>6, <2>1, <2>4, <3>1, <3>2
  <2>6. CASE ~Serves(t.dev, t.stage)
    <3>1. chain' = [chain EXCEPT !["call"] = Failed(t, g)]
      BY <2>1, <2>2, <2>3, <2>6 DEF Reached
    <3>2. chain'["call"] = Failed(t, g) /\ chain'["orphan"] = chain["orphan"]
      BY <1>2, <3>1 DEF Handlers
    <3>3. chain'["call"].st = "error" /\ chain'["call"].blame = g /\ chain'["orphan"].st = "idle"
      BY <1>3, <2>1, <2>3, <3>2, FailedType DEF NoOrphan
    <3>4. ASSUME NEW f \in NonHead, Recovered(f) PROVE FALSE
      <4>1. Serves(plan[g], g)
        BY <2>3, <3>4, PlanServes DEF Recovered, Lives
      <4> QED
        BY <2>1, <2>3, <2>6, <3>4, <4>1 DEF Recovered
    <3>5. Fresh
      BY <3>4 DEF Chained
    <3>6. crashed = {Placement[g]}
      <4>1. Placement[g] \in crashed
        BY <2>1, <2>3, <2>6, <3>5 DEF Serves, Fresh
      <4> QED
        BY <4>1 DEF Lives, Marks
    <3>7. Noticed(g)'
      <4>1. PICK e \in 0..N : e = h.stage
        BY <1>2, Lengths
      <4>2. e >= g - 1 /\ e <= g /\ e # g /\ e = Passed(chain["call"]) /\ UnderWay(chain["call"])
        BY <1>1, <1>2, <2>3, <4>1, Lengths DEF Passed, UnderWay
      <4>3. Down(g)' /\ dead \subseteq crashed' /\ ~late'
        BY <1>4, <3>5, <3>6 DEF Down, Fresh
      <4> QED
        BY <1>4, <3>3, <3>5, <4>2, <4>3, CallStops
    <3>8. Marks'
      BY <1>4, SameMarks DEF Lives
    <3>9. Outer'
      BY <1>2, <1>4, <1>5, <3>2, <3>3 DEF Lives, Outer, Handlers
    <3> QED
      BY <1>4, <3>7, <3>8, <3>9 DEF Kept, Phases
  <2> QED
    BY <2>5, <2>6
<1> QED
  BY <1>4, <1>7, <1>8

-----------------------------------------------------------------------------
(* A position that runs twice.                                              *)

LEMMA DoubledIs ==
  ASSUME Lives, RunsTwice
  PROVE  /\ ~Right /\ promoted # {} /\ job.pc \in {"step", "wait"} /\ AtMostTwice
         /\ job.pc = "step" => chain["call"].st = "idle"
         /\ job.pc = "wait" => chain["call"].st \in {"arrived", "ran", "ok"} /\ chain["call"].at = job.pos
         /\ NoOrphan \/ (UnderWay(chain["orphan"]) /\ chain["orphan"].at <= job.pos)
         /\ \A s \in Stage : Serves(plan[s], s) /\ plan[s] = next_hop[s]
         /\ \A s \in Stage : Todo("call", s) \in {0, 1} /\ Todo("orphan", s) \in {0, 1} /\ Len(kv[s]) \in Nat
<1>1. PICK f \in NonHead : Recovered(f) /\ late
  BY DEF RunsTwice
<1>2. ~Right
  BY <1>1 DEF Recovered, Right, Attempt
<1>3. \A s \in Stage : Serves(plan[s], s) /\ plan[s] = next_hop[s]
  BY <1>1, PlanServes DEF Recovered, Lives
<1>4. \A s \in Stage : Todo("call", s) \in {0, 1} /\ Todo("orphan", s) \in {0, 1} /\ Len(kv[s]) \in Nat
  BY IsSeqIs DEF Todo, Lives, Shapes, KVShaped
<1> QED
  BY <1>1, <1>2, <1>3, <1>4 DEF Recovered

LEMMA DoubledKept ==
  ASSUME Lives, RunsTwice, UNCHANGED <<mode, crashed, next_hop, promoted, dead, plan, injected, late>>, Sorts',
         job'.pc \in {"step", "wait"}, AtMostTwice', job'.wrong => job'.pc = "step",
         (job.pc = "step" => chain["call"].st = "idle")',
         job'.pc = "wait" => chain'["call"].st \in {"arrived", "ran", "ok"} /\ chain'["call"].at = job'.pos,
         NoOrphan' \/ (UnderWay(chain["orphan"])' /\ chain'["orphan"].at <= job'.pos),
         \A s \in Stage : Len(kv'[s]) <= Prompt + MaxTokens + 1,
         \A i \in Handlers : chain'[i].blame \in {0} \cup NonHead, job'.n \in Slot
  PROVE  Kept
<1>1. PICK f \in NonHead : Recovered(f) /\ late
  BY DEF RunsTwice
<1>2. promoted # {} /\ job.pc \in {"step", "wait"}
  BY <1>1 DEF Recovered
<1>3. Recovered(f)'
  BY <1>1 DEF Recovered, Down
<1>4. ~Right' /\ PushedOnce'
  BY <1>1, <1>2 DEF Right, Attempt, PushedOnce
<1>5. Marks'
  BY SameMarks DEF Lives
<1>6. Outer'
  BY <1>1 DEF Lives, Outer
<1> QED
  BY <1>3, <1>4, <1>5, <1>6 DEF Kept, Phases, Contents

LEMMA StepDoubled ==
  ASSUME Lives, RunsTwice, Step
  PROVE  Kept
<1>1. /\ job.pc = "step" /\ Invoke(1, TRUE) /\ job' = [job EXCEPT !.pc = "wait"] /\ 1 \in Stage
      /\ UNCHANGED <<mode, crashed, next_hop, promoted, kv, dead, plan, cache, history, injected, late>>
  BY Lengths DEF Step, bounds
<1>2. job'.pc = "wait" /\ job'.pos = job.pos /\ job'.wrong = job.wrong /\ job'.n = job.n /\ ~job.wrong
  BY <1>1 DEF Lives, Shapes, JobShaped, Ended
<1>3. Right' => Right
  BY <1>1, <1>2, RightStays DEF Attempt
<1>4. chain' = [chain EXCEPT !["call"] = Invoked(1)] /\ Sorts'
  BY <1>1, <1>3, HeadServes, InvokeIs
<1>5. chain'["call"] = Invoked(1) /\ chain'["orphan"] = chain["orphan"]
  BY <1>4 DEF Lives, Shapes, ChainShaped, Handlers
<1>6. Invoked(1).st = "arrived" /\ Invoked(1).stage = 1 /\ Invoked(1).at = job.pos /\ Invoked(1).blame = 0
  BY DEF Invoked
<1>7. \A s \in Stage : Todo("call", s)' = Todo("call", s) /\ Todo("orphan", s)' = Todo("orphan", s)
  <2> TAKE s \in Stage
  <2>1. 1 <= s
    BY Lengths
  <2>2. chain["call"].st = "idle"
    BY <1>1, DoubledIs
  <2> QED
    BY <1>1, <1>2, <1>5, <1>6, <2>1, <2>2 DEF Todo
<1>8. AtMostTwice'
  BY <1>1, <1>2, <1>7, DoubledIs DEF AtMostTwice, After
<1>9. \A i \in Handlers : chain'[i].blame \in {0} \cup NonHead
  BY <1>5, <1>6 DEF Lives, Outer, Handlers
<1>10. NoOrphan' \/ (UnderWay(chain["orphan"])' /\ chain'["orphan"].at <= job'.pos)
  BY <1>2, <1>5, DoubledIs DEF NoOrphan, UnderWay
<1> QED
  BY <1>1, <1>2, <1>4, <1>5, <1>6, <1>8, <1>9, <1>10, DoubledKept DEF Lives, Outer

LEMMA StepDoneDoubled ==
  ASSUME Lives, RunsTwice, StepDone
  PROVE  Kept
<1>1. /\ job.pc = "wait" /\ chain["call"].st = "ok"
      /\ UNCHANGED <<mode, crashed, next_hop, promoted, kv, pushes, dead, plan, cache, history, injected, late>>
      /\ chain' = [chain EXCEPT !["call"] = Idle]
      /\ job'.n = 0
      /\ \/ job'.pc = "done"
         \/ job'.pc = "step" /\ job'.pos = job.pos + 1 /\ job'.pos \in Position
  BY StepDoneIs DEF Lives, Local, workers, bounds
<1>2. chain'["call"] = Idle /\ chain'["orphan"] = chain["orphan"] /\ Idle.st = "idle" /\ Idle.blame = 0
  BY <1>1 DEF Lives, Shapes, ChainShaped, Handlers, Idle
<1>3. Right' => Right
  BY <1>1, RightStays DEF Attempt
<1>4. Sorts' /\ Contents' /\ PushedOnce'
  <2>1. \A i \in Handlers : UnderWay(chain'[i]) => chain'[i].dev \notin crashed
    BY <1>2 DEF Lives, Sorts, GoneIdle, Handlers, UnderWay
  <2> QED
    BY <1>1, <1>3, <2>1, StillKeeps DEF Lives, Phases
<1>5. /\ \A i \in Handlers : chain'[i].blame \in {0} \cup NonHead
      /\ job'.n \in Slot /\ \A s \in Stage : Len(kv'[s]) <= Prompt + MaxTokens + 1
  BY <1>1, <1>2, Numbers DEF Lives, Outer, Handlers
<1>6. CASE job'.pc = "done"
  <2>1. Outer'
    BY <1>1, <1>5, <1>6 DEF Lives, Outer, RunsTwice
  <2>2. Marks'
    BY <1>1, SameMarks DEF Lives
  <2> QED
    BY <1>4, <1>6, <2>1, <2>2 DEF Kept, Ended
<1>7. CASE job'.pc = "step" /\ job'.pos = job.pos + 1 /\ job'.pos \in Position
  <2>1. job.pos \in Position /\ job.pos \in Nat /\ Prompt \in Nat
    BY Numbers DEF Lives, Shapes, JobShaped
  <2>2. AtMostTwice'
    <3>1. ASSUME NEW s \in Stage
          PROVE  /\ Todo("call", s)' = 1 /\ Todo("orphan", s)' = Todo("orphan", s)
                 /\ Todo("call", s) = 0
      BY <1>1, <1>2, <1>7 DEF Todo
    <3>2. ASSUME NEW s \in Stage
          PROVE  Len(kv'[s]) + Todo("call", s)' + Todo("orphan", s)' <= After(job'.pos) + 1
      <4>1. Len(kv[s]) + Todo("call", s) + Todo("orphan", s) <= After(job.pos) + 1
        BY DoubledIs DEF AtMostTwice
      <4>2. Todo("orphan", s) \in {0, 1} /\ Len(kv[s]) \in Nat
        BY DoubledIs
      <4>3. kv'[s] = kv[s]
        BY <1>1
      <4> QED
        BY <1>7, <2>1, <3>1, <4>1, <4>2, <4>3 DEF After
    <3> QED
      BY <3>2 DEF AtMostTwice, After
  <2>3. NoOrphan' \/ (UnderWay(chain["orphan"])' /\ chain'["orphan"].at <= job'.pos)
    <3>1. CASE NoOrphan
      BY <1>2, <3>1 DEF NoOrphan
    <3>2. CASE ~NoOrphan
      <4>1. UnderWay(chain["orphan"]) /\ chain["orphan"].at <= job.pos
        BY <3>2, DoubledIs
      <4>2. chain["orphan"].at \in Nat
        BY Numbers DEF Lives, Shapes, ChainShaped, Handlers, HandlerType
      <4>3. chain["orphan"].at <= job'.pos
        BY <1>7, <2>1, <4>1, <4>2
      <4> QED
        BY <1>2, <4>1, <4>3 DEF UnderWay
    <3> QED
      BY <3>1, <3>2
  <2> QED
    BY <1>1, <1>2, <1>4, <1>5, <1>7, <2>2, <2>3, DoubledKept
<1> QED
  BY <1>1, <1>6, <1>7

\* A handler goes on, and has no more to run than before.
LEMMA HandlerDoubled ==
  ASSUME Lives, RunsTwice, NEW i \in Handlers, NEW t \in HandlerType, UnderWay(chain[i]),
         chain' = [chain EXCEPT ![i] = t], t.blame \in {0} \cup NonHead,
         \/ UnderWay(t) /\ t.at = chain[i].at
         \/ i = "call" /\ t.st = "ok" /\ t.at = chain[i].at
         \/ i = "orphan" /\ t.st = "idle",
         UNCHANGED <<mode, crashed, next_hop, promoted, dead, plan, job, injected, late>>, Sorts', AtMostTwice',
         \A s \in Stage : Len(kv'[s]) <= Prompt + MaxTokens + 1
  PROVE  Kept
<1>1. /\ DOMAIN chain = Handlers /\ chain'[i] = t
      /\ \A j \in Handlers : j # i => chain'[j] = chain[j]
      /\ "call" \in Handlers /\ "orphan" \in Handlers
  BY DEF Lives, Shapes, ChainShaped, Handlers
<1>2. ~job.wrong /\ job.n \in Slot
  BY DEF Lives, Ended, Outer
<1>3. \A j \in Handlers : chain'[j].blame \in {0} \cup NonHead
  BY <1>1 DEF Lives, Outer
<1>4. i = "call" => job.pc = "wait"
  BY DoubledIs DEF UnderWay
<1>5. (job.pc = "step" => chain["call"].st = "idle")'
  <2>1. job.pc = "step" => i # "call" /\ chain["call"].st = "idle"
    BY <1>4, DoubledIs
  <2> QED
    BY <1>1, <2>1
<1>6. job'.pc = "wait" => chain'["call"].st \in {"arrived", "ran", "ok"} /\ chain'["call"].at = job'.pos
  <2>1. CASE i = "call"
    BY <1>1, <2>1, DoubledIs DEF UnderWay
  <2>2. CASE i # "call"
    BY <1>1, <2>2, DoubledIs
  <2> QED
    BY <2>1, <2>2
<1>7. NoOrphan' \/ (UnderWay(chain["orphan"])' /\ chain'["orphan"].at <= job'.pos)
  <2>1. CASE i = "orphan"
    BY <1>1, <2>1, DoubledIs DEF UnderWay, NoOrphan
  <2>2. CASE i # "orphan"
    BY <1>1, <2>2, DoubledIs DEF UnderWay, NoOrphan
  <2> QED
    BY <2>1, <2>2
<1>8. job'.pc \in {"step", "wait"}
  BY DoubledIs
<1> QED
  BY <1>2, <1>3, <1>5, <1>6, <1>7, <1>8, DoubledKept

LEMMA TodoOthers ==
  ASSUME UNCHANGED job, NEW i \in Handlers, NEW k \in Handlers, chain'[k] = chain[k], NEW s
  PROVE  Todo(k, s)' = Todo(k, s)
  BY DEF Todo

LEMMA RunDoubled ==
  ASSUME Lives, RunsTwice, NEW i \in Handlers, Run(i)
  PROVE  Kept
<1>1. PICK h : h = chain[i]
  OBVIOUS
<1>2. /\ h \in HandlerType /\ h.st = "arrived" /\ h.stage \in Stage /\ h.at \in Position
      /\ chain' = [chain EXCEPT ![i] = Ran(h)]
      /\ UNCHANGED <<mode, crashed, next_hop, promoted, dead, plan, cache, history, job, injected, late>>
      /\ \A s \in Stage : s # h.stage => kv'[s] = kv[s]
      /\ Len(kv'[h.stage]) = IF h.at = 0 THEN Prompt ELSE Len(kv[h.stage]) + 1
      /\ Sorts'
  BY <1>1, RunIs DEF Lives
<1>3. /\ Ran(h) \in HandlerType /\ Ran(h).st = "ran" /\ Ran(h).at = h.at /\ Ran(h).stage = h.stage
      /\ Ran(h).blame = h.blame
  BY <1>2, RanIs DEF Lives
<1>4. chain'[i] = Ran(h) /\ \A k \in Handlers : k # i => chain'[k] = chain[k]
  BY <1>2 DEF Lives, Shapes, ChainShaped
<1>5. job.pos \in Nat /\ job.pos \in Position /\ job.pos < MaxTokens /\ Prompt \in Nat /\ MaxTokens \in Nat
  BY Numbers DEF Lives, Shapes, JobShaped
<1>6. PICK o \in Handlers : {i, o} = {"call", "orphan"} /\ o # i
  BY DEF Handlers
<1>7. ASSUME NEW s \in Stage
      PROVE  /\ Len(kv'[s]) + Todo(i, s)' + Todo(o, s)' <= After(job.pos) + 1
             /\ Len(kv'[s]) + Todo("call", s)' + Todo("orphan", s)' <= After(job.pos) + 1
             /\ Len(kv'[s]) <= Prompt + MaxTokens + 1
  <2>1. Todo(o, s)' = Todo(o, s) /\ Todo(o, s) \in {0, 1} /\ Len(kv[s]) \in Nat
    <3>1. Todo(o, s)' = Todo(o, s)
      BY <1>2, <1>4, <1>6, TodoOthers
    <3>2. Todo("call", s) \in {0, 1} /\ Todo("orphan", s) \in {0, 1} /\ Len(kv[s]) \in Nat
      BY DoubledIs
    <3> QED
      BY <3>1, <3>2 DEF Handlers
  <2>2. Len(kv[s]) + Todo(i, s) + Todo(o, s) <= After(job.pos) + 1
    <3>1. Len(kv[s]) + Todo("call", s) + Todo("orphan", s) <= After(job.pos) + 1
      BY DoubledIs DEF AtMostTwice
    <3>2. Todo("call", s) \in {0, 1} /\ Todo("orphan", s) \in {0, 1}
      BY DoubledIs
    <3> QED
      BY <1>6, <2>1, <3>1, <3>2
  <2>3. s \in Nat /\ h.stage \in Nat /\ h.st # "ran" /\ h.st # "idle"
    BY <1>2, Lengths
  <2>4. Todo(i, s)' = (IF h.stage < s THEN 1 ELSE 0) /\ Todo(i, s) = (IF h.stage <= s THEN 1 ELSE 0)
    BY <1>1, <1>2, <1>3, <1>4, <2>3 DEF Todo
  <2>5. Len(kv'[s]) \in Nat /\ Len(kv'[s]) + Todo(i, s)' + Todo(o, s)' <= After(job.pos) + 1
    <3>1. CASE s = h.stage
      <4>1. Todo(i, s)' = 0 /\ Todo(i, s) = 1
        BY <2>3, <2>4, <3>1
      <4>2. CASE h.at = 0
        <5>1. Len(kv'[s]) = Prompt
          BY <1>2, <3>1, <4>2
        <5> QED
          BY <1>5, <2>1, <4>1, <5>1 DEF After
      <4>3. CASE h.at # 0
        <5>1. Len(kv'[s]) = Len(kv[s]) + 1
          BY <1>2, <3>1, <4>3
        <5> QED
          BY <1>5, <2>1, <2>2, <4>1, <5>1 DEF After
      <4> QED
        BY <4>2, <4>3
    <3>2. CASE s # h.stage
      <4>1. Todo(i, s)' = Todo(i, s)
        BY <2>3, <2>4, <3>2
      <4> QED
        BY <1>2, <2>1, <2>2, <3>2, <4>1
    <3> QED
      BY <3>1, <3>2
  <2>6. Todo(i, s)' \in {0, 1}
    BY <2>4
  <2>7. Len(kv'[s]) <= Prompt + MaxTokens + 1
    BY <1>5, <2>1, <2>5, <2>6 DEF After
  <2>8. Len(kv'[s]) + Todo("call", s)' + Todo("orphan", s)' = Len(kv'[s]) + Todo(i, s)' + Todo(o, s)'
    <3>1. CASE i = "call" /\ o = "orphan"
      BY <3>1
    <3>2. CASE i = "orphan" /\ o = "call"
      BY <2>1, <2>5, <2>6, <3>2
    <3> QED
      BY <1>6, <3>1, <3>2 DEF Handlers
  <2> QED
    BY <2>5, <2>7, <2>8
<1>8. AtMostTwice'
  BY <1>2, <1>7 DEF AtMostTwice, After
<1>9. Ran(h).blame \in {0} \cup NonHead
  BY <1>1, <1>3 DEF Lives, Outer
<1> QED
  BY <1>1, <1>2, <1>3, <1>7, <1>8, <1>9, HandlerDoubled DEF UnderWay

LEMMA ForwardDoubled ==
  ASSUME Lives, RunsTwice, NEW i \in Handlers, Forward(i)
  PROVE  Kept
<1>1. PICK h : h = chain[i]
  OBVIOUS
<1>2. /\ h \in HandlerType /\ h.st = "ran" /\ h.stage \in Stage
      /\ UNCHANGED <<mode, crashed, next_hop, promoted, kv, dead, plan, cache, history, job, injected, late>>
      /\ \/ h.stage < N /\ Reached(i, Onward(h))
         \/ h.stage = N /\ chain' = [chain EXCEPT ![i] = IF i = "call" THEN Answered(h) ELSE Idle]
      /\ Sorts'
  BY <1>1, ForwardIs DEF Lives, Phases
<1>3. h.blame \in {0} \cup NonHead
  BY <1>1 DEF Lives, Outer
<1>4. ASSUME NEW t \in HandlerType, chain' = [chain EXCEPT ![i] = t], t.blame \in {0} \cup NonHead,
             \/ UnderWay(t) /\ t.at = chain[i].at
             \/ i = "call" /\ t.st = "ok" /\ t.at = chain[i].at
             \/ i = "orphan" /\ t.st = "idle",
             t.st = "arrived" => t.stage = h.stage + 1,
             t.st # "ran", t.st = "idle" => i # "call"
      PROVE  Kept
  <2>1. chain'[i] = t /\ \A k \in Handlers : k # i => chain'[k] = chain[k]
    BY <1>4 DEF Lives, Shapes, ChainShaped
  <2>2. ASSUME NEW s \in Stage
        PROVE  /\ Todo("call", s)' \in {0, 1} /\ Todo("call", s)' <= Todo("call", s)
               /\ Todo("orphan", s)' \in {0, 1} /\ Todo("orphan", s)' <= Todo("orphan", s)
    <3>1. Todo("call", s) \in {0, 1} /\ Todo("orphan", s) \in {0, 1}
      BY DoubledIs
    <3>2. \A k \in Handlers : k # i => Todo(k, s)' = Todo(k, s)
      BY <1>2, <2>1, TodoOthers
    <3>3. Todo(i, s)' \in {0, 1} /\ Todo(i, s)' <= Todo(i, s)
      <4>1. s \in Nat /\ h.stage \in Nat
        BY <1>2, Lengths
      <4>2. Todo(i, s)' = IF t.st = "arrived" /\ h.stage + 1 <= s THEN 1 ELSE 0
        BY <1>2, <1>4, <2>1 DEF Todo
      <4>3. Todo(i, s) = IF h.stage < s THEN 1 ELSE 0
        BY <1>1, <1>2, <4>1 DEF Todo
      <4> QED
        BY <4>1, <4>2, <4>3
    <3> QED
      BY <3>1, <3>2, <3>3 DEF Handlers
  <2>3. AtMostTwice'
    <3>1. ASSUME NEW s \in Stage
          PROVE  Len(kv[s]) + Todo("call", s)' + Todo("orphan", s)' <= After(job.pos) + 1
      <4>1. Len(kv[s]) + Todo("call", s) + Todo("orphan", s) <= After(job.pos) + 1
        BY DoubledIs DEF AtMostTwice
      <4>2. Todo("call", s) \in {0, 1} /\ Todo("orphan", s) \in {0, 1} /\ Len(kv[s]) \in Nat
        BY DoubledIs
      <4>3. After(job.pos) \in Nat
        BY Numbers DEF After, Lives, Shapes, JobShaped
      <4> QED
        BY <2>2, <4>1, <4>2, <4>3
    <3> QED
      BY <1>2, <3>1 DEF AtMostTwice, After
  <2>4. \A s \in Stage : Len(kv'[s]) <= Prompt + MaxTokens + 1
    BY <1>2 DEF Lives, Outer
  <2>5. UnderWay(chain[i])
    BY <1>1, <1>2 DEF UnderWay
  <2> QED
    BY <1>2, <1>4, <2>3, <2>4, <2>5, HandlerDoubled
<1>5. CASE h.stage < N /\ Reached(i, Onward(h))
  <2> DEFINE t == Onward(h)
  <2>1. /\ t \in HandlerType /\ t.st = "arrived" /\ t.stage = h.stage + 1 /\ t.dev = next_hop[h.stage + 1]
        /\ t.at = h.at /\ t.blame = h.blame /\ h.stage + 1 \in Stage
    BY <1>2, <1>5, OnwardIs DEF Lives
  <2>2. Reached(i, t)
    BY <1>5
  <2> HIDE DEF t
  <2>3. Serves(t.dev, t.stage)
    BY <2>1, DoubledIs
  <2>4. chain' = [chain EXCEPT ![i] = t]
    BY <2>2, <2>3 DEF Reached
  <2> QED
    BY <1>1, <1>3, <1>4, <2>1, <2>4 DEF UnderWay
<1>6. CASE h.stage = N /\ chain' = [chain EXCEPT ![i] = IF i = "call" THEN Answered(h) ELSE Idle]
  <2>1. CASE i = "call"
    BY <1>1, <1>2, <1>3, <1>4, <1>6, <2>1, AnsweredIs
  <2>2. CASE i = "orphan"
    <3>1. Idle \in HandlerType /\ Idle.st = "idle" /\ Idle.blame = 0
      BY IdleType DEF Idle
    <3> QED
      BY <1>4, <1>6, <2>2, <3>1
  <2> QED
    BY <2>1, <2>2 DEF Handlers
<1> QED
  BY <1>2, <1>5, <1>6

-----------------------------------------------------------------------------
(* An abandoned handler, and the start of the recovery.                     *)

LEMMA OrphanKept ==
  ASSUME Lives, Run("orphan") \/ Forward("orphan")
  PROVE  Kept
<1>2. ~NoOrphan
  BY DEF Run, Forward, NoOrphan
<1>3. "orphan" \in Handlers
  BY DEF Handlers
<1>4. ~Fresh
  BY <1>2 DEF Fresh, Going
<1>5. ASSUME NEW f \in NonHead, Noticed(f)
      PROVE  Kept
  <2>1. PICK e \in 0..N : Stopped(f, e, Stage)
    BY <1>5 DEF Noticed
  <2>2. /\ UNCHANGED <<mode, crashed, next_hop, promoted, dead, plan, cache, history, job, injected, late>>
        /\ Sorts' /\ Contents' /\ PushedOnce' /\ KeptStay /\ Outer'
        /\ kv'[f] = kv[f] /\ chain'["call"] = chain["call"]
        /\ \E e2 \in 0..N : Stopped(f, e2, Stage)'
    BY <1>5, <2>1, OrphanMoves DEF Lives, Phases, Noticed
  <2>3. Noticed(f)'
    BY <1>5, <2>2 DEF Noticed, Down
  <2>4. Marks'
    BY <2>2, SameMarks DEF Lives
  <2> QED
    BY <2>2, <2>3, <2>4 DEF Kept, Phases
<1>6. ASSUME NEW f \in NonHead, Recovering(f)
      PROVE  Kept
  <2>1. PICK S : S = IF Promoted THEN Stage \ {f} ELSE Stage
    OBVIOUS
  <2>2. PICK e \in 0..N : Stopped(f, e, S)
    BY <1>6, <2>1 DEF Recovering, RecoveryAt
  <2>3. promoted = {} => next_hop = Placement
    BY <1>6 DEF Recovering, RecoveryAt, Promoted
  <2>4. /\ UNCHANGED <<mode, crashed, next_hop, promoted, dead, plan, cache, history, job, injected, late>>
        /\ Sorts' /\ Contents' /\ PushedOnce' /\ KeptStay /\ Outer'
        /\ kv'[f] = kv[f] /\ chain'["call"] = chain["call"]
        /\ \A s \in Stage : Len(kv[s]) \in Nat /\ Len(kv'[s]) \in Nat /\ Len(kv[s]) <= Len(kv'[s])
        /\ \A s, j : Queued(s, j)' => Queued(s, j) \/ (s # f /\ ~(j < Len(kv[s])))
        /\ \E e2 \in 0..N : Stopped(f, e2, S)'
    BY <2>1, <2>2, <2>3, OrphanMoves DEF Lives, Phases
  <2>5. \E e2 \in 0..N : Stopped(f, e2, IF Promoted THEN Stage \ {f} ELSE Stage)'
    <3>1. S = (IF Promoted THEN Stage \ {f} ELSE Stage)'
      BY <2>1, <2>4 DEF Promoted
    <3> QED
      BY <2>4, <3>1 DEF Stopped, KVAt
  <2>6. chain'["call"].st = "idle"
    BY <1>6, <2>4 DEF Recovering, RecoveryAt
  <2>7. Recovering(f)'
    BY <1>6, <2>4, <2>5, <2>6, RecoveringStays DEF Lives
  <2>8. Marks'
    BY <2>4, SameMarks DEF Lives
  <2> QED
    BY <2>4, <2>7, <2>8 DEF Kept, Phases
<1>7. ASSUME NEW f \in NonHead, Recovered(f)
      PROVE  Kept
  <2>1. RunsTwice
    BY <1>2, <1>7 DEF Recovered, Going, RunsTwice
  <2> QED
    BY <1>3, <2>1, RunDoubled, ForwardDoubled
<1> QED
  BY <1>4, <1>5, <1>6, <1>7 DEF Lives, Phases

\* The attempt is over.
LEMMA OverEnds ==
  ASSUME Shapes, ~job.wrong, NEW why \in {"surgical", "failed"}, job' = Over(why)
  PROVE  /\ Ended' /\ ~job'.wrong /\ job'.n \in Slot /\ job'.pc \notin Attempt
  BY OverIs, Numbers DEF Ended, Attempt

LEMMA RebuildingIs ==
  ASSUME JobShaped(job), NEW f \in NonHead
  PROVE  /\ Rebuilding(<<f>>).pos = job.pos /\ Rebuilding(<<f>>).wrong = job.wrong
         /\ Rebuilding(<<f>>).victims = <<f>> /\ Rebuilding(<<f>>).held = job.held
         /\ mode = "replicate" => /\ Rebuilding(<<f>>).pc = "gate" /\ Rebuilding(<<f>>).k = 0
                                  /\ Rebuilding(<<f>>).n = Before(job.pos)
         /\ mode # "replicate" => /\ Rebuilding(<<f>>).pc = "fetch" /\ Rebuilding(<<f>>).n = job.n
                                  /\ Rebuilding(<<f>>).got = [s \in NonHead \ {f} |-> << >>]
<1>1. PICK v : v = <<f>>
  OBVIOUS
<1>2. ToSet(v) = {f}
  BY <1>1 DEF ToSet
<1>3. NonHead # ToSet(v)
  <2>1. 2 \in NonHead /\ 3 \in NonHead
    BY Lengths
  <2> QED
    BY <1>2, <2>1
<1>4. CASE mode = "replicate"
  <2>1. Rebuilding(v) = [pc |-> "gate", pos |-> job.pos, wrong |-> job.wrong, victims |-> v,
                         n |-> Before(job.pos), k |-> 0, got |-> job.got, held |-> job.held,
                         recon |-> job.recon]
    BY <1>4 DEF Rebuilding, JobShaped
  <2> QED
    BY <1>1, <1>4, <2>1
<1>5. CASE mode # "replicate"
  <2> DEFINE got == [s \in NonHead \ ToSet(v) |-> << >>]
  <2>1. Rebuilding(v) = [pc |-> "fetch", pos |-> job.pos, wrong |-> job.wrong, victims |-> v,
                         n |-> job.n, k |-> job.k, got |-> got, held |-> job.held,
                         recon |-> job.recon]
    BY <1>3, <1>5 DEF Rebuilding, JobShaped
  <2>2. got = [s \in NonHead \ {f} |-> << >>]
    BY <1>2
  <2> HIDE DEF got
  <2> QED
    BY <1>1, <1>5, <2>1, <2>2
<1> QED
  BY <1>4, <1>5

LEMMA OneDeadKept ==
  ASSUME Lives, OneDead
  PROVE  Kept
<1>1. PICK f : f = chain["call"].blame
  OBVIOUS
<1>2. /\ job.pc = "wait" /\ chain["call"].st = "error"
      /\ IF Placement[f] \in dead THEN UNCHANGED <<dead, plan>> ELSE MarkDead(Placement[f])
      /\ job' = IF Placement[f] \notin dead /\ ~Viable(Placement, Recovery, dead \cup {Placement[f]})
                THEN Over("failed") ELSE Rebuilding(<<f>>)
      /\ chain' = [chain EXCEPT !["call"] = Idle]
      /\ UNCHANGED <<mode, crashed, next_hop, promoted, kv, pushes, cache, history, injected, late>>
  BY <1>1 DEF OneDead, workers, bounds
<1>3. f \in NonHead /\ Noticed(f)
  <2>1. ~Fresh
    BY <1>2 DEF Fresh, Going
  <2>2. ASSUME NEW g \in NonHead, Recovering(g) \/ Recovered(g) PROVE FALSE
    BY <1>2, <2>2 DEF Recovering, RecoveryAt, Recovered, Going, Attempt
  <2> QED
    BY <1>1, <2>1, <2>2 DEF Lives, Phases, Noticed
<1>4. /\ Down(f) /\ dead \subseteq crashed /\ next_hop = Placement /\ promoted = {} /\ ~job.wrong
      /\ job.held = << >>
  BY <1>3 DEF Noticed
<1>5. PICK e \in 0..N : Stopped(f, e, Stage)
  BY <1>3 DEF Noticed
<1>6. chain'["call"] = Idle /\ chain'["orphan"] = chain["orphan"] /\ Idle.st = "idle" /\ Idle.blame = 0
  BY <1>2 DEF Lives, Shapes, ChainShaped, Handlers, Idle
<1>7. dead' = {Placement[f]} /\ Marks'
  <2>1. crashed = {Placement[f]} \/ (crashed = {} /\ injected = 1)
    BY <1>3, <1>4, DownIs DEF Lives, Down
  <2>2. CASE Placement[f] \in dead
    <3>1. dead' = {Placement[f]}
      BY <1>2, <1>4, <2>1, <2>2
    <3> QED
      BY <1>2, <2>2, <3>1, SameMarks DEF Lives
  <2>3. CASE Placement[f] \notin dead
    <3>1. dead = {}
      BY <1>4, <2>1, <2>3
    <3>2. dead' = {Placement[f]}
      BY <1>2, <2>3, <3>1 DEF MarkDead
    <3>3. plan' = PlanOf(dead')
      <4>1. plan = Placement
        BY <3>1, PlanOfNobody DEF Lives, Marks
      <4> QED
        BY <1>2, <2>3, <4>1 DEF MarkDead, PlanOf
    <3>4. Marks'
      BY <1>2, <1>3, <2>1, <3>2, <3>3 DEF Lives, Marks, PlanOf
    <3> QED
      BY <3>2, <3>4
  <2> QED
    BY <2>2, <2>3
<1>8. \A i \in Handlers : chain'[i].blame \in {0} \cup NonHead
  BY <1>6 DEF Lives, Outer, Handlers
<1>9. Sorts' /\ Contents' /\ PushedOnce'
  <2>1. Right' => Right
    BY <1>4 DEF Right
  <2>2. \A i \in Handlers : UnderWay(chain'[i]) => chain'[i].dev \notin crashed
    BY <1>6 DEF Lives, Sorts, GoneIdle, Handlers, UnderWay
  <2> QED
    BY <1>2, <2>1, <2>2, StillKeeps DEF Lives, Phases
<1>10. CASE job' = Over("failed")
  <2>1. Ended' /\ ~job'.wrong /\ job'.n \in Slot
    BY <1>4, <1>10, OverEnds DEF Lives
  <2>2. Outer'
    BY <1>2, <1>8, <2>1 DEF Lives, Outer
  <2> QED
    BY <1>7, <1>9, <2>1, <2>2 DEF Kept
<1>11. CASE ~(Placement[f] \notin dead /\ ~Viable(Placement, Recovery, dead \cup {Placement[f]}))
            /\ job' = Rebuilding(<<f>>)
  <2>1. /\ job'.pos = job.pos /\ job'.wrong = job.wrong /\ job'.victims = <<f>> /\ job'.held = << >>
        /\ mode = "replicate" => job'.pc = "gate" /\ job'.k = 0 /\ job'.n = Before(job.pos)
        /\ mode # "replicate" => /\ job'.pc = "fetch" /\ job'.n = job.n
                                 /\ job'.got = [s \in NonHead \ {f} |-> << >>]
    BY <1>3, <1>4, <1>11, RebuildingIs DEF Lives, Shapes
  <2>2. job'.pc \in {"gate", "fetch"}
    BY <2>1
  <2>3. ~Promoted'
    BY <2>2 DEF Promoted
  <2>4. (injected = 1 => Viable(Placement, Recovery, dead))'
    <3>1. SUFFICES ASSUME injected = 1 PROVE Viable(Placement, Recovery, dead')
      BY <1>2
    <3>2. crashed = {}
      BY <1>3, <1>4, <3>1, DownIs DEF Lives
    <3>3. dead = {}
      BY <1>4, <3>2
    <3>4. Viable(Placement, Recovery, {Placement[f]})
      BY <1>11, <3>3
    <3> QED
      BY <1>7, <3>4
  <2>5. Stopped(f, e, Stage)'
    BY <1>2, <1>5, <1>6, <2>1 DEF Stopped, NoOrphan, KVAt, OnItsWay, After
  <2>6. RecoveryAt(f)'
    <3>1. job'.pc \in Attempt
      BY <2>2 DEF Attempt
    <3>2. Down(f)'
      BY <1>2, <1>4 DEF Down
    <3>3. job'.pc \notin {"rebuild", "load"}
      BY <2>2
    <3> QED
      BY <1>2, <1>4, <1>6, <1>7, <2>1, <2>3, <2>4, <2>5, <3>1, <3>2, <3>3 DEF RecoveryAt
  <2>7. mode = "replicate" => ReplicaStep(f)'
    BY <1>2, <2>1 DEF ReplicaStep
  <2>8. mode # "replicate" => ParityStep(f)'
    BY <1>2, <2>1 DEF ParityStep
  <2>9. Recovering(f)'
    BY <1>2, <2>2, <2>6, <2>7, <2>8 DEF Recovering
  <2>10. job'.n \in Slot
    BY <2>1, Numbers DEF Lives, Shapes, JobShaped, Outer
  <2>11. Outer'
    BY <1>2, <1>4, <1>8, <2>1, <2>10 DEF Lives, Outer
  <2> QED
    BY <1>3, <1>7, <1>9, <2>9, <2>11 DEF Kept, Phases
<1> QED
  BY <1>2, <1>10, <1>11

-----------------------------------------------------------------------------
(* The steps of the recovery.                                               *)

LEMMA Recoverable ==
  ASSUME Lives, job.pc \in Attempt
  PROVE  \E f \in NonHead : Recovering(f)
<1>1. ~Fresh
  BY DEF Fresh, Going, Attempt
<1>2. \A f \in NonHead : ~Noticed(f) /\ ~Recovered(f)
  BY DEF Noticed, Recovered, Attempt
<1> QED
  BY <1>1, <1>2 DEF Lives, Phases

\* Only the gateway's thread moves, and it calls nobody.
AloneJob ==
  UNCHANGED <<mode, crashed, next_hop, promoted, kv, pushes, dead, plan, cache, history, chain,
              injected, late>>

LEMMA JobKept ==
  ASSUME Lives, NEW f \in NonHead, RecoveryAt(f), AloneJob, job'.n \in Slot, ~job'.wrong,
         Ended' \/ Recovering(f)'
  PROVE  Kept
<1>0. /\ UNCHANGED <<mode, crashed, next_hop, promoted, kv, pushes, dead, plan, cache, history, chain>>
      /\ UNCHANGED <<injected, late>>
  BY DEF AloneJob
<1>1. Right' => Right
  BY DEF Right, RecoveryAt
<1>2. \A i \in Handlers : UnderWay(chain'[i]) => chain'[i].dev \notin crashed
  BY <1>0 DEF Lives, Sorts, GoneIdle
<1>3. Sorts' /\ Contents' /\ PushedOnce'
  BY <1>0, <1>1, <1>2, StillKeeps DEF Lives, Phases
<1>4. Marks'
  BY <1>0, SameMarks DEF Lives
<1>5. Outer'
  BY <1>0 DEF Lives, Outer
<1> QED
  BY <1>3, <1>4, <1>5 DEF Kept, Phases

LEMMA GivesUpKept ==
  ASSUME Lives, NEW f \in NonHead, RecoveryAt(f), AloneJob, GivesUp
  PROVE  Kept
<1>1. Shapes /\ ~job.wrong
  BY DEF Lives, RecoveryAt
<1>2. PICK why \in {"surgical", "failed"} : job' = Over(why)
  BY DEF GivesUp
<1>3. Ended' /\ ~job'.wrong /\ job'.n \in Slot
  BY <1>1, <1>2, OverEnds
<1> QED
  BY <1>3, JobKept

LEMMA GoesIs ==
  ASSUME NEW pc, NEW n, NEW k, NEW got, NEW held, NEW recon, Goes(pc, n, k, got, held, recon)
  PROVE  /\ job'.pc = pc /\ job'.n = n /\ job'.k = k /\ job'.got = got /\ job'.held = held
         /\ job'.recon = recon /\ job'.pos = job.pos /\ job'.wrong = job.wrong
         /\ job'.victims = job.victims
  BY DEF Goes, Made

LEMMA RecoveryAtStays ==
  ASSUME NEW f \in NonHead, RecoveryAt(f), AloneJob, job'.pc \in Attempt, job'.pos = job.pos,
         job'.wrong = job.wrong, job'.victims = job.victims, job'.held = job.held,
         Promoted' <=> Promoted, job'.pc \in {"rebuild", "load"} <=> job.pc \in {"rebuild", "load"}
  PROVE  RecoveryAt(f)'
<1>1. \E e \in 0..N : Stopped(f, e, IF Promoted THEN Stage \ {f} ELSE Stage)'
  <2>1. PICK e \in 0..N : Stopped(f, e, IF Promoted THEN Stage \ {f} ELSE Stage)
    BY DEF RecoveryAt
  <2>2. Stopped(f, e, IF Promoted THEN Stage \ {f} ELSE Stage)'
    BY <2>1 DEF Stopped, AloneJob, NoOrphan, KVAt, OnItsWay, After
  <2> QED
    BY <2>2
<1> QED
  BY <1>1 DEF RecoveryAt, AloneJob, Down

\* What a recovery has beside its step.
LEMMA VictimIs ==
  ASSUME NEW f \in NonHead, RecoveryAt(f)
  PROVE  /\ Victim = f /\ job.victims[1] = f /\ Len(job.victims) = 1 /\ DOMAIN job.victims = {1}
         /\ f \in Stage /\ ~job.wrong
  BY Lengths DEF RecoveryAt, Victim

LEMMA FetchIs ==
  ASSUME Lives, NEW f \in NonHead, Recovering(f), Fetch
  PROVE  /\ job.pc = "fetch" /\ AloneJob /\ mode # "replicate"
         /\ \/ GivesUp
            \/ \E s \in NonHead \ {f} :
                 /\ export_kv(s) # << >>
                 /\ Goes("fetch", job.n, job.k, [job.got EXCEPT ![s] = export_kv(s)], job.held, job.recon)
<1> DEFINE todo == {s \in DOMAIN job.got : job.got[s] = << >>}
           s == Min(todo)
           b == _fetch_stage_kv(s)
<1>1. job.pc = "fetch" /\ todo # {} /\ JobShaped(job)
  BY DEF Fetch, Lives, Shapes
<1>2. AloneJob
  BY DEF Fetch, AloneJob, Local, workers, bounds
<1>3. mode # "replicate" /\ DOMAIN job.got = NonHead \ {f}
  BY <1>1 DEF Recovering, ReplicaStep, ParityStep
<1>4. s \in NonHead \ {f}
  <2>1. todo \in SUBSET Nat
    BY <1>3, Lengths
  <2>2. s \in todo
    BY <1>1, <2>1, MinOf
  <2> QED
    BY <1>3, <2>2
<1>5. job' = (IF b # << >> THEN [job EXCEPT !.got[s] = b] ELSE Over("surgical"))
  BY DEF Fetch
<1>6. b # << >> => b = export_kv(s)
  BY DEF _fetch_stage_kv, FetchKV
<1> HIDE DEF todo, s, b
<1>7. CASE b # << >>
  <2>1. job' = [job EXCEPT !.got[s] = b]
    BY <1>5, <1>7
  <2> DEFINE g == [job.got EXCEPT ![s] = b]
  <2>2. job' = [pc |-> "fetch", pos |-> job.pos, wrong |-> job.wrong, victims |-> job.victims,
                n |-> job.n, k |-> job.k, got |-> g, held |-> job.held, recon |-> job.recon]
    BY <1>1, <2>1 DEF JobShaped
  <2>3. g = [job.got EXCEPT ![s] = export_kv(s)]
    BY <1>6, <1>7
  <2> HIDE DEF g
  <2>4. Goes("fetch", job.n, job.k, g, job.held, job.recon)
    BY <2>2 DEF Goes, Made
  <2> QED
    BY <1>1, <1>2, <1>3, <1>4, <1>6, <1>7, <2>3, <2>4
<1>8. CASE b = << >>
  BY <1>1, <1>2, <1>3, <1>5, <1>8 DEF GivesUp
<1> QED
  BY <1>7, <1>8

LEMMA FetchKept ==
  ASSUME Lives, NEW f \in NonHead, Recovering(f), Fetch
  PROVE  Kept
<1>1. /\ job.pc = "fetch" /\ AloneJob /\ mode # "replicate"
      /\ \/ GivesUp
         \/ \E s \in NonHead \ {f} :
              /\ export_kv(s) # << >>
              /\ Goes("fetch", job.n, job.k, [job.got EXCEPT ![s] = export_kv(s)], job.held, job.recon)
  BY FetchIs
<1>2. RecoveryAt(f) /\ ParityStep(f)
  BY <1>1 DEF Recovering
<1>3. CASE GivesUp
  BY <1>1, <1>2, <1>3, GivesUpKept
<1>4. ASSUME NEW s \in NonHead \ {f}, export_kv(s) # << >>,
             Goes("fetch", job.n, job.k, [job.got EXCEPT ![s] = export_kv(s)], job.held, job.recon)
      PROVE  Kept
  <2>0. s \in NonHead /\ s \in Stage /\ s # f /\ s \in Nat /\ f \in Nat
    BY Lengths
  <2>1. PICK g : g = [job.got EXCEPT ![s] = export_kv(s)]
    OBVIOUS
  <2>2. /\ job'.pc = "fetch" /\ job'.n = job.n /\ job'.k = job.k /\ job'.got = g /\ job'.held = job.held
        /\ job'.recon = job.recon /\ job'.pos = job.pos /\ job'.wrong = job.wrong
        /\ job'.victims = job.victims
    BY <1>4, <2>1, GoesIs
  <2>3. ~Promoted /\ ~Promoted'
    BY <1>1, <2>2 DEF Promoted
  <2>4. DOMAIN job.got = NonHead \ {f} /\ \A t \in NonHead \ {f} : job.got[t] = << >> \/ FetchedFrom(f, t)
    BY <1>1, <1>2 DEF ParityStep
  <2>5. DOMAIN g = NonHead \ {f} /\ g[s] = export_kv(s) /\ \A t \in NonHead \ {f} : t # s => g[t] = job.got[t]
    BY <2>1, <2>4
  <2>6. PICK e \in 0..N : Stopped(f, e, Stage)
    BY <1>2, <2>3 DEF RecoveryAt
  <2>7. PICK m : m = IF s <= e THEN After(job.pos) ELSE Before(job.pos)
    OBVIOUS
  <2>8. kv[s] = Prefix(s, m)
    BY <2>0, <2>6, <2>7 DEF Stopped, KVAt
  <2>9. m \in Nat /\ m \in {After(job.pos), Before(job.pos)}
    BY <2>7, Numbers DEF After, Lives, Shapes, JobShaped
  <2>10. m # 0
    <3>1. SUFFICES ASSUME m = 0 PROVE FALSE
      OBVIOUS
    <3>2. Len(kv[s]) = 0
      BY <2>8, <2>9, <3>1, PrefixIs
    <3>3. LayersOf[s] * 0 = 0
      BY <2>0, Lengths
    <3>4. DOMAIN export_kv(s) = {}
      BY <3>2, <3>3 DEF export_kv
    <3>5. export_kv(s) = << >>
      BY <3>4, <1>4 DEF export_kv
    <3> QED
      BY <1>4, <3>5
  <2>11. export_kv(s) = LayerMajor(s, Prefix(s, m))
    BY <2>8 DEF export_kv, LayerMajor
  <2>12. ~late /\ s > f => m = Before(job.pos)
    <3>1. ~late => e <= f /\ e \in Nat
      BY <2>6 DEF Stopped
    <3>2. ~late /\ s > f => ~(s <= e)
      BY <2>0, <3>1
    <3> QED
      BY <2>7, <3>2
  <2>13. late' = late
    BY <1>1 DEF AloneJob
  <2>14. FetchedFrom(f, s)'
    <3>1. m \in Sizes'
      BY <2>2, <2>9, <2>10 DEF Sizes, After
    <3>2. job'.got[s] = LayerMajor(s, Prefix(s, m))
      BY <2>2, <2>5, <2>11
    <3>3. ~late' /\ s > f => m = Before(job'.pos)
      BY <2>2, <2>12, <2>13
    <3> QED
      BY <2>2, <3>1, <3>2, <3>3 DEF FetchedFrom
  <2>15. ASSUME NEW t \in NonHead \ {f}
         PROVE  job'.got[t] = << >> \/ FetchedFrom(f, t)'
    <3>1. CASE t = s
      BY <2>14, <3>1
    <3>2. CASE t # s
      BY <1>1, <2>2, <2>4, <2>5, <2>13, <3>2 DEF FetchedFrom, Sizes, After
    <3> QED
      BY <3>1, <3>2
  <2>16. ParityStep(f)'
    BY <2>2, <2>5, <2>15 DEF ParityStep
  <2>17. RecoveryAt(f)'
    BY <1>1, <1>2, <2>2, <2>3, RecoveryAtStays DEF Attempt
  <2>18. Recovering(f)'
    BY <1>1, <2>2, <2>16, <2>17 DEF Recovering, AloneJob
  <2>19. job'.n \in Slot /\ ~job'.wrong
    BY <1>2, <2>2 DEF Lives, Outer, RecoveryAt
  <2> QED
    BY <1>1, <1>2, <2>18, <2>19, JobKept
<1> QED
  BY <1>1, <1>3, <1>4

LEMMA SizesAre ==
  ASSUME job.pos \in Position
  PROVE  /\ Before(job.pos) \in Nat /\ After(job.pos) \in Nat /\ Before(job.pos) < After(job.pos)
         /\ \A m \in Sizes : /\ m \in Nat \ {0} /\ m \in Slot /\ (m = Before(job.pos) \/ m = After(job.pos))
                             /\ m <= After(job.pos) /\ \A j \in 1..m : j - 1 \in Slot
<1>1. job.pos \in Nat /\ Prompt \in Nat \ {0} /\ MaxTokens \in Nat /\ job.pos < MaxTokens
  BY Numbers
<1>2. Before(job.pos) \in Nat /\ After(job.pos) \in Nat /\ Before(job.pos) < After(job.pos)
      /\ After(job.pos) <= Prompt + MaxTokens
  BY <1>1 DEF Before, After
<1>3. Slot = 0..(Prompt + MaxTokens)
  BY Numbers
<1>4. ASSUME NEW m \in Sizes
      PROVE  /\ m \in Nat \ {0} /\ m \in Slot /\ (m = Before(job.pos) \/ m = After(job.pos))
             /\ m <= After(job.pos) /\ \A j \in 1..m : j - 1 \in Slot
  <2>1. m # 0 /\ (m = Before(job.pos) \/ m = After(job.pos))
    BY DEF Sizes
  <2>2. m \in Nat \ {0} /\ m <= After(job.pos) /\ m <= Prompt + MaxTokens
    BY <1>1, <1>2, <2>1
  <2> QED
    BY <1>1, <1>3, <2>1, <2>2
<1> QED
  BY <1>2, <1>4

\* The columns of a survivor's answer.
LEMMA FetchedIs ==
  ASSUME job.pos \in Position, NEW f, NEW s \in NonHead, FetchedFrom(f, s)
  PROVE  /\ Count(s) \in Sizes /\ job.got[s] # << >>
         /\ (~late /\ s > f) => Count(s) = Before(job.pos)
         /\ job.pc # "fetch" => job.n <= Count(s)
         /\ \A j \in 1..Count(s) : SurvivorCol(s, j) = Col(Subject, s, j - 1)
<1>1. PICK m \in Sizes : /\ job.got[s] = LayerMajor(s, Prefix(s, m))
                         /\ (~late /\ s > f) => m = Before(job.pos)
                         /\ job.pc # "fetch" => job.n <= m
  BY DEF FetchedFrom
<1>2. m \in Nat \ {0} /\ s \in Stage /\ \A j \in 1..m : j - 1 \in Slot
  BY SizesAre, Lengths
<1>3. PICK cols : cols = Prefix(s, m)
  OBVIOUS
<1>4. Sized(cols, m) /\ \A i \in 1..m : cols[i] = Col(Subject, s, i - 1)
  BY <1>2, <1>3, PrefixIs
<1>5. /\ LayerMajor(s, cols) # << >> /\ Len(LayerMajor(s, cols)) \div LayersOf[s] = m
      /\ \A j \in 1..m : Sized(cols[j], LayersOf[s]) => SlotOf(s, LayerMajor(s, cols), m, j) = cols[j]
  BY <1>2, <1>4, LayoutIs
<1>6. Count(s) = m /\ job.got[s] # << >>
  BY <1>1, <1>3, <1>5 DEF Count, _kv_dims
<1>7. ASSUME NEW j \in 1..m PROVE SurvivorCol(s, j) = Col(Subject, s, j - 1)
  <2>1. Sized(cols[j], LayersOf[s])
    BY <1>2, <1>4, ColSize, KVAssumption
  <2>2. SlotOf(s, LayerMajor(s, cols), m, j) = cols[j]
    BY <1>5, <2>1
  <2> QED
    BY <1>1, <1>3, <1>4, <1>6, <2>2 DEF SurvivorCol
<1> QED
  BY <1>1, <1>6, <1>7

LEMMA GeometryKept ==
  ASSUME Lives, NEW f \in NonHead, Recovering(f), Geometry
  PROVE  Kept
<1> DEFINE counts == {Count(s) : s \in DOMAIN job.got}
<1>0. PICK n : n = Min(counts)
  OBVIOUS
<1>1. job.pc = "fetch" /\ JobShaped(job) /\ (\A s \in DOMAIN job.got : job.got[s] # << >>)
  BY DEF Geometry, Lives, Shapes
<1>2. AloneJob
  BY DEF Geometry, AloneJob, Local, workers, bounds
<1>3. mode # "replicate" /\ RecoveryAt(f) /\ ParityStep(f) /\ job.pos \in Position
  BY <1>1 DEF Recovering, ReplicaStep, JobShaped
<1>4. DOMAIN job.got = NonHead \ {f} /\ \A s \in NonHead \ {f} : FetchedFrom(f, s)
  BY <1>1, <1>3 DEF ParityStep
<1>5. n \in counts /\ n \in Nat /\ \A c \in counts : n <= c
  BY <1>0, GeometryIs DEF Lives
<1>6. job' = (IF Max(counts) - n > 1 \/ n = 0 THEN Over("surgical")
              ELSE [job EXCEPT !.pc = "gate", !.n = n, !.k = 0])
  BY <1>0 DEF Geometry
<1>7. CASE job' = Over("surgical")
  BY <1>2, <1>3, <1>7, GivesUpKept DEF GivesUp
<1>8. CASE n # 0 /\ job' = [job EXCEPT !.pc = "gate", !.n = n, !.k = 0]
  <2>1. Goes("gate", n, 0, job.got, job.held, job.recon)
    BY <1>1, <1>8 DEF JobShaped, Goes, Made
  <2>2. /\ job'.pc = "gate" /\ job'.n = n /\ job'.k = 0 /\ job'.got = job.got /\ job'.held = job.held
        /\ job'.recon = job.recon /\ job'.pos = job.pos /\ job'.wrong = job.wrong
        /\ job'.victims = job.victims
    BY <2>1, GoesIs
  <2>3. ASSUME NEW s \in NonHead \ {f} PROVE n <= Count(s) /\ FetchedFrom(f, s)'
    <3>1. n <= Count(s)
      BY <1>4, <1>5
    <3>2. PICK m \in Sizes : /\ job.got[s] = LayerMajor(s, Prefix(s, m))
                             /\ (~late /\ s > f) => m = Before(job.pos)
      BY <1>4 DEF FetchedFrom
    <3>3. m = Count(s)
      <4>1. m \in Nat \ {0} /\ s \in Stage
        BY <1>3, SizesAre, Lengths
      <4>2. PICK cols : cols = Prefix(s, m)
        OBVIOUS
      <4>3. Sized(cols, m)
        BY <4>1, <4>2, PrefixIs
      <4>4. Len(LayerMajor(s, cols)) \div LayersOf[s] = m
        BY <4>1, <4>3, LayoutIs
      <4> QED
        BY <3>2, <4>2, <4>4 DEF Count, _kv_dims
    <3>4. late' = late
      BY <1>2 DEF AloneJob
    <3>5. m \in Sizes'
      BY <2>2 DEF Sizes, After
    <3>6. /\ job'.got[s] = LayerMajor(s, Prefix(s, m))
          /\ (~late' /\ s > f) => m = Before(job'.pos)
          /\ job'.n <= m
      BY <2>2, <3>1, <3>2, <3>3, <3>4
    <3>7. FetchedFrom(f, s)'
      BY <3>5, <3>6 DEF FetchedFrom
    <3> QED
      BY <3>1, <3>7
  <2>4. n \in Sizes
    BY <1>3, <1>4, <1>5, FetchedIs
  <2>5. ~late /\ f < N => n = Before(job.pos)
    <3>1. SUFFICES ASSUME ~late, f < N PROVE n = Before(job.pos)
      OBVIOUS
    <3>2. N \in NonHead \ {f} /\ N > f
      BY <3>1, Lengths
    <3>3. Count(N) = Before(job.pos)
      BY <1>3, <1>4, <3>1, <3>2, FetchedIs
    <3>4. n <= Before(job.pos)
      BY <2>3, <3>2, <3>3
    <3> QED
      BY <1>3, <2>4, <3>4, SizesAre
  <2>6. n \in Slot /\ 0 < n
    BY <1>3, <1>5, <1>8, <2>4, SizesAre
  <2>7. ParityStep(f)'
    <3>1. n \in Sizes' /\ late' = late
      BY <1>2, <2>2, <2>4 DEF Sizes, After, AloneJob
    <3>2. \A j \in 0..(0 - 1) : FALSE
      OBVIOUS
    <3> QED
      BY <1>4, <2>2, <2>3, <2>5, <2>6, <3>1, <3>2 DEF ParityStep
  <2>8. RecoveryAt(f)'
    BY <1>1, <1>2, <1>3, <2>2, RecoveryAtStays DEF Attempt, Promoted
  <2>9. Recovering(f)'
    BY <1>2, <1>3, <2>2, <2>7, <2>8 DEF Recovering, AloneJob
  <2> QED
    BY <1>2, <1>3, <2>2, <2>6, <2>9, JobKept DEF RecoveryAt
<1> QED
  BY <1>6, <1>7, <1>8

LEMMA CompleteIsWhole ==
  ASSUME Lives, mode # "replicate", NEW f \in NonHead, promoted = {}, NEW j \in Nat,
         parity_is_complete(cache, Subject, j, num_stages)
  PROVE  Whole(f, j)
<1> DEFINE e == Entry(cache, Subject, j)
<1>1. Subject \in Request
  BY KVAssumption
<1>2. Holds(cache, Subject, j) => e = cache.items[Subject][j] /\ EntryFits(e)
  <2>1. ItemsFit(cache.items[Subject])
    BY <1>1 DEF Lives, CacheFits, Counted
  <2> QED
    BY <2>1 DEF ItemsFit, ItemFits, Holds, Entry
<1>3. ~Holds(cache, Subject, j) => e.contributors = {}
  BY DEF Entry, NoEntry
<1> HIDE DEF e
<1>4. e.contributors \in SUBSET NonHead
  BY <1>2, <1>3 DEF EntryFits
<1>5. Cardinality(e.contributors) = num_stages
  BY DEF parity_is_complete, e
<1>6. e.contributors = NonHead
  BY <1>4, <1>5, Everyone
<1>7. Holds(cache, Subject, j)
  <2>1. 2 \in NonHead
    BY Lengths
  <2> QED
    BY <1>3, <1>6, <2>1
<1>8. ASSUME NEW s \in NonHead PROVE j < Len(kv[s]) /\ ~Queued(s, j)
  <2>1. KeptIn(cache, s, j)
    BY <1>2, <1>6, <1>7 DEF KeptIn
  <2> QED
    BY <2>1 DEF Lives, Phases, PushedOnce, KeptOnce
<1> QED
  BY <1>2, <1>6, <1>7, <1>8 DEF Whole

LEMMA WholeStays ==
  ASSUME AloneJob, NEW f, NEW j, Whole(f, j)
  PROVE  Whole(f, j)'
<1>1. \A s : Queued(s, j)' <=> Queued(s, j)
  BY DEF AloneJob, Queued, QueuedOn, KVOf
<1> QED
  BY <1>1 DEF AloneJob, Whole, Holds

\* What the stage behind which nobody has run held.
LEMMA TailHeld ==
  ASSUME Lives, NEW f \in NonHead, RecoveryAt(f), ~Promoted, ~late, f = N \/ injected = 1
  PROVE  kv[f] = Prefix(f, Before(job.pos)) /\ Len(kv[f]) = Before(job.pos)
<1>1. PICK e \in 0..N : Stopped(f, e, Stage)
  BY DEF RecoveryAt
<1>2. e = f => f < N /\ crashed # {}
  BY <1>1 DEF Stopped
<1>3. injected = 1 => crashed = {}
  BY DownIs DEF Lives, RecoveryAt
<1>4. f \in Nat /\ f \in Stage /\ N \in Nat /\ e \in Nat /\ e <= f
  BY <1>1, Lengths DEF Stopped
<1>5. e # f
  BY <1>2, <1>3, <1>4
<1>6. ~(f <= e)
  BY <1>4, <1>5
<1>7. kv[f] = Prefix(f, Before(job.pos))
  BY <1>1, <1>4, <1>6 DEF Stopped, KVAt
<1> QED
  BY <1>7, PrefixIs, Numbers DEF Lives, Shapes, JobShaped

LEMMA ParityGateKept ==
  ASSUME Lives, NEW f \in NonHead, Recovering(f), ParityGate
  PROVE  Kept
<1>1. job.pc = "gate" /\ mode # "replicate" /\ AloneJob /\ JobShaped(job)
  BY DEF ParityGate, AloneJob, Local, workers, bounds, Lives, Shapes
<1>2. RecoveryAt(f) /\ ParityStep(f) /\ ~Promoted /\ promoted = {} /\ job.pos \in Position
  BY <1>1 DEF Recovering, RecoveryAt, Promoted, JobShaped
<1>3. /\ DOMAIN job.got = NonHead \ {f} /\ \A s \in NonHead \ {f} : FetchedFrom(f, s)
      /\ job.n \in Sizes /\ job.k < job.n /\ job.k \in Nat /\ job.n \in Nat
      /\ (~late /\ f < N) => job.n = Before(job.pos)
      /\ \A j \in 0..(job.k - 1) : Whole(f, j)
  BY <1>1, <1>2 DEF ParityStep, JobShaped
<1>4. late' = late
  BY <1>1 DEF AloneJob
<1>5. CASE GivesUp
  BY <1>1, <1>2, <1>5, GivesUpKept
<1>6. CASE parity_is_complete(cache, Subject, job.k, num_stages)
  <2>1. Whole(f, job.k)
    BY <1>1, <1>2, <1>3, <1>6, CompleteIsWhole
  <2>2. \A j \in 0..job.k : Whole(f, j)'
    BY <1>1, <1>3, <2>1, WholeStays
  <2>3. ASSUME Goes("gate", job.n, job.k + 1, job.got, job.held, job.recon), job.k + 1 < job.n
        PROVE  Kept
    <3>1. /\ job'.pc = "gate" /\ job'.n = job.n /\ job'.k = job.k + 1 /\ job'.got = job.got
          /\ job'.held = job.held /\ job'.recon = job.recon /\ job'.pos = job.pos
          /\ job'.wrong = job.wrong /\ job'.victims = job.victims
      BY <2>3, GoesIs
    <3>2. \A s \in NonHead \ {f} : FetchedFrom(f, s)'
      BY <1>1, <1>3, <1>4, <3>1 DEF FetchedFrom, Sizes, After
    <3>3. ParityStep(f)'
      <4>1. job'.n \in Sizes'
        BY <1>3, <3>1 DEF Sizes, After
      <4>2. \A j \in 0..(job'.k - 1) : Whole(f, j)'
        BY <1>3, <2>2, <3>1
      <4> QED
        BY <1>3, <1>4, <2>3, <3>1, <3>2, <4>1, <4>2 DEF ParityStep
    <3>4. RecoveryAt(f)'
      BY <1>1, <1>2, <3>1, RecoveryAtStays DEF Attempt, Promoted
    <3>5. Recovering(f)'
      BY <1>1, <3>1, <3>3, <3>4 DEF Recovering, AloneJob
    <3> QED
      BY <1>1, <1>2, <3>1, <3>5, JobKept DEF RecoveryAt, Lives, Outer
  <2>4. ASSUME Goes("history", job.n, job.k, job.got, job.held, job.recon), ~(job.k + 1 < job.n)
        PROVE  Kept
    <3>0. job.n = job.k + 1
      BY <1>3, <2>4
    <3>1. /\ job'.pc = "history" /\ job'.n = job.n /\ job'.k = job.k /\ job'.got = job.got
          /\ job'.held = job.held /\ job'.recon = job.recon /\ job'.pos = job.pos
          /\ job'.wrong = job.wrong /\ job'.victims = job.victims
      BY <2>4, GoesIs
    <3>2. \A s \in NonHead \ {f} : FetchedFrom(f, s)'
      BY <1>1, <1>3, <1>4, <3>1 DEF FetchedFrom, Sizes, After
    <3>3. ParityStep(f)'
      <4>1. \A j \in 0..(job'.n - 1) : Whole(f, j)'
        BY <1>3, <2>2, <3>0, <3>1
      <4> QED
        BY <1>3, <3>1, <3>2, <4>1 DEF ParityStep
    <3>4. RecoveryAt(f)'
      BY <1>1, <1>2, <3>1, RecoveryAtStays DEF Attempt, Promoted
    <3>5. job.n <= Len(kv[f])
      <4>1. job.k < Len(kv[f])
        BY <1>2, <2>1 DEF Whole
      <4>2. Len(kv[f]) \in Nat
        BY Lengths, IsSeqIs DEF Lives, Shapes, KVShaped
      <4> QED
        BY <1>3, <3>0, <4>1, <4>2
    <3>6. ~late => job.n = Before(job.pos)
      <4>1. SUFFICES ASSUME ~late, ~(f < N) PROVE job.n = Before(job.pos)
        BY <1>3
      <4>2. f = N
        BY <4>1, Lengths
      <4>3. Len(kv[f]) = Before(job.pos)
        BY <1>2, <4>1, <4>2, TailHeld
      <4> QED
        BY <1>2, <1>3, <3>5, <4>3, SizesAre
    <3>7. Agreed(f)'
      <4>1. job'.n \in Sizes'
        BY <1>3, <3>1 DEF Sizes, After
      <4>2. kv' = kv /\ ~Promoted'
        BY <1>1, <3>1 DEF AloneJob, Promoted
      <4> QED
        BY <1>4, <3>1, <3>5, <3>6, <4>1, <4>2 DEF Agreed
    <3>8. Recovering(f)'
      BY <1>1, <3>1, <3>3, <3>4, <3>7 DEF Recovering, AloneJob
    <3> QED
      BY <1>1, <1>2, <3>1, <3>8, JobKept DEF RecoveryAt, Lives, Outer
  <2> QED
    BY <1>1, <1>5, <2>3, <2>4, ParityGateIs
<1> QED
  BY <1>1, <1>5, <1>6, ParityGateIs

\* When the replica of a slot is complete, nothing of the stage is under way: its
\* executor is gone, or it has sent everything.
LEMMA NothingQueued ==
  ASSUME Lives, mode = "replicate", NEW f \in NonHead, RecoveryAt(f), ~Promoted,
         \A i \in Nat : i < Before(job.pos) => Holds(cache, Subject, <<f, i>>), NEW j \in Nat
  PROVE  ~Queued(f, j)
<1>1. promoted = {} /\ Placed /\ QueuedOnce /\ KeptOnce
  BY DEF Lives, Phases, PushedOnce, RecoveryAt
<1>2. SUFFICES ASSUME NEW d \in Device, NEW i \in DOMAIN pushes[d], KVOf(pushes[d][i], f, j)
               PROVE  FALSE
  BY DEF Queued, QueuedOn
<1>3. d = Placement[f]
  BY <1>1, <1>2 DEF Placed, KVOf
<1>4. crashed # {Placement[f]}
  <2>1. SUFFICES ASSUME crashed = {Placement[f]} PROVE FALSE
    OBVIOUS
  <2>2. pushes[d] = << >>
    BY <1>3, <2>1 DEF Lives, Sorts, GoneIdle
  <2> QED
    BY <2>2
<1>5. injected = 1 /\ crashed = {}
  BY <1>4, DownIs DEF Lives, RecoveryAt, Down
<1>6. ~late
  BY <1>5 DEF Lives, Marks
<1>7. Len(kv[f]) = Before(job.pos)
  BY <1>5, <1>6, TailHeld
<1>8. j < Before(job.pos)
  BY <1>1, <1>2, <1>7 DEF QueuedOnce, KVOf
<1>9. KeptIn(cache, f, j)
  BY <1>8 DEF KeptIn
<1>10. ~Queued(f, j)
  BY <1>1, <1>9 DEF KeptOnce
<1> QED
  BY <1>2, <1>10 DEF Queued, QueuedOn

LEMMA ReplicaGateKept ==
  ASSUME Lives, NEW f \in NonHead, Recovering(f), ReplicaGate
  PROVE  Kept
<1>1. job.pc = "gate" /\ mode = "replicate" /\ AloneJob /\ JobShaped(job)
  BY DEF ReplicaGate, AloneJob, Local, workers, bounds, Lives, Shapes
<1>2. RecoveryAt(f) /\ ReplicaStep(f) /\ ~Promoted /\ promoted = {} /\ job.pos \in Position
  BY <1>1 DEF Recovering, RecoveryAt, Promoted, JobShaped
<1>3. job.n = Before(job.pos) /\ job.n \in Nat
  BY <1>1, <1>2 DEF ReplicaStep, JobShaped
<1>4. CASE GivesUp
  BY <1>1, <1>2, <1>4, GivesUpKept
<1>5. CASE /\ job.n >= 1 /\ replica_is_complete(cache, Subject, Victim, job.n - 1)
           /\ Goes("read", job.n, job.k, job.got, job.held, job.recon)
  <2>1. \A j \in Nat : j < job.n => Holds(cache, Subject, <<f, j>>)
    <3>1. \A j \in 0..(job.n - 1) : Holds(cache, Subject, <<f, j>>)
      BY <1>2, <1>5, VictimIs DEF replica_is_complete
    <3> QED
      BY <1>3, <3>1
  <2>2. \A j \in Nat : ~Queued(f, j)
    BY <1>1, <1>2, <1>3, <2>1, NothingQueued
  <2>3. job.n <= Len(kv[f])
    <3>1. job.n - 1 \in Nat /\ job.n - 1 < job.n
      BY <1>3, <1>5
    <3>2. KeptIn(cache, f, job.n - 1)
      BY <1>1, <2>1, <3>1 DEF KeptIn
    <3>3. job.n - 1 < Len(kv[f])
      BY <1>2, <3>1, <3>2 DEF Lives, Phases, PushedOnce, KeptOnce
    <3>4. Len(kv[f]) \in Nat
      BY Lengths, IsSeqIs DEF Lives, Shapes, KVShaped
    <3> QED
      BY <1>3, <3>3, <3>4
  <2>4. 0..(job.n - 1) \subseteq StoredSlots(cache, Subject, f)
    <3>1. ASSUME NEW j \in 0..(job.n - 1) PROVE j \in StoredSlots(cache, Subject, f)
      <4>1. <<f, j>> \in DOMAIN cache.items[Subject] /\ <<f, j>>[1] = f /\ <<f, j>>[2] = j
        BY <1>3, <2>1 DEF Holds
      <4> QED
        BY <4>1 DEF StoredSlots
    <3> QED
      BY <3>1
  <2>5. /\ job'.pc = "read" /\ job'.n = job.n /\ job'.k = job.k /\ job'.got = job.got
        /\ job'.held = job.held /\ job'.recon = job.recon /\ job'.pos = job.pos
        /\ job'.wrong = job.wrong /\ job'.victims = job.victims
    BY <1>5, GoesIs
  <2>6. ReplicaStep(f)'
    <3>1. \A j \in Nat : ~Queued(f, j)'
      BY <1>1, <2>2 DEF AloneJob, Queued, QueuedOn, KVOf
    <3>2. kv' = kv /\ cache' = cache
      BY <1>1 DEF AloneJob
    <3> QED
      BY <1>3, <1>5, <2>3, <2>4, <2>5, <3>1, <3>2 DEF ReplicaStep
  <2>7. RecoveryAt(f)'
    BY <1>1, <1>2, <2>5, RecoveryAtStays DEF Attempt, Promoted
  <2>8. Recovering(f)'
    BY <1>1, <2>5, <2>6, <2>7 DEF Recovering, AloneJob
  <2> QED
    BY <1>1, <1>2, <2>5, <2>8, JobKept DEF RecoveryAt, Lives, Outer
<1> QED
  BY <1>1, <1>4, <1>5, ReplicaGateIs

LEMMA ReadReplicaKept ==
  ASSUME Lives, NEW f \in NonHead, Recovering(f), ReadReplica
  PROVE  Kept
<1>1. job.pc = "read" /\ AloneJob /\ JobShaped(job)
  BY DEF ReadReplica, AloneJob, Local, workers, bounds, Lives, Shapes
<1>2. /\ mode = "replicate" /\ RecoveryAt(f) /\ ReplicaStep(f) /\ ~Promoted /\ job.pos \in Position
      /\ Victim = f
  BY <1>1, VictimIs DEF Recovering, ParityStep, RecoveryAt, Promoted, JobShaped
<1>3. /\ job.n = Before(job.pos) /\ job.n >= 1 /\ job.n <= Len(kv[f]) /\ job.n \in Nat
      /\ \/ StoredSlots(cache, Subject, f) = {}
         \/ 0..(job.n - 1) \subseteq StoredSlots(cache, Subject, f)
  BY <1>1, <1>2 DEF ReplicaStep, JobShaped
<1>4. CASE GivesUp
  BY <1>1, <1>2, <1>4, GivesUpKept
<1>5. PICK slots, buf : slots = StoredSlots(cache, Subject, f) /\ buf = get_stage_kv(cache, Subject, f)
  OBVIOUS
<1>6. CASE slots # {} /\ Goes("history", job.n, job.k, buf, job.held, job.recon)
  <2>1. /\ job'.pc = "history" /\ job'.n = job.n /\ job'.k = job.k /\ job'.got = buf
        /\ job'.held = job.held /\ job'.recon = job.recon /\ job'.pos = job.pos
        /\ job'.wrong = job.wrong /\ job'.victims = job.victims
    BY <1>6, GoesIs
  <2>2. RightIn(cache)
    <3>1. Right
      BY <1>1 DEF Right, Attempt
    <3> QED
      BY <3>1 DEF Lives, Contents
  <2>3. slots \subseteq Slot /\ \A j \in slots : cache.items[Subject][<<f, j>>] = Col(Subject, f, j)
    <3>1. ASSUME NEW j \in slots
          PROVE  j \in Slot /\ cache.items[Subject][<<f, j>>] = Col(Subject, f, j)
      <4>1. PICK key \in DOMAIN cache.items[Subject] : key[1] = f /\ key[2] = j
        BY <1>5 DEF StoredSlots
      <4>2. key = <<f, j>>
        BY <1>2, <4>1, KVAssumption DEF Lives, CacheFits, Counted, ItemsFit, ItemFits
      <4> QED
        BY <1>2, <2>2, <4>1, <4>2, KVAssumption DEF RightIn
    <3> QED
      BY <3>1
  <2>4. Len(buf) = job.n * LayersOf[f] =>
          \A j \in 1..job.n : SubSeq(buf, (j - 1) * LayersOf[f] + 1, j * LayersOf[f]) = Col(Subject, f, j - 1)
    BY <1>3, <1>5, <1>6, <2>3, ReplicaBufferIs
  <2>5. ReplicaStep(f)'
    BY <2>1, <2>4 DEF ReplicaStep, Buffered
  <2>6. Agreed(f)'
    <3>1. job'.n \in Sizes'
      BY <1>3, <2>1 DEF Sizes
    <3>2. kv' = kv /\ ~Promoted'
      BY <1>1, <2>1 DEF AloneJob, Promoted
    <3> QED
      BY <1>3, <2>1, <3>1, <3>2 DEF Agreed
  <2>7. RecoveryAt(f)'
    BY <1>1, <1>2, <2>1, RecoveryAtStays DEF Attempt, Promoted
  <2>8. mode' = mode
    BY <1>1 DEF AloneJob
  <2>9. Recovering(f)'
    BY <1>2, <2>1, <2>5, <2>6, <2>7, <2>8 DEF Recovering
  <2> QED
    BY <1>1, <1>2, <2>1, <2>9, JobKept DEF RecoveryAt, Lives, Outer
<1> QED
  BY <1>1, <1>2, <1>4, <1>5, <1>6, ReadReplicaIs

LEMMA HistoryKept ==
  ASSUME Lives, NEW f \in NonHead, Recovering(f), History
  PROVE  Kept
<1>1. job.pc = "history" /\ AloneJob /\ JobShaped(job)
  BY DEF History, AloneJob, Local, workers, bounds, Lives, Shapes
<1>2. /\ RecoveryAt(f) /\ ~Promoted /\ job.pos \in Position /\ Victim = f /\ Agreed(f) /\ job.n \in Nat
  BY <1>1, VictimIs DEF Recovering, RecoveryAt, Promoted, JobShaped
<1>3. CASE GivesUp
  BY <1>1, <1>2, <1>3, GivesUpKept
<1>4. CASE /\ ~(HistoryLen(f) <= job.pos)
           /\ mode = "replicate" => Len(job.got) = job.n * LayersOf[f]
           /\ Goes("promote", job.n, 1, job.got, job.held, job.recon)
  <2>1. /\ job'.pc = "promote" /\ job'.n = job.n /\ job'.k = 1 /\ job'.got = job.got
        /\ job'.held = job.held /\ job'.recon = job.recon /\ job'.pos = job.pos
        /\ job'.wrong = job.wrong /\ job'.victims = job.victims
    BY <1>4, GoesIs
  <2>2. history[f][job.pos] = "good"
    <3>1. history[f][job.pos] # "none"
      BY <1>2, <1>4, HistoryHas
    <3>2. RightHistory
      <4>1. Right
        BY <1>1 DEF Right, Attempt
      <4> QED
        BY <4>1 DEF Lives, Contents
    <3>3. f \in Stage
      BY Lengths
    <3>4. history[f][job.pos] \in {"none", "good", "bad"}
      BY <1>2, <3>3 DEF Lives, Sorts, HistorySorts
    <3> QED
      BY <1>2, <3>1, <3>2, <3>3, <3>4 DEF RightHistory
  <2>3. UNCHANGED <<mode, history, late, kv>> /\ ~Promoted'
    BY <1>1, <2>1 DEF AloneJob, Promoted
  <2>4. mode = "replicate" => ReplicaStep(f)'
    <3>1. SUFFICES ASSUME mode = "replicate" PROVE ReplicaStep(f)'
      OBVIOUS
    <3>2. Buffered(f)
      BY <1>1, <1>4, <3>1 DEF Recovering, ReplicaStep
    <3>3. Buffered(f)'
      BY <2>1, <3>2 DEF Buffered
    <3> QED
      BY <2>1, <3>3 DEF ReplicaStep
  <2>5. mode # "replicate" => ParityStep(f)'
    <3>1. SUFFICES ASSUME mode # "replicate" PROVE ParityStep(f)'
      OBVIOUS
    <3>2. /\ DOMAIN job.got = NonHead \ {f} /\ \A s \in NonHead \ {f} : FetchedFrom(f, s)
          /\ \A j \in 0..(job.n - 1) : Whole(f, j)
      BY <1>1, <3>1 DEF Recovering, ParityStep
    <3>3. \A s \in NonHead \ {f} : FetchedFrom(f, s)'
      BY <1>1, <2>1, <2>3, <3>2 DEF FetchedFrom, Sizes, After
    <3>4. \A j \in 0..(job.n - 1) : Whole(f, j)'
      BY <1>1, <3>2, WholeStays
    <3> QED
      BY <2>1, <3>2, <3>3, <3>4 DEF ParityStep
  <2>6. Agreed(f)'
    BY <1>2, <2>1, <2>3 DEF Agreed, Sizes, After
  <2>7. RecoveryAt(f)'
    BY <1>1, <1>2, <2>1, <2>3, RecoveryAtStays DEF Attempt
  <2>8. Recovering(f)'
    BY <2>1, <2>2, <2>3, <2>4, <2>5, <2>6, <2>7 DEF Recovering
  <2> QED
    BY <1>1, <1>2, <2>1, <2>8, JobKept DEF RecoveryAt, Lives, Outer
<1> QED
  BY <1>1, <1>2, <1>3, <1>4, HistoryIs DEF _kv_dims

LEMMA PromoteKept ==
  ASSUME Lives, NEW f \in NonHead, Recovering(f), Promote
  PROVE  Kept
<1>1. /\ job.pc = "promote" /\ job.k <= Len(job.victims) /\ JobShaped(job)
      /\ UNCHANGED <<mode, crashed, next_hop, pushes, dead, plan, cache, history, chain, injected, late>>
  BY DEF Promote, bounds, Lives, Shapes
<1>2. /\ RecoveryAt(f) /\ job.pos \in Position /\ Agreed(f) /\ job.n \in Nat /\ job.k = 1
      /\ job.victims[1] = f /\ f \in Stage
  <2>1. RecoveryAt(f) /\ Agreed(f) /\ job.k \in {1, 2} /\ job.pos \in Position /\ job.n \in Nat
    BY <1>1 DEF Recovering, JobShaped
  <2>2. Len(job.victims) = 1 /\ job.victims[1] = f /\ f \in Stage
    BY <2>1, VictimIs
  <2> QED
    BY <1>1, <2>1, <2>2
<1>3. ~Promoted /\ promoted = {} /\ job.held = << >>
  BY <1>1, <1>2 DEF RecoveryAt, Promoted
<1>4. CASE GivesUp /\ UNCHANGED <<promoted, kv>>
  <2>1. AloneJob
    BY <1>1, <1>4 DEF AloneJob
  <2> QED
    BY <1>2, <1>4, <2>1, GivesUpKept
<1>5. CASE /\ Recovery[Placement[f]] # NoDevice /\ Recovery[Placement[f]] \notin crashed
           /\ Goes("promote", job.n, job.k + 1, job.got, Append(job.held, kv[f]), job.recon)
           /\ PromoteBackup(f)
  <2>1. /\ job'.pc = "promote" /\ job'.n = job.n /\ job'.k = 2 /\ job'.got = job.got
        /\ job'.held = Append(job.held, kv[f]) /\ job'.recon = job.recon /\ job'.pos = job.pos
        /\ job'.wrong = job.wrong /\ job'.victims = job.victims
    <3>1. job.k + 1 = 2
      BY <1>2
    <3>2. Goes("promote", job.n, 2, job.got, Append(job.held, kv[f]), job.recon)
      BY <1>5, <3>1
    <3> QED
      BY <3>2 DEF Goes, Made
  <2>2. promoted' = {f} /\ kv' = [kv EXCEPT ![f] = << >>]
    BY <1>3, <1>5 DEF PromoteBackup
  <2>3. kv'[f] = << >> /\ \A s \in Stage : s # f => kv'[s] = kv[s]
    BY <1>2, <2>2 DEF Lives, Shapes, KVShaped
  <2>4. Promoted'
    BY <2>1 DEF Promoted
  <2>5. Marks'
    BY <1>1, SameMarks DEF Lives
  <2>6. Sorts'
    <3>1. ASSUME NEW s \in Stage, NEW i \in DOMAIN kv'[s] PROVE Sized(kv'[s][i], LayersOf[s])
      <4>1. s # f
        BY <2>3, <3>1
      <4> QED
        BY <2>3, <4>1 DEF Lives, Sorts, KVSorts
    <3>2. PushSorts' /\ GoneIdle' /\ HistorySorts'
      BY <1>1 DEF Lives, Sorts, PushSorts, IsPush, IsMirror, IsKVPush, GoneIdle, HistorySorts, UnderWay
    <3> QED
      BY <3>1, <3>2 DEF Sorts, KVSorts
  <2>7. Contents'
    <3>1. Right
      BY <1>1 DEF Right, Attempt
    <3>2. RightIn(cache)' <=> RightIn(cache)
      BY <1>1, RightInNext
    <3>3. (RightPushes' <=> RightPushes) /\ (RightHistory' <=> RightHistory)
      BY <1>1 DEF RightPushes, RightHistory
    <3> QED
      BY <3>1, <3>2, <3>3 DEF Contents, Lives
  <2>8. Outer'
    <3>1. \A s \in Stage : Len(kv'[s]) <= Prompt + MaxTokens + 1
      <4>1. Len(<< >>) <= Prompt + MaxTokens + 1
        BY Numbers
      <4> QED
        BY <2>3, <4>1 DEF Lives, Outer
    <3> QED
      BY <1>1, <1>2, <2>1, <2>2, <3>1 DEF Lives, Outer, RecoveryAt
  <2>9. PushedOnce'
    BY <2>2 DEF PushedOnce
  <2>10. Viable(Placement, Recovery, dead)
    <3>1. CASE injected = 1
      BY <1>2, <3>1 DEF RecoveryAt
    <3>2. CASE injected # 1
      <4>1. crashed = {Placement[f]} /\ dead = {Placement[f]}
        BY <1>2, <3>2, DownIs DEF Lives, RecoveryAt
      <4>2. \A i \in Stage : Placement[i] = Placement[f] => i = f
        BY <1>2, Lengths
      <4>3. DOMAIN Placement = Stage
        BY Lengths
      <4> QED
        BY <1>5, <4>1, <4>2, <4>3 DEF Viable
    <3> QED
      BY <3>1, <3>2
  <2>11. PICK e \in 0..N : Stopped(f, e, Stage)
    BY <1>2, <1>3 DEF RecoveryAt
  <2>12. Stopped(f, e, Stage \ {f})'
    BY <1>1, <2>1, <2>3, <2>11 DEF Stopped, NoOrphan, KVAt, OnItsWay, After
  <2>13. RecoveryAt(f)'
    <3>1. job'.pc \in Attempt /\ job'.pc \notin {"rebuild", "load"}
      BY <2>1 DEF Attempt
    <3>2. Down(f)'
      BY <1>1, <1>2 DEF RecoveryAt, Down
    <3>3. next_hop' = Placement
      BY <1>1, <1>2 DEF RecoveryAt
    <3> QED
      BY <1>1, <1>2, <2>1, <2>2, <2>4, <2>10, <2>12, <3>1, <3>2, <3>3 DEF RecoveryAt
  <2>14. mode = "replicate" => ReplicaStep(f)'
    <3>1. SUFFICES ASSUME mode = "replicate" PROVE ReplicaStep(f)'
      OBVIOUS
    <3>2. Buffered(f)
      BY <1>1, <3>1 DEF Recovering, ReplicaStep
    <3>3. Buffered(f)'
      BY <2>1, <3>2 DEF Buffered
    <3> QED
      BY <2>1, <3>3 DEF ReplicaStep
  <2>15. mode # "replicate" => ParityStep(f)'
    <3>1. SUFFICES ASSUME mode # "replicate" PROVE ParityStep(f)'
      OBVIOUS
    <3>2. /\ DOMAIN job.got = NonHead \ {f} /\ \A s \in NonHead \ {f} : FetchedFrom(f, s)
          /\ \A j \in 0..(job.n - 1) : Whole(f, j)
      BY <1>1, <3>1 DEF Recovering, ParityStep
    <3>3. \A s \in NonHead \ {f} : FetchedFrom(f, s)'
      BY <1>1, <2>1, <3>2 DEF FetchedFrom, Sizes, After
    <3>4. ASSUME NEW j \in 0..(job.n - 1) PROVE Whole(f, j)'
      <4>1. Whole(f, j)
        BY <3>2
      <4>2. \A s : Queued(s, j)' <=> Queued(s, j)
        BY <1>1 DEF Queued, QueuedOn, KVOf
      <4>3. ASSUME NEW s \in NonHead
            PROVE  ~Queued(s, j)' /\ (s # f => j < Len(kv'[s]))
        BY <2>3, <4>1, <4>2, Lengths DEF Whole
      <4> QED
        BY <1>1, <2>2, <4>1, <4>3 DEF Whole, Holds
    <3> QED
      BY <2>1, <3>2, <3>3, <3>4 DEF ParityStep
  <2>16. Agreed(f)'
    <3>1. PICK m : m = IF f <= e THEN After(job.pos) ELSE Before(job.pos)
      OBVIOUS
    <3>2. kv[f] = Prefix(f, m) /\ m \in Nat
      BY <1>2, <2>11, <3>1, SizesAre DEF Stopped, KVAt
    <3>3. Len(kv[f]) = m
      BY <3>2, PrefixIs
    <3>4. job'.held = <<Prefix(f, m)>>
      BY <1>3, <2>1, <3>2
    <3>5. job'.n \in Sizes' /\ (~late' => job'.n = Before(job'.pos))
      BY <1>1, <1>2, <2>1 DEF Agreed, Sizes, After
    <3>6. job'.n <= m
      BY <1>2, <1>3, <2>1, <3>3 DEF Agreed
    <3> QED
      BY <2>4, <3>2, <3>4, <3>5, <3>6 DEF Agreed
  <2>17. Recovering(f)'
    <3>1. history'[f][job'.pos] = "good"
      BY <1>1, <2>1 DEF Recovering
    <3> QED
      BY <1>1, <2>1, <2>13, <2>14, <2>15, <2>16, <3>1 DEF Recovering
  <2> QED
    BY <2>5, <2>6, <2>7, <2>8, <2>9, <2>17 DEF Kept, Phases
<1> QED
  BY <1>1, <1>2, <1>4, <1>5, PromoteIs

LEMMA RewireKept ==
  ASSUME Lives, NEW f \in NonHead, Recovering(f), Rewire
  PROVE  Kept
<1>1. /\ job.pc = "promote" /\ job.k > Len(job.victims) /\ JobShaped(job) /\ next_hop' = plan
      /\ UNCHANGED <<mode, crashed, promoted, kv, pushes, dead, plan, cache, history, chain, injected, late>>
  BY DEF Rewire, bounds, Lives, Shapes
<1>2. /\ RecoveryAt(f) /\ job.pos \in Position /\ Agreed(f) /\ job.n \in Nat /\ job.k \in {1, 2}
      /\ Len(job.victims) = 1 /\ DOMAIN job.victims = {1} /\ f \in Stage
  BY <1>1, VictimIs DEF Recovering, JobShaped
<1>3. job.k = 2 /\ Promoted /\ promoted = {f} /\ Viable(Placement, Recovery, dead) /\ dead = {Placement[f]}
  BY <1>1, <1>2 DEF RecoveryAt, Promoted
<1>4. PICK none : none = [v \in DOMAIN job.victims |-> << >>]
  OBVIOUS
<1>5. none = <<Prefix(f, 0)>>
  <2>1. Sized(Prefix(f, 0), 0)
    BY PrefixIs
  <2>2. Prefix(f, 0) = << >>
    BY <2>1, EmptyIsSized, SameSeq
  <2> QED
    BY <1>2, <1>4, <2>2
<1>6. Goes("rebuild", job.n, 1, job.got, job.held, none)
  BY <1>1, <1>4, RewireIs
<1>7. /\ job'.pc = "rebuild" /\ job'.n = job.n /\ job'.k = 1 /\ job'.got = job.got
      /\ job'.held = job.held /\ job'.recon = <<Prefix(f, 0)>> /\ job'.pos = job.pos
      /\ job'.wrong = job.wrong /\ job'.victims = job.victims
  BY <1>5, <1>6, GoesIs
<1>8. Promoted'
  BY <1>7 DEF Promoted
<1>9. Right' => Right
  BY <1>1 DEF Right, Attempt
<1>10. \A i \in Handlers : UnderWay(chain'[i]) => chain'[i].dev \notin crashed
  BY <1>1 DEF Lives, Sorts, GoneIdle
<1>11. Sorts' /\ Contents' /\ PushedOnce' /\ \A s, j : Queued(s, j)' <=> Queued(s, j)
  BY <1>1, <1>9, <1>10, StillKeeps DEF Lives, Phases
<1>12. Marks'
  BY <1>1, SameMarks DEF Lives
<1>13. plan = PlanOf({Placement[f]}) /\ plan \in [Stage -> Device]
  BY <1>3, PlanOfType DEF Lives, Marks
<1>14. Outer'
  BY <1>1, <1>7, <1>13 DEF Lives, Outer, RecoveryAt, Recovering
<1>15. PICK e \in 0..N : Stopped(f, e, Stage \ {f})
  BY <1>2, <1>3 DEF RecoveryAt
<1>16. Stopped(f, e, Stage \ {f})'
  <2>1. (KVAt(e, Stage \ {f}))' /\ (NoOrphan' <=> NoOrphan)
    BY <1>1, <1>7, <1>15 DEF Stopped, KVAt, After, NoOrphan
  <2>2. ASSUME UnderWay(chain["orphan"]), OnItsWay(chain["orphan"]), chain["orphan"].stage > f
        PROVE  OnItsWay(chain["orphan"])'
    <3>1. PICK h : h = chain["orphan"]
      OBVIOUS
    <3>2. h \in HandlerType /\ h.stage \in Stage /\ h.stage # f
      BY <2>2, <3>1, Lengths DEF Lives, Shapes, ChainShaped, Handlers, HandlerType
    <3>3. plan[h.stage] = Placement[h.stage]
      BY <1>3, <1>13, <3>2, PlanOfOne
    <3>4. next_hop = Placement
      BY <1>1, <1>2 DEF RecoveryAt
    <3> QED
      BY <1>1, <1>7, <2>2, <3>1, <3>3, <3>4 DEF OnItsWay
  <2> QED
    BY <1>1, <1>15, <2>1, <2>2 DEF Stopped
<1>17. RecoveryAt(f)'
  <2>1. job'.pc \in Attempt
    BY <1>7 DEF Attempt
  <2>2. Down(f)'
    BY <1>1, <1>2 DEF RecoveryAt, Down
  <2> QED
    BY <1>1, <1>2, <1>3, <1>7, <1>8, <1>16, <2>1, <2>2 DEF RecoveryAt
<1>18. job.n >= 1
  BY <1>2, SizesAre DEF Agreed
<1>19. mode = "replicate" => ReplicaStep(f)'
  <2>1. SUFFICES ASSUME mode = "replicate" PROVE ReplicaStep(f)'
    OBVIOUS
  <2>2. Buffered(f)
    BY <1>1, <2>1 DEF Recovering, ReplicaStep
  <2>3. Buffered(f)'
    BY <1>7, <2>2 DEF Buffered
  <2> QED
    BY <1>7, <1>18, <2>3 DEF ReplicaStep
<1>20. mode # "replicate" => ParityStep(f)'
  <2>1. SUFFICES ASSUME mode # "replicate" PROVE ParityStep(f)'
    OBVIOUS
  <2>2. /\ DOMAIN job.got = NonHead \ {f} /\ \A s \in NonHead \ {f} : FetchedFrom(f, s)
        /\ \A j \in 0..(job.n - 1) : Whole(f, j)
    BY <1>1, <2>1 DEF Recovering, ParityStep
  <2>3. \A s \in NonHead \ {f} : FetchedFrom(f, s)'
    BY <1>1, <1>7, <2>2 DEF FetchedFrom, Sizes, After
  <2>4. \A j \in 0..(job.n - 1) : Whole(f, j)'
    BY <1>1, <1>11, <2>2 DEF Whole, Holds
  <2>5. 1 \in 1..(job'.n + 1) /\ 1 - 1 = 0
    BY <1>2, <1>7
  <2> QED
    BY <1>7, <2>2, <2>3, <2>4, <2>5 DEF ParityStep
<1>21. Agreed(f)'
  BY <1>1, <1>2, <1>3, <1>7, <1>8 DEF Agreed, Sizes, After
<1>22. Recovering(f)'
  <2>1. history'[f][job'.pos] = "good"
    BY <1>1, <1>7 DEF Recovering
  <2> QED
    BY <1>1, <1>7, <1>17, <1>19, <1>20, <1>21, <2>1 DEF Recovering
<1> QED
  BY <1>11, <1>12, <1>14, <1>22 DEF Kept, Phases

LEMMA PrefixGrows ==
  ASSUME NEW s, NEW k \in Nat \ {0}
  PROVE  Append(Prefix(s, k - 1), Col(Subject, s, k - 1)) = Prefix(s, k)
<1>1. PICK x, y, c : x = Prefix(s, k - 1) /\ y = Prefix(s, k) /\ c = Col(Subject, s, k - 1)
  OBVIOUS
<1>2. k - 1 \in Nat /\ (k - 1) + 1 = k
  OBVIOUS
<1>3. /\ Sized(x, k - 1) /\ Len(x) = k - 1 /\ IsSeq(x) /\ Sized(y, k)
      /\ \A i \in 1..(k - 1) : x[i] = Col(Subject, s, i - 1)
      /\ \A i \in 1..k : y[i] = Col(Subject, s, i - 1)
  BY <1>1, <1>2, PrefixIs DEF IsSeq
<1>4. /\ IsSeq(Append(x, c)) /\ Len(Append(x, c)) = k
      /\ \A i \in 1..(k - 1) : Append(x, c)[i] = x[i]
      /\ Append(x, c)[k] = c
  BY <1>2, <1>3, AppendIs
<1>5. PICK z : z = Append(x, c)
  OBVIOUS
<1>6. Sized(z, k)
  BY <1>4, <1>5, IsSeqIs
<1>7. ASSUME NEW i \in 1..k PROVE z[i] = y[i]
  <2>1. CASE i = k
    BY <1>1, <1>3, <1>4, <1>5, <2>1
  <2>2. CASE i # k
    <3>1. i \in 1..(k - 1)
      BY <2>2
    <3> QED
      BY <1>3, <1>4, <1>5, <3>1
  <2> QED
    BY <2>1, <2>2
<1>8. z = y
  BY <1>3, <1>6, <1>7, SameSeq
<1> QED
  BY <1>1, <1>5, <1>8

\* The column that is computed for a slot that is whole.
LEMMA ReconstructedIs ==
  ASSUME Lives, mode # "replicate", NEW f \in NonHead, RecoveryAt(f), NEW k \in 1..job.n, job.n \in Sizes,
         DOMAIN job.got = NonHead \ {f}, \A s \in NonHead \ {f} : FetchedFrom(f, s), job.pc = "rebuild",
         Whole(f, k - 1), Holds(cache, Subject, k - 1),
         NEW cols, cols = Lost(cache.items[Subject][k - 1], k)
  PROVE  Sliced(f, cols[1]) = Col(Subject, f, k - 1)
<1>1. job.pos \in Position /\ Subject \in Request /\ job.n \in Nat
  BY KVAssumption DEF Lives, Shapes, JobShaped
<1>2. k - 1 \in Slot /\ k \in Nat
  BY <1>1, SizesAre
<1>3. PICK e : e = cache.items[Subject][k - 1]
  OBVIOUS
<1>4. e.contributors = NonHead
  BY <1>3 DEF Whole
<1>5. e.parity = Sums[Subject][k - 1][NonHead]
  <2>1. RightIn(cache)
    BY DEF Lives, Contents, Right, Attempt
  <2> QED
    BY <1>1, <1>3, <1>4, <2>1 DEF RightIn, Holds
<1>6. PICK g : g = [s \in Survivors |-> SurvivorCol(s, k)]
  OBVIOUS
<1>7. DOMAIN g = NonHead \ {f}
  BY <1>6 DEF Survivors
<1>8. ASSUME NEW s \in NonHead \ {f} PROVE g[s] = Col(Subject, s, k - 1)
  <2>1. /\ Count(s) \in Sizes /\ job.n <= Count(s)
        /\ \A j \in 1..Count(s) : SurvivorCol(s, j) = Col(Subject, s, j - 1)
    BY <1>1, FetchedIs
  <2>2. Count(s) \in Nat
    BY <1>1, <2>1, SizesAre
  <2>3. k \in 1..Count(s)
    BY <1>1, <2>1, <2>2
  <2> QED
    BY <1>6, <2>1, <2>3 DEF Survivors
<1>9. Sliced(f, XorColumns(e.parity, SumColumns(g))) = Col(Subject, f, k - 1)
  BY <1>2, <1>5, <1>7, <1>8, LostIs
<1>10. Len(job.victims) = 1
  BY VictimIs
<1>11. cols[1] = XorColumns(e.parity, SumColumns(g))
  BY <1>3, <1>6, <1>10 DEF Lost
<1> QED
  BY <1>9, <1>11

LEMMA ReconstructKept ==
  ASSUME Lives, NEW f \in NonHead, Recovering(f), Reconstruct
  PROVE  Kept
<1>1. job.pc = "rebuild" /\ mode # "replicate" /\ job.k <= job.n /\ AloneJob /\ JobShaped(job)
  BY DEF Reconstruct, AloneJob, Local, workers, bounds, Lives, Shapes
<1>2. /\ RecoveryAt(f) /\ ParityStep(f) /\ Agreed(f) /\ Promoted /\ job.pos \in Position /\ job.n \in Nat
      /\ job.k \in Nat
  BY <1>1 DEF Recovering, Promoted, JobShaped
<1>3. /\ DOMAIN job.got = NonHead \ {f} /\ \A s \in NonHead \ {f} : FetchedFrom(f, s)
      /\ \A j \in 0..(job.n - 1) : Whole(f, j)
      /\ job.k \in 1..(job.n + 1) /\ job.recon = <<Prefix(f, job.k - 1)>>
  BY <1>1, <1>2 DEF ParityStep
<1>4. CASE GivesUp
  BY <1>1, <1>2, <1>4, GivesUpKept
<1>5. PICK cols : cols = Lost(cache.items[Subject][job.k - 1], job.k)
  OBVIOUS
<1>6. PICK new : new = [v \in DOMAIN job.victims |-> Append(job.recon[v], Sliced(job.victims[v], cols[v]))]
  OBVIOUS
<1>7. CASE Holds(cache, Subject, job.k - 1) /\ Goes("rebuild", job.n, job.k + 1, job.got, job.held, new)
  <2>0. job.k \in 1..job.n /\ job.k - 1 \in 0..(job.n - 1) /\ job.k \in Nat \ {0}
    BY <1>1, <1>2, <1>3
  <2>1. Sliced(f, cols[1]) = Col(Subject, f, job.k - 1)
    BY <1>1, <1>2, <1>3, <1>5, <1>7, <2>0, ReconstructedIs DEF Agreed
  <2>2. new = <<Prefix(f, job.k)>>
    <3>1. DOMAIN job.victims = {1} /\ job.victims[1] = f
      BY <1>2, VictimIs
    <3>2. job.recon[1] = Prefix(f, job.k - 1)
      BY <1>3
    <3>3. Append(job.recon[1], Sliced(f, cols[1])) = Prefix(f, job.k)
      BY <2>0, <2>1, <3>2, PrefixGrows
    <3>4. DOMAIN new = {1} /\ new[1] = Prefix(f, job.k)
      BY <1>6, <3>1, <3>3
    <3>5. new = [v \in 1..1 |-> new[v]]
      BY <1>6, <3>4
    <3> QED
      BY <3>4, <3>5
  <2>3. /\ job'.pc = "rebuild" /\ job'.n = job.n /\ job'.k = job.k + 1 /\ job'.got = job.got
        /\ job'.held = job.held /\ job'.recon = <<Prefix(f, job.k)>> /\ job'.pos = job.pos
        /\ job'.wrong = job.wrong /\ job'.victims = job.victims
    BY <1>7, <2>2, GoesIs
  <2>4. late' = late
    BY <1>1 DEF AloneJob
  <2>5. ParityStep(f)'
    <3>1. \A s \in NonHead \ {f} : FetchedFrom(f, s)'
      BY <1>1, <1>3, <2>3, <2>4 DEF FetchedFrom, Sizes, After
    <3>2. \A j \in 0..(job.n - 1) : Whole(f, j)'
      BY <1>1, <1>3, WholeStays
    <3>3. job'.k \in 1..(job'.n + 1) /\ job'.k - 1 = job.k
      BY <1>1, <1>2, <1>3, <2>3
    <3> QED
      BY <1>3, <2>3, <3>1, <3>2, <3>3 DEF ParityStep
  <2>6. RecoveryAt(f)'
    BY <1>1, <1>2, <2>3, RecoveryAtStays DEF Attempt, Promoted
  <2>7. Agreed(f)'
    BY <1>2, <2>3, <2>4 DEF Agreed, Sizes, After, Promoted
  <2>8. Recovering(f)'
    <3>1. history'[f][job'.pos] = "good"
      BY <1>1, <2>3 DEF Recovering, AloneJob
    <3> QED
      BY <1>1, <2>3, <2>5, <2>6, <2>7, <3>1 DEF Recovering, AloneJob
  <2> QED
    BY <1>1, <1>2, <2>3, <2>8, JobKept DEF RecoveryAt, Lives, Outer
<1> QED
  BY <1>1, <1>4, <1>5, <1>6, <1>7, ReconstructIs

LEMMA TakeReplicaKept ==
  ASSUME Lives, NEW f \in NonHead, Recovering(f), TakeReplica
  PROVE  Kept
<1>1. job.pc = "rebuild" /\ mode = "replicate" /\ job.k <= job.n /\ AloneJob /\ JobShaped(job)
  BY DEF TakeReplica, AloneJob, Local, workers, bounds, Lives, Shapes
<1>2. /\ RecoveryAt(f) /\ ReplicaStep(f) /\ Agreed(f) /\ Promoted /\ job.pos \in Position /\ job.n \in Nat
      /\ Victim = f
  BY <1>1, VictimIs DEF Recovering, Promoted, JobShaped
<1>3. Buffered(f)
  BY <1>1, <1>2 DEF ReplicaStep
<1>4. PICK new : new = [j \in 1..job.n |-> SubSeq(job.got, (j - 1) * LayersOf[f] + 1, j * LayersOf[f])]
  OBVIOUS
<1>5. new = Prefix(f, job.n)
  <2>1. \A j \in 1..job.n : new[j] = Col(Subject, f, j - 1)
    BY <1>3, <1>4 DEF Buffered
  <2>2. Sized(new, job.n)
    BY <1>2, <1>4 DEF Sized
  <2> QED
    BY <1>2, <2>1, <2>2, PrefixIs, SameSeq
<1>6. Goes("rebuild", job.n, job.n + 1, job.got, job.held, <<new>>)
  BY <1>1, <1>2, <1>4, TakeReplicaIs DEF _kv_dims
<1>7. /\ job'.pc = "rebuild" /\ job'.n = job.n /\ job'.k = job.n + 1 /\ job'.got = job.got
      /\ job'.held = job.held /\ job'.recon = <<Prefix(f, job.n)>> /\ job'.pos = job.pos
      /\ job'.wrong = job.wrong /\ job'.victims = job.victims
  BY <1>5, <1>6 DEF Goes, Made
<1>8. ReplicaStep(f)'
  <2>1. ~(job'.k <= job'.n)
    BY <1>2, <1>7
  <2> QED
    BY <1>7, <2>1 DEF ReplicaStep
<1>9. RecoveryAt(f)'
  BY <1>1, <1>2, <1>7, RecoveryAtStays DEF Attempt, Promoted
<1>10. Agreed(f)'
  BY <1>1, <1>2, <1>7 DEF Agreed, Sizes, After, Promoted, AloneJob
<1>11. Recovering(f)'
  <2>1. history'[f][job'.pos] = "good"
    BY <1>1, <1>7 DEF Recovering, AloneJob
  <2> QED
    BY <1>1, <1>7, <1>8, <1>9, <1>10, <2>1 DEF Recovering, AloneJob
<1> QED
  BY <1>1, <1>2, <1>7, <1>11, JobKept DEF RecoveryAt, Lives, Outer

LEMMA StartLoadKept ==
  ASSUME Lives, NEW f \in NonHead, Recovering(f), StartLoad
  PROVE  Kept
<1>1. job.pc = "rebuild" /\ job.k > job.n /\ AloneJob /\ JobShaped(job)
  BY DEF StartLoad, AloneJob, Local, workers, bounds, Lives, Shapes
<1>2. /\ RecoveryAt(f) /\ Agreed(f) /\ Promoted /\ job.pos \in Position /\ job.n \in Nat /\ job.k \in Nat
  BY <1>1 DEF Recovering, Promoted, JobShaped
<1>3. job.recon = <<Prefix(f, job.n)>>
  <2>1. CASE mode = "replicate"
    BY <1>1, <1>2, <2>1 DEF Recovering, ReplicaStep
  <2>2. CASE mode # "replicate"
    <3>1. job.k \in 1..(job.n + 1) /\ job.recon = <<Prefix(f, job.k - 1)>>
      BY <1>1, <2>2 DEF Recovering, ParityStep
    <3>2. job.k - 1 = job.n
      BY <1>1, <1>2, <3>1
    <3> QED
      BY <3>1, <3>2
  <2> QED
    BY <2>1, <2>2
<1>4. Goes("load", job.n, 1, << >>, job.held, job.recon)
  BY <1>1, StartLoadIs
<1>5. /\ job'.pc = "load" /\ job'.n = job.n /\ job'.k = 1
      /\ job'.held = job.held /\ job'.recon = <<Prefix(f, job.n)>> /\ job'.pos = job.pos
      /\ job'.wrong = job.wrong /\ job'.victims = job.victims
  BY <1>3, <1>4, GoesIs
<1>6. mode = "replicate" => ReplicaStep(f)'
  BY <1>5 DEF ReplicaStep
<1>7. mode # "replicate" => ParityStep(f)'
  <2>1. SUFFICES ASSUME mode # "replicate" PROVE ParityStep(f)'
    OBVIOUS
  <2>2. \A j \in 0..(job.n - 1) : Whole(f, j)
    BY <1>1, <2>1 DEF Recovering, ParityStep
  <2>3. \A j \in 0..(job.n - 1) : Whole(f, j)'
    BY <1>1, <2>2, WholeStays
  <2> QED
    BY <1>5, <2>3 DEF ParityStep
<1>8. RecoveryAt(f)'
  BY <1>1, <1>2, <1>5, RecoveryAtStays DEF Attempt, Promoted
<1>9. Agreed(f)'
  BY <1>1, <1>2, <1>5 DEF Agreed, Sizes, After, Promoted, AloneJob
<1>10. Recovering(f)'
  <2>1. history'[f][job'.pos] = "good"
    BY <1>1, <1>5 DEF Recovering, AloneJob
  <2> QED
    BY <1>1, <1>5, <1>6, <1>7, <1>8, <1>9, <2>1 DEF Recovering, AloneJob
<1> QED
  BY <1>1, <1>2, <1>5, <1>10, JobKept DEF RecoveryAt, Lives, Outer

LEMMA LoadedIs ==
  ASSUME NEW f \in Stage, NEW n \in Nat \ {0}, \A j \in 1..n : j - 1 \in Slot,
         NEW buf, buf = LayerMajor(f, Prefix(f, n))
  PROVE  [j \in 1..n |-> SlotOf(f, buf, n, j)] = Prefix(f, n)
<1>1. PICK cols : cols = Prefix(f, n)
  OBVIOUS
<1>2. Sized(cols, n) /\ \A i \in 1..n : cols[i] = Col(Subject, f, i - 1)
  BY <1>1, PrefixIs
<1>3. \A j \in 1..n : Sized(cols[j], LayersOf[f])
  BY <1>2, ColSize, KVAssumption
<1>4. \A j \in 1..n : SlotOf(f, buf, n, j) = cols[j]
  BY <1>1, <1>2, <1>3, LayoutIs
<1>5. PICK y : y = [j \in 1..n |-> SlotOf(f, buf, n, j)]
  OBVIOUS
<1>6. Sized(y, n) /\ \A j \in 1..n : y[j] = cols[j]
  BY <1>4, <1>5 DEF Sized
<1> QED
  BY <1>1, <1>2, <1>5, <1>6, SameSeq

LEMMA LoadKept ==
  ASSUME Lives, NEW f \in NonHead, Recovering(f), Load
  PROVE  Kept
<1>1. /\ job.pc = "load" /\ job.k <= Len(job.victims) /\ JobShaped(job)
      /\ UNCHANGED <<mode, crashed, next_hop, promoted, pushes, dead, plan, cache, history, chain, injected, late>>
  BY DEF Load, bounds, Lives, Shapes
<1>2. /\ RecoveryAt(f) /\ Agreed(f) /\ job.pos \in Position /\ job.n \in Nat /\ job.k = 1
      /\ job.victims[1] = f /\ f \in Stage /\ job.recon[1] = Prefix(f, job.n)
  <2>1. /\ RecoveryAt(f) /\ Agreed(f) /\ job.k \in {1, 2} /\ job.pos \in Position /\ job.n \in Nat
        /\ job.recon = <<Prefix(f, job.n)>>
    BY <1>1 DEF Recovering, JobShaped
  <2>2. Len(job.victims) = 1 /\ job.victims[1] = f /\ f \in Stage
    BY <2>1, VictimIs
  <2> QED
    BY <1>1, <2>1, <2>2
<1>3. Promoted /\ promoted = {f}
  BY <1>1, <1>2 DEF RecoveryAt, Promoted
<1>4. CASE GivesUp /\ UNCHANGED kv
  <2>1. AloneJob
    BY <1>1, <1>4 DEF AloneJob
  <2> QED
    BY <1>2, <1>4, <2>1, GivesUpKept
<1>5. CASE /\ LoadKV(f, LayerMajor(f, job.recon[1]), job.n)
           /\ Goes("load", job.n, job.k + 1, job.got, job.held, job.recon)
  <2>1. /\ job'.pc = "load" /\ job'.n = job.n /\ job'.k = 2 /\ job'.got = job.got
        /\ job'.held = job.held /\ job'.recon = job.recon /\ job'.pos = job.pos
        /\ job'.wrong = job.wrong /\ job'.victims = job.victims
    <3>1. job.k + 1 = 2
      BY <1>2
    <3> QED
      BY <1>5, <3>1, GoesIs
  <2>2. job.n \in Nat \ {0} /\ job.n \in Slot /\ \A j \in 1..job.n : j - 1 \in Slot
    BY <1>2, SizesAre DEF Agreed
  <2>3. kv' = [kv EXCEPT ![f] = Prefix(f, job.n)]
    <3>1. PICK n, buf : n = job.n /\ buf = LayerMajor(f, Prefix(f, n))
      OBVIOUS
    <3>2. [j \in 1..n |-> SlotOf(f, buf, n, j)] = Prefix(f, n)
      <4>1. n \in Nat \ {0} /\ f \in Stage /\ (\A j \in 1..n : j - 1 \in Slot) /\ buf = LayerMajor(f, Prefix(f, n))
        BY <1>2, <2>2, <3>1
      <4> QED
        BY <4>1, LoadedIs
    <3>3. kv' = [kv EXCEPT ![f] = [j \in 1..n |-> SlotOf(f, buf, n, j)]]
      BY <1>2, <1>5, <3>1 DEF LoadKV, install_kv
    <3> QED
      BY <3>1, <3>2, <3>3
  <2>4. kv'[f] = Prefix(f, job.n) /\ \A s \in Stage : s # f => kv'[s] = kv[s]
    BY <1>2, <2>3 DEF Lives, Shapes, KVShaped
  <2>5. Marks'
    BY <1>1, SameMarks DEF Lives
  <2>6. Sorts'
    <3>1. ASSUME NEW s \in Stage, NEW i \in DOMAIN kv'[s] PROVE Sized(kv'[s][i], LayersOf[s])
      <4>1. CASE s # f
        BY <2>4, <4>1 DEF Lives, Sorts, KVSorts
      <4>2. CASE s = f
        <5>1. i \in 1..job.n /\ kv'[s][i] = Col(Subject, f, i - 1)
          BY <1>2, <2>4, <4>2, PrefixIs
        <5> QED
          BY <1>2, <2>2, <4>2, <5>1, ColSize, KVAssumption
      <4> QED
        BY <4>1, <4>2
    <3>2. PushSorts' /\ GoneIdle' /\ HistorySorts'
      BY <1>1 DEF Lives, Sorts, PushSorts, IsPush, IsMirror, IsKVPush, GoneIdle, HistorySorts, UnderWay
    <3> QED
      BY <3>1, <3>2 DEF Sorts, KVSorts
  <2>7. Contents'
    <3>1. Right
      BY <1>1 DEF Right, Attempt
    <3>2. RightIn(cache)' <=> RightIn(cache)
      BY <1>1, RightInNext
    <3>3. (RightPushes' <=> RightPushes) /\ (RightHistory' <=> RightHistory)
      BY <1>1 DEF RightPushes, RightHistory
    <3> QED
      BY <3>1, <3>2, <3>3 DEF Contents, Lives
  <2>8. Outer'
    <3>1. \A s \in Stage : Len(kv'[s]) <= Prompt + MaxTokens + 1
      <4>1. Len(kv'[f]) = job.n
        BY <1>2, <2>4, PrefixIs
      <4>2. job.n <= Prompt + MaxTokens + 1
        BY <2>2, Numbers
      <4> QED
        BY <2>4, <4>1, <4>2 DEF Lives, Outer
    <3> QED
      BY <1>1, <1>2, <2>1, <3>1 DEF Lives, Outer, RecoveryAt
  <2>9. PushedOnce'
    BY <1>1, <1>3 DEF PushedOnce
  <2>10. Promoted'
    BY <2>1 DEF Promoted
  <2>11. PICK e \in 0..N : Stopped(f, e, Stage \ {f})
    BY <1>2, <1>3 DEF RecoveryAt
  <2>12. Stopped(f, e, Stage \ {f})'
    BY <1>1, <2>1, <2>4, <2>11 DEF Stopped, NoOrphan, KVAt, OnItsWay, After
  <2>13. RecoveryAt(f)'
    <3>1. job'.pc \in Attempt
      BY <2>1 DEF Attempt
    <3>2. Down(f)'
      BY <1>1, <1>2 DEF RecoveryAt, Down
    <3> QED
      BY <1>1, <1>2, <1>3, <2>1, <2>10, <2>12, <3>1, <3>2 DEF RecoveryAt
  <2>14. mode = "replicate" => ReplicaStep(f)'
    BY <2>1 DEF ReplicaStep
  <2>15. mode # "replicate" => ParityStep(f)'
    <3>1. SUFFICES ASSUME mode # "replicate" PROVE ParityStep(f)'
      OBVIOUS
    <3>2. \A j \in 0..(job.n - 1) : Whole(f, j)
      BY <1>1, <3>1 DEF Recovering, ParityStep
    <3>3. ASSUME NEW j \in 0..(job.n - 1) PROVE Whole(f, j)'
      <4>1. Whole(f, j)
        BY <3>2
      <4>2. \A s : Queued(s, j)' <=> Queued(s, j)
        BY <1>1 DEF Queued, QueuedOn, KVOf
      <4>3. ASSUME NEW s \in NonHead
            PROVE  ~Queued(s, j)' /\ (s # f => j < Len(kv'[s]))
        BY <2>4, <4>1, <4>2, Lengths DEF Whole
      <4> QED
        BY <1>1, <1>3, <4>1, <4>3 DEF Whole, Holds
    <3> QED
      BY <2>1, <3>3 DEF ParityStep
  <2>16. Agreed(f)'
    BY <1>1, <1>2, <1>3, <2>1, <2>10 DEF Agreed, Sizes, After
  <2>17. Recovering(f)'
    <3>1. history'[f][job'.pos] = "good" /\ job'.recon = <<Prefix(f, job'.n)>>
      BY <1>1, <2>1 DEF Recovering
    <3> QED
      BY <1>1, <2>1, <2>4, <2>13, <2>14, <2>15, <2>16, <3>1 DEF Recovering
  <2> QED
    BY <2>5, <2>6, <2>7, <2>8, <2>9, <2>17 DEF Kept, Phases
<1> QED
  BY <1>1, <1>2, <1>4, <1>5, LoadIs

LEMMA LiveKept ==
  ASSUME Lives, NEW f \in NonHead, Recovering(f), Live
  PROVE  Kept
<1>1. /\ job.pc = "load" /\ job.k > Len(job.victims) /\ JobShaped(job)
      /\ Invoke(Victim, history[Victim][job.pos] = "good")
      /\ job' = [NoJob EXCEPT !.pc = "wait", !.pos = job.pos, !.wrong = job.wrong]
      /\ UNCHANGED <<mode, crashed, next_hop, promoted, kv, dead, plan, cache, history, injected, late>>
  BY DEF Live, bounds, Lives, Shapes
<1>2. /\ RecoveryAt(f) /\ Agreed(f) /\ job.pos \in Position /\ job.n \in Nat
      /\ Victim = f /\ f \in Stage /\ f \in Nat /\ kv[f] = Prefix(f, job.n)
      /\ history[f][job.pos] = "good" /\ ~job.wrong
  <2>1. /\ RecoveryAt(f) /\ Agreed(f) /\ job.k \in {1, 2} /\ job.pos \in Position /\ job.n \in Nat
        /\ job.k = 2 => kv[f] = Prefix(f, job.n)
        /\ history[f][job.pos] = "good"
    BY <1>1 DEF Recovering, JobShaped
  <2>2. Len(job.victims) = 1 /\ Victim = f /\ f \in Stage /\ f \in Nat /\ ~job.wrong
    BY <2>1, VictimIs, Lengths
  <2> QED
    BY <1>1, <2>1, <2>2
<1>3. /\ Promoted /\ promoted = {f} /\ next_hop = plan /\ Down(f) /\ dead = {Placement[f]}
      /\ Viable(Placement, Recovery, dead) /\ chain["call"].st = "idle"
  BY <1>1, <1>2 DEF RecoveryAt, Promoted
<1>4. Invoke(f, TRUE)
  <2>1. (history[f][job.pos] = "good") = TRUE
    BY <1>2
  <2> QED
    BY <1>1, <1>2, <2>1
<1>5. job'.pc = "wait" /\ job'.pos = job.pos /\ job'.wrong = job.wrong /\ job'.held = << >> /\ job'.n = 0
  BY <1>1 DEF NoJob
<1>6. Serves(plan[f], f)
  BY <1>2, <1>3, PlanServes DEF Lives
<1>7. Right
  BY <1>1 DEF Right, Attempt
<1>8. chain' = [chain EXCEPT !["call"] = Invoked(f)] /\ Sorts' /\ Contents' /\ PushedOnce'
  BY <1>1, <1>2, <1>4, <1>6, <1>7, InvokeIs
<1>9. chain'["call"] = Invoked(f) /\ chain'["orphan"] = chain["orphan"]
  BY <1>8 DEF Lives, Shapes, ChainShaped, Handlers
<1>10. /\ Invoked(f).st = "arrived" /\ Invoked(f).stage = f /\ Invoked(f).dev = plan[f]
       /\ Invoked(f).at = job.pos /\ Invoked(f).good /\ Invoked(f).from = f /\ Invoked(f).blame = 0
  BY DEF Invoked
<1>11. Marks'
  BY <1>1, SameMarks DEF Lives
<1>12. Outer'
  <2>1. \A i \in Handlers : chain'[i].blame \in {0} \cup NonHead
    BY <1>9, <1>10 DEF Lives, Outer, Handlers
  <2>2. job'.n \in Slot
    BY <1>5, Numbers
  <2> QED
    BY <1>1, <1>2, <1>5, <2>1, <2>2 DEF Lives, Outer
<1>13. PICK e \in 0..N : Stopped(f, e, Stage \ {f})
  BY <1>2, <1>3 DEF RecoveryAt
<1>14. e \in Nat /\ N \in Nat /\ f <= N /\ e >= f - 1 /\ KVAt(e, Stage \ {f})
  BY <1>13, Lengths DEF Stopped
<1>15. ~late => Going'
  <2>1. SUFFICES ASSUME ~late PROVE Going'
    OBVIOUS
  <2>2. NoOrphan /\ e <= f
    BY <1>13, <2>1 DEF Stopped
  <2>3. NoOrphan'
    BY <1>9, <2>2 DEF NoOrphan
  <2>4. OnItsWay(chain["call"])'
    BY <1>1, <1>2, <1>3, <1>5, <1>9, <1>10 DEF OnItsWay
  <2>5. Passed(chain["call"])' = f - 1
    BY <1>9, <1>10 DEF Passed
  <2>6. ASSUME NEW s \in Stage
        PROVE  kv[s] = Prefix(s, IF s <= f - 1 THEN After(job.pos) ELSE Before(job.pos))
    <3>1. CASE s = f
      BY <1>2, <2>1, <3>1 DEF Agreed
    <3>2. CASE s # f
      <4>1. s \in Nat
        BY Lengths
      <4>2. s <= e <=> s <= f - 1
        BY <1>2, <1>14, <2>2, <3>2, <4>1
      <4>3. kv[s] = Prefix(s, IF s <= e THEN After(job.pos) ELSE Before(job.pos))
        BY <1>14, <3>2 DEF KVAt
      <4> QED
        BY <4>2, <4>3
    <3> QED
      BY <3>1, <3>2
  <2>7. KVAt(f - 1, Stage)'
    BY <1>1, <1>5, <2>6 DEF KVAt, After
  <2>8. KVAt(Passed(chain["call"]), Stage)'
    BY <2>5, <2>7 DEF KVAt
  <2> QED
    BY <1>2, <1>5, <1>9, <1>10, <2>3, <2>4, <2>8 DEF Going
<1>16. late => NoOrphan' \/ (UnderWay(chain["orphan"])' /\ chain'["orphan"].at <= job'.pos)
  BY <1>2, <1>5, <1>9, <1>13, Numbers DEF Stopped, NoOrphan, UnderWay, OnItsWay
<1>17. late => AtMostTwice'
  <2>1. SUFFICES ASSUME late, NEW s \in Stage
                 PROVE  Len(kv'[s]) + Todo("call", s)' + Todo("orphan", s)' <= After(job'.pos) + 1
    BY DEF AtMostTwice
  <2>2. e >= f
    BY <1>13, <2>1 DEF Stopped
  <2>3. s \in Nat /\ kv' = kv /\ job'.pos = job.pos
    BY <1>1, <1>5, Lengths
  <2>4. Todo("call", s)' \in {0, 1} /\ Todo("orphan", s)' \in {0, 1}
    BY DEF Todo
  <2>5. s <= e => Todo("orphan", s)' = 0
    <3>1. SUFFICES ASSUME s <= e, Todo("orphan", s)' # 0 PROVE FALSE
      OBVIOUS
    <3>2. PICK h : h = chain["orphan"]
      OBVIOUS
    <3>3. (h.st = "arrived" /\ h.stage <= s) \/ (h.st = "ran" /\ h.stage < s)
      BY <1>9, <3>1, <3>2 DEF Todo
    <3>4. e = Passed(h) /\ h.stage \in Nat
      BY <1>13, <3>2, <3>3, Lengths
         DEF Stopped, NoOrphan, Lives, Shapes, ChainShaped, Handlers, HandlerType
    <3> QED
      BY <1>14, <2>3, <3>1, <3>3, <3>4 DEF Passed
  <2>6. /\ Before(job.pos) \in Nat /\ After(job.pos) \in Nat /\ Before(job.pos) < After(job.pos)
        /\ job.n <= After(job.pos)
    BY <1>2, SizesAre DEF Agreed
  <2>7. CASE s = f
    <3>1. Len(kv[s]) = job.n
      BY <1>2, <2>7, PrefixIs
    <3> QED
      BY <1>2, <2>2, <2>3, <2>4, <2>5, <2>6, <2>7, <3>1 DEF After
  <2>8. CASE s # f
    <3>1. kv[s] = Prefix(s, IF s <= e THEN After(job.pos) ELSE Before(job.pos))
      BY <1>14, <2>8 DEF KVAt
    <3>2. CASE s <= e
      <4>1. Len(kv[s]) = After(job.pos)
        BY <2>6, <3>1, <3>2, PrefixIs
      <4> QED
        BY <2>3, <2>4, <2>5, <2>6, <3>2, <4>1 DEF After
    <3>3. CASE ~(s <= e)
      <4>1. Len(kv[s]) = Before(job.pos)
        BY <2>6, <3>1, <3>3, PrefixIs
      <4> QED
        BY <2>3, <2>4, <2>6, <4>1 DEF After
    <3> QED
      BY <3>2, <3>3
  <2> QED
    BY <2>7, <2>8
<1>18. Recovered(f)'
  <2>1. Down(f)' /\ Viable(Placement, Recovery, dead')
    BY <1>1, <1>3 DEF Down
  <2> QED
    BY <1>1, <1>2, <1>3, <1>5, <1>9, <1>10, <1>15, <1>16, <1>17, <2>1 DEF Recovered
<1> QED
  BY <1>8, <1>11, <1>12, <1>18 DEF Kept, Phases

-----------------------------------------------------------------------------
(* The invariant is one.                                                    *)

LEMMA StutterKept ==
  ASSUME Lives, UNCHANGED vars
  PROVE  Kept
<1>1. /\ UNCHANGED <<mode, crashed, next_hop, promoted, kv, pushes, dead, plan, cache, history, chain, job>>
      /\ UNCHANGED <<injected, late>>
  BY DEF vars, workers, gateway, bounds
<1>2. \A i \in Handlers : UnderWay(chain'[i]) => chain'[i].dev \notin crashed
  BY <1>1 DEF Lives, Sorts, GoneIdle
<1>3. Right' => Right
  BY <1>1 DEF Right
<1>4. Sorts' /\ Contents' /\ PushedOnce' /\ KeptStay /\ \A s, j : Queued(s, j)' <=> Queued(s, j)
  BY <1>1, <1>2, <1>3, StillKeeps DEF Lives, Phases
<1>5. Quiet
  BY <1>1, <1>4 DEF Quiet, Aside
<1> QED
  BY <1>4, <1>5, QuietKept

LEMMA LivesNext ==
  ASSUME Lives, [Next]_vars
  PROVE  Kept
<1>0. DOMAIN chain = Handlers /\ "call" \in Handlers
  BY DEF Lives, Shapes, ChainShaped, Handlers
<1>1. CASE UNCHANGED vars
  BY <1>1, StutterKept
<1>2. CASE Step
  <2>1. Chained \/ RunsTwice
    BY <1>2, ChainOrLate DEF Step
  <2> QED
    BY <1>2, <2>1, StepChained, StepDoubled
<1>3. CASE StepDone
  <2>1. Chained \/ RunsTwice
    BY <1>3, ChainOrLate DEF StepDone
  <2> QED
    BY <1>3, <2>1, StepDoneChained, StepDoneDoubled
<1>4. CASE OneDead
  BY <1>4, OneDeadKept
<1>5. CASE \/ Fetch \/ Geometry \/ ParityGate \/ Reconstruct \/ ReplicaGate \/ ReadReplica \/ TakeReplica
           \/ History \/ Promote \/ Rewire \/ StartLoad \/ Load \/ Live
  <2>1. job.pc \in Attempt
    BY <1>5 DEF Fetch, Geometry, ParityGate, Reconstruct, ReplicaGate, ReadReplica, TakeReplica,
                History, Promote, Rewire, StartLoad, Load, Live, Attempt
  <2>2. PICK f \in NonHead : Recovering(f)
    BY <2>1, Recoverable
  <2>3. CASE Fetch \/ Geometry \/ ParityGate \/ Reconstruct
    BY <2>2, <2>3, FetchKept, GeometryKept, ParityGateKept, ReconstructKept
  <2>4. CASE ReplicaGate \/ ReadReplica \/ TakeReplica \/ History
    BY <2>2, <2>4, ReplicaGateKept, ReadReplicaKept, TakeReplicaKept, HistoryKept
  <2>5. CASE Promote \/ Rewire \/ StartLoad \/ Load \/ Live
    BY <2>2, <2>5, PromoteKept, RewireKept, StartLoadKept, LoadKept, LiveKept
  <2> QED
    BY <1>5, <2>3, <2>4, <2>5
<1>6. CASE TwoDead
  BY <1>6 DEF TwoDead, Lives, OneFault
<1>7. ASSUME NEW i \in Handlers, Run(i) \/ Forward(i) PROVE Kept
  <2>1. CASE i = "orphan"
    BY <1>7, <2>1, OrphanKept
  <2>2. CASE i = "call"
    <3>1. chain["call"].st \in {"arrived", "ran"}
      BY <1>7, <2>2 DEF Run, Forward
    <3>2. Chained \/ RunsTwice
      BY <3>1, ChainOrLate
    <3> QED
      BY <1>0, <1>7, <2>2, <3>2, RunChained, ForwardChained, RunDoubled, ForwardDoubled
  <2> QED
    BY <2>1, <2>2 DEF Handlers
<1>8. ASSUME NEW i \in Handlers, InjectFault(i) PROVE Kept
  BY <1>8, InjectFaultKept
<1>9. ASSUME NEW d \in Device, Crash(d) \/ OnFailure(d) PROVE Kept
  BY <1>9, CrashKept, OnFailureKept
<1>10. CASE \/ \E d \in Device : Deliver(d) \/ Lose(d)
            \/ \E r \in Request \ {Subject}, s \in NonHead : OtherPush(r, s)
  BY <1>10, PushesKept
<1>11. \/ UNCHANGED vars
       \/ Step \/ StepDone \/ OneDead \/ TwoDead
       \/ \/ Fetch \/ Geometry \/ ParityGate \/ Reconstruct \/ ReplicaGate \/ ReadReplica \/ TakeReplica
          \/ History \/ Promote \/ Rewire \/ StartLoad \/ Load \/ Live
       \/ \E i \in Handlers : Run(i) \/ InjectFault(i) \/ Forward(i)
       \/ \E d \in Device : Deliver(d) \/ Lose(d) \/ Crash(d) \/ OnFailure(d)
       \/ \E r \in Request \ {Subject}, s \in NonHead : OtherPush(r, s)
  BY <1>0, NextIs
<1> QED
  BY <1>1, <1>2, <1>3, <1>4, <1>5, <1>6, <1>7, <1>8, <1>9, <1>10, <1>11

\* An attempt that is over stays as it is.
LEMMA EndedStays ==
  ASSUME Shapes, Marks, Sorts, Outer, Contents, Ended, [Next]_vars
  PROVE  Kept
<1>0. DOMAIN chain = Handlers
  BY DEF Shapes, ChainShaped
<1>1. UNCHANGED vars
  BY <1>0, NextIs
<1>2. /\ UNCHANGED <<mode, crashed, next_hop, promoted, kv, pushes, dead, plan, cache, history, chain, job>>
      /\ UNCHANGED <<injected, late>>
  BY <1>1 DEF vars, workers, gateway, bounds
<1>3. Marks'
  BY <1>2, SameMarks
<1>4. Sorts'
  BY <1>2 DEF Sorts, KVSorts, PushSorts, IsPush, IsMirror, IsKVPush, GoneIdle, HistorySorts, UnderWay
<1>5. Outer'
  BY <1>2 DEF Outer
<1>6. Contents'
  <2>1. RightIn(cache)' <=> RightIn(cache)
    BY <1>2, RightInNext
  <2>2. (RightPushes' <=> RightPushes) /\ (RightHistory' <=> RightHistory) /\ (Right' <=> Right)
    BY <1>2 DEF RightPushes, RightHistory, Right
  <2> QED
    BY <2>1, <2>2 DEF Contents
<1>7. Ended'
  BY <1>2 DEF Ended
<1> QED
  BY <1>3, <1>4, <1>5, <1>6, <1>7 DEF Kept

LEMMA IInvNext ==
  ASSUME IInv, [Next]_vars
  PROVE  IInv'
<1>1. Shapes' /\ CacheFits(cache)' /\ mode' = mode
  <2>1. Shapes' /\ CacheFits(cache') /\ mode' = mode
    BY NextShapes, ModeStays DEF Shapes, ChainShaped, IInv
  <2> QED
    BY <2>1, CacheFitsNext
<1>2. OneFault' <=> OneFault
  BY <1>1 DEF OneFault
<1>3. OneFault => Kept
  <2>1. SUFFICES ASSUME OneFault PROVE Kept
    OBVIOUS
  <2>2. CASE Ended
    BY <2>1, <2>2, EndedStays DEF IInv
  <2>3. CASE ~Ended
    <3>1. Lives
      BY <2>1, <2>3 DEF IInv, Lives
    <3> QED
      BY <3>1, LivesNext
  <2> QED
    BY <2>2, <2>3
<1> QED
  BY <1>1, <1>2, <1>3 DEF IInv, Kept

LEMMA IInvInit ==
  ASSUME Init
  PROVE  IInv
<1>1. Shapes /\ CacheFits(cache)
  BY InitShapes
<1>2. SUFFICES ASSUME OneFault
               PROVE  Marks /\ Sorts /\ Outer /\ Contents /\ Phases
  BY <1>1 DEF IInv
<1>3. /\ crashed = {} /\ dead = {} /\ plan = build_execution_plan(Placement, Recovery, {})
      /\ next_hop = Placement /\ promoted = {} /\ cache = EmptyCache
      /\ job = NoJob /\ injected = 0 /\ late = FALSE
  BY <1>2 DEF Init, OneFault, run_raid6_trial
<1>4. /\ \A s \in Stage : kv[s] = << >>
      /\ \A d \in Device : pushes[d] = << >>
      /\ \A i \in Handlers : chain[i] = Idle
      /\ history = [s \in Stage |-> [p \in Position |-> "none"]]
  BY DEF Init, Handlers
<1>5. Marks
  <2>1. Viable(Placement, Recovery, {})
    BY DEF Viable
  <2> QED
    BY <1>3, <2>1 DEF Marks, PlanOf
<1>6. Sorts
  <2>1. KVSorts /\ PushSorts /\ HistorySorts
    BY <1>4 DEF KVSorts, PushSorts, HistorySorts
  <2>2. GoneIdle
    BY <1>3, <1>4 DEF GoneIdle
  <2> QED
    BY <2>1, <2>2 DEF Sorts
<1>7. Outer
  <2>1. \A s \in Stage : Len(kv[s]) <= Prompt + MaxTokens + 1
    <3>1. Len(<< >>) <= Prompt + MaxTokens + 1
      BY Numbers
    <3> QED
      BY <1>4, <3>1
  <2>2. \A i \in Handlers : chain[i].blame \in {0} \cup NonHead
    BY <1>4 DEF Idle
  <2>3. job.n = 0 /\ 0 \in Slot /\ ~job.wrong
    BY <1>3, Numbers DEF NoJob
  <2>4. next_hop \in [Stage -> Device]
    BY <1>3, Lengths
  <2> QED
    BY <1>3, <2>1, <2>2, <2>3, <2>4 DEF Outer
<1>8. \A r \in Request : DOMAIN cache.items[r] = {}
  BY <1>3, NoItemsFit DEF EmptyCache
<1>9. Contents
  <2>1. RightIn(cache)
    BY <1>8 DEF RightIn
  <2>2. RightPushes
    BY <1>4 DEF RightPushes
  <2>3. RightHistory
    BY <1>4 DEF RightHistory
  <2> QED
    BY <2>1, <2>2, <2>3 DEF Contents
<1>10. PushedOnce
  <2>1. Placed /\ QueuedOnce
    BY <1>4 DEF Placed, QueuedOnce
  <2>2. \A s \in NonHead, j \in Nat : ~KeptIn(cache, s, j)
    BY <1>8, KVAssumption DEF KeptIn, Holds
  <2> QED
    BY <2>1, <2>2 DEF PushedOnce, KeptOnce
<1>11. Fresh
  <2>1. KVAt(0, Stage)
    <3>1. job.pos = 0 /\ Before(0) = 0
      BY <1>3 DEF NoJob, Before
    <3>2. ASSUME NEW s \in Stage PROVE kv[s] = Prefix(s, 0) /\ ~(s <= 0)
      <4>1. Sized(Prefix(s, 0), 0)
        BY PrefixIs
      <4>2. Prefix(s, 0) = << >>
        BY <4>1, EmptyIsSized, SameSeq
      <4>3. s \in Nat /\ s > 0
        BY Lengths
      <4> QED
        BY <1>4, <4>2, <4>3
    <3> QED
      BY <3>1, <3>2 DEF KVAt
  <2>2. job.pc = "step" /\ ~job.wrong /\ job.held = << >>
    BY <1>3 DEF NoJob
  <2>3. NoOrphan /\ chain["call"].st = "idle"
    BY <1>4 DEF NoOrphan, Handlers, Idle
  <2>4. Going
    BY <2>1, <2>2, <2>3 DEF Going
  <2> QED
    BY <1>3, <2>2, <2>4 DEF Fresh
<1> QED
  BY <1>5, <1>6, <1>7, <1>9, <1>10, <1>11 DEF Phases

-----------------------------------------------------------------------------
(* The theorems with at most one failure.                                   *)

LEMMA MarkedAreKnown ==
  ASSUME Marks, OneFault
  PROVE  /\ crashed \subseteq Crashable
         /\ LET marked == IF mode = "raid6" THEN pick_two_interior_victims ELSE {}
            IN Cardinality(dead \ (crashed \cup marked)) <= injected
<1>1. crashed \subseteq Crashable /\ injected \in {0, 1}
  BY DEF Marks
<1>2. PICK D : D = dead \ (crashed \cup {})
  OBVIOUS
<1>3. Cardinality(D) <= injected
  <2>1. CASE dead = {} \/ dead = crashed
    <3>1. D = {}
      BY <1>2, <2>1
    <3> QED
      BY <1>1, <3>1, FS_EmptySet
  <2>2. CASE injected = 1 /\ \E s \in NonHead : dead = {Placement[s]}
    <3>1. PICK s \in NonHead : dead = {Placement[s]}
      BY <2>2
    <3>2. IsFiniteSet({Placement[s]}) /\ Cardinality({Placement[s]}) = 1
      BY FS_Singleton
    <3>3. Cardinality(D) <= Cardinality({Placement[s]})
      BY <1>2, <3>1, <3>2, FS_Subset
    <3> QED
      BY <2>2, <3>2, <3>3
  <2> QED
    BY <2>1, <2>2 DEF Marks
<1>4. mode # "raid6"
  BY DEF OneFault
<1> QED
  BY <1>1, <1>2, <1>3, <1>4

LEMMA InvTypes ==
  ASSUME IInv, OneFault
  PROVE  TypeOK
<1>1. Shapes /\ Marks /\ Sorts /\ Outer
  BY DEF IInv
<1>2. mode \in DOMAIN Bounds
  BY <1>1 DEF Shapes
<1>3. plan \in [Stage -> Device]
  BY <1>1, PlanOfType DEF Marks
<1>4. next_hop \in [Stage -> Device] /\ promoted \subseteq NonHead
  BY <1>1 DEF Outer
<1>5. ASSUME NEW s \in Stage, NEW i \in DOMAIN kv[s]
      PROVE  Len(kv[s][i]) = LayersOf[s] /\ i - 1 \in Slot
  <2>1. Sized(kv[s][i], LayersOf[s])
    BY <1>1 DEF Sorts, KVSorts
  <2>2. Len(kv[s]) \in Nat /\ DOMAIN kv[s] = 1..Len(kv[s])
    BY <1>1, IsSeqIs DEF Shapes, KVShaped
  <2>3. Len(kv[s]) <= Prompt + MaxTokens + 1
    BY <1>1 DEF Outer
  <2>4. i - 1 \in Slot
    BY <2>2, <2>3, Numbers
  <2> QED
    BY <2>1, <2>4, SizedIs
<1>6. \A s \in Stage, p \in Position : history[s][p] \in {"none", "good", "bad"}
  BY <1>1 DEF Sorts, HistorySorts
<1>7. ASSUME NEW i \in DOMAIN chain
      PROVE  /\ chain[i].st \in {"idle", "arrived", "ran", "ok", "error"}
             /\ chain[i].stage \in Stage /\ chain[i].blame \in {0} \cup NonHead
  <2>1. chain \in [Handlers -> HandlerType]
    BY <1>1 DEF Shapes, ChainShaped
  <2>2. i \in Handlers /\ chain[i] \in HandlerType
    BY <2>1
  <2>3. chain[i].st \in {"idle", "arrived", "ran", "ok", "error"} /\ chain[i].stage \in Stage
    BY <2>2 DEF HandlerType
  <2>4. chain[i].blame \in {0} \cup NonHead
    BY <1>1, <2>2 DEF Outer
  <2> QED
    BY <2>3, <2>4
<1>8. job.pos \in Position /\ job.n \in Slot
  BY <1>1 DEF Shapes, JobShaped, Outer
<1>9. job.pc \in {"step", "wait", "fetch", "gate", "read", "history", "promote",
                  "rebuild", "load", "done", "surgical", "failed"}
  BY <1>1 DEF Shapes, JobShaped, Attempt
<1>10. /\ crashed \subseteq Crashable
       /\ LET marked == IF mode = "raid6" THEN pick_two_interior_victims ELSE {}
          IN Cardinality(dead \ (crashed \cup marked)) <= injected
  BY <1>1, MarkedAreKnown
<1> QED
  BY <1>2, <1>3, <1>4, <1>5, <1>6, <1>7, <1>8, <1>9, <1>10 DEF TypeOK

LEMMA InvFolded ==
  ASSUME IInv, OneFault
  PROVE  FoldedOnce
<1>1. BytesCounted
  BY BytesFollow DEF IInv, Shapes
<1>2. SUFFICES ASSUME ~late /\ mode # "replicate", NEW r \in Request, NEW j \in DOMAIN cache.items[r]
               PROVE  /\ cache.items[r][j].parity = Sums[r][j][cache.items[r][j].contributors]
                      /\ K = 2 => cache.items[r][j].q_parity = WeightedSums[r][j][cache.items[r][j].contributors]
  BY <1>1 DEF FoldedOnce
<1>3. RightIn(cache)
  BY <1>2 DEF IInv, Contents, Right
<1>4. cache.items[r][j].parity = Sums[r][j][cache.items[r][j].contributors]
  BY <1>2, <1>3 DEF RightIn
<1>5. K = 1
  BY DEF OneFault, K
<1> QED
  BY <1>4, <1>5

LEMMA LongerPrefix ==
  ASSUME NEW s, NEW n \in Nat, NEW m \in Nat, n <= m
  PROVE  IsPrefix(Prefix(s, n), Prefix(s, m))
<1>1. PICK x : x = Prefix(s, n)
  OBVIOUS
<1>2. PICK y : y = Prefix(s, m)
  OBVIOUS
<1>3. Sized(x, n) /\ Len(x) = n /\ \A i \in 1..n : x[i] = Col(Subject, s, i - 1)
  BY <1>1, PrefixIs
<1>4. Sized(y, m) /\ Len(y) = m /\ \A i \in 1..m : y[i] = Col(Subject, s, i - 1)
  BY <1>2, PrefixIs
<1>5. \A i \in 1..n : x[i] = y[i]
  BY <1>3, <1>4
<1>6. x \in Seq({x[i] : i \in 1..n}) /\ y \in Seq({y[i] : i \in 1..m})
  BY <1>3, <1>4, SizedIs
<1>7. SubSeq(x, 1, n) = [l \in 1..n |-> x[l]]
  <2>1. SubSeq(x, 1, n) = [l \in 1..(1 + n - 1) |-> x[l + 1 - 1]]
    BY <1>3, <1>6
  <2> QED
    BY <2>1
<1>8. SubSeq(y, 1, n) = [l \in 1..n |-> y[l]]
  <2>1. SubSeq(y, 1, n) = [l \in 1..(1 + n - 1) |-> y[l + 1 - 1]]
    BY <1>4, <1>6
  <2> QED
    BY <2>1
<1>9. SubSeq(x, 1, n) = SubSeq(y, 1, n)
  BY <1>5, <1>7, <1>8
<1> QED
  BY <1>1, <1>2, <1>3, <1>4, <1>9 DEF IsPrefix

LEMMA InvLoads ==
  ASSUME IInv, OneFault
  PROVE  LoadsWhatWasLost
<1>1. SUFFICES ASSUME job.pc = "load" PROVE \A v \in DOMAIN job.victims : IsPrefix(job.recon[v], job.held[v])
  BY DEF LoadsWhatWasLost
<1>2. ~job.wrong
  BY <1>1 DEF IInv, Outer
<1>3. Lives /\ job.pc \in Attempt
  BY <1>1, <1>2 DEF IInv, Lives, Ended, Attempt
<1>4. PICK f \in NonHead : Recovering(f)
  BY <1>3, Recoverable
<1>5. DOMAIN job.victims = {1}
  BY <1>4, VictimIs DEF Recovering
<1>6. job.recon = <<Prefix(f, job.n)>>
  BY <1>1, <1>4 DEF Recovering
<1>7. PICK m \in Nat : job.held = <<Prefix(f, m)>> /\ job.n <= m
  <2>1. Agreed(f) /\ Promoted
    BY <1>1, <1>4 DEF Recovering, Promoted
  <2> QED
    BY <2>1 DEF Agreed
<1>8. PICK n \in Nat : n = job.n
  BY DEF IInv, Shapes, JobShaped
<1>9. IsPrefix(Prefix(f, n), Prefix(f, m))
  BY <1>7, <1>8, LongerPrefix
<1>10. job.recon[1] = Prefix(f, n) /\ job.held[1] = Prefix(f, m)
  BY <1>6, <1>7, <1>8
<1> QED
  BY <1>5, <1>9, <1>10

\* The state of the gateway and of the workers is one the code can be in.  With a
\* failure the dead set is what has crashed or what an injected fault was blamed
\* on, and every stage has a device: next hops are never left open (mark_dead,
\* build_execution_plan, _rewire_chain), a cache never has more slots than the
\* request has positions to fill (StageRunner.run, install_kv).
THEOREM OneFaultTypeOK == Spec => [](OneFault => TypeOK)
<1>1. Init => IInv
  BY IInvInit
<1>2. IInv /\ [Next]_vars => IInv'
  BY IInvNext
<1>3. IInv => (OneFault => TypeOK)
  BY InvTypes
<1> QED
  BY <1>1, <1>2, <1>3, PTL DEF Spec

\* A blob of the parity cache is the sum of the columns of its contributors, each
\* once, in whatever order they arrive and whatever was lost or evicted between
\* (ParityCache.xor_in), as long as no worker has died after it had handed its
\* position on; its bytes are counted in any case.
THEOREM OneFaultFoldedOnce == Spec => [](OneFault => FoldedOnce)
<1>1. Init => IInv
  BY IInvInit
<1>2. IInv /\ [Next]_vars => IInv'
  BY IInvNext
<1>3. IInv => (OneFault => FoldedOnce)
  BY InvFolded
<1> QED
  BY <1>1, <1>2, <1>3, PTL DEF Spec

\* What _recover_parity reconstructs, and what _recover_replicate reads, is what
\* the lost worker held, also when it had handed its position on before it died.
THEOREM OneFaultLoadsWhatWasLost == Spec => [](OneFault => LoadsWhatWasLost)
<1>1. Init => IInv
  BY IInvInit
<1>2. IInv /\ [Next]_vars => IInv'
  BY IInvNext
<1>3. IInv => (OneFault => LoadsWhatWasLost)
  BY InvLoads
<1> QED
  BY <1>1, <1>2, <1>3, PTL DEF Spec

\* generate never takes a wrong token over from a recovery, unless the worker had
\* handed its position on before it died.
THEOREM OneFaultNoWrongToken == Spec => [](OneFault => NoWrongToken)
<1>1. Init => IInv
  BY IInvInit
<1>2. IInv /\ [Next]_vars => IInv'
  BY IInvNext
<1>3. IInv => (OneFault => NoWrongToken)
  BY DEF IInv, Outer, NoWrongToken
<1> QED
  BY <1>1, <1>2, <1>3, PTL DEF Spec
=============================================================================
