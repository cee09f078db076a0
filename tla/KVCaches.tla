------------------------------ MODULE KVCaches ------------------------------
(***************************************************************************)
(* What the gateway keeps of the KV columns that the workers push: one     *)
(* parity blob per slot (ParityCache, with Q beside P when k = 2) or every *)
(* column verbatim (ReplicaCache).  Both hold them per request, in the     *)
(* order of the requests' last pushes, and give up whole requests when     *)
(* they exceed their budget.                                               *)
(*                                                                         *)
(* A cache is a record: items[r] maps the keys of request r to what is     *)
(* held under them, order is the OrderedDict's order of requests and used  *)
(* is _bytes_used.                                                         *)
(***************************************************************************)
EXTENDS GF256, FiniteSets, FiniteSetsExt, SequencesExt, Functions

CONSTANTS Request,    \* requests whose columns are pushed
          max_bytes   \* the budget

NoItems == << >>
EmptyCache == [items |-> [r \in Request |-> NoItems], order |-> << >>, used |-> 0]

Holds(c, r, key) == key \in DOMAIN c.items[r]

\* items with key set to item.
Put(items, key, item) ==
  [k \in DOMAIN items \cup {key} |-> IF k = key THEN item ELSE items[k]]

touch(order, r) == Append(RemoveFirst(order, r), r)

\* The cache without its n oldest requests.
WithoutOldest(c, n, held) ==
  LET gone == {c.order[i] : i \in 1..n}
  IN [items |-> [r \in Request |-> IF r \in gone THEN NoItems ELSE c.items[r]],
      order |-> SubSeq(c.order, n + 1, Len(c.order)),
      used  |-> c.used - SumFunctionOnSet(held, gone)]

\* _evict_if_needed_locked: oldest first, never the only one; held[r] is what
\* request r holds.
evict_if_needed(c, held) ==
  LET last == Len(c.order) - 1
      enough == {n \in 0..last : n = last \/ WithoutOldest(c, n, held).used <= max_bytes}
  IN WithoutOldest(c, Min(enough), held)

-----------------------------------------------------------------------------
(* ParityCache. *)

Blobs(entry) == Len(entry.parity) + Len(entry.q_parity)
ParityBytes(c) ==
  [r \in Request |-> SumFunction([slot \in DOMAIN c.items[r] |-> Blobs(c.items[r][slot])])]

NoEntry == [parity |-> << >>, q_parity |-> << >>, contributors |-> {}]

Entry(c, r, slot) == IF Holds(c, r, slot) THEN c.items[r][slot] ELSE NoEntry

\* The blobs grow with the widest column.
Folded(entry, s, coeff_index, col, k) ==
  [parity       |-> XorColumns(entry.parity, col),
   q_parity     |-> IF k = 2
                    THEN XorColumns(entry.q_parity, gf_mul_scalar(gf_pow(coeff_index), col))
                    ELSE << >>,
   contributors |-> entry.contributors \cup {s}]

\* Variant: growing a blob does not count its new bytes.
xor_in_uncounted(c, r, s, slot, col, coeff_index, k) ==
  LET old == Entry(c, r, slot)
      new == Folded(old, s, coeff_index, col, k)
      touched == [c EXCEPT !.order = touch(@, r)]
      folded == [touched EXCEPT !.items[r] = Put(c.items[r], slot, new),
                                !.used = @ + IF Holds(c, r, slot) THEN 0 ELSE Blobs(new)]
  IN IF s \in old.contributors THEN touched
     ELSE evict_if_needed(folded, ParityBytes(folded))

\* A column is folded in once.
xor_in(c, r, s, slot, col, coeff_index, k) ==
  LET old == Entry(c, r, slot)
      new == Folded(old, s, coeff_index, col, k)
      touched == [c EXCEPT !.order = touch(@, r)]
      folded == [touched EXCEPT !.items[r] = Put(c.items[r], slot, new),
                                !.used = @ + Blobs(new) - Blobs(old)]
  IN IF s \in old.contributors THEN touched
     ELSE evict_if_needed(folded, ParityBytes(folded))

parity_is_complete(c, r, slot, num_stages) ==
  Cardinality(Entry(c, r, slot).contributors) = num_stages

-----------------------------------------------------------------------------
(* ReplicaCache. *)

ReplicaBytes(c) ==
  [r \in Request |-> SumFunction([key \in DOMAIN c.items[r] |-> Len(c.items[r][key])])]

store(c, r, s, slot, col) ==
  LET touched == [c EXCEPT !.order = touch(@, r)]
      stored == [touched EXCEPT !.items[r] = Put(c.items[r], <<s, slot>>, col),
                                !.used = @ + Len(col)]
  IN IF Holds(c, r, <<s, slot>>) THEN touched
     ELSE evict_if_needed(stored, ReplicaBytes(stored))

replica_is_complete(c, r, s, up_to) == \A j \in 0..up_to : Holds(c, r, <<s, j>>)

StoredSlots(c, r, s) == {k[2] : k \in {k \in DOMAIN c.items[r] : k[1] = s}}

\* get_stage_kv: the columns one after another, in the order of their slots.
get_stage_kv(c, r, s) ==
  LET slots == StoredSlots(c, r, s)
      slot(n) == CHOOSE j \in slots : Cardinality({i \in slots : i < j}) = n - 1
  IN FlattenSeq([n \in 1..Cardinality(slots) |-> c.items[r][<<s, slot(n)>>]])
=============================================================================
