------------------------------ MODULE Scheduler ------------------------------
(***************************************************************************)
(* The Recovery-Aware DP of radp/coordinator/scheduler.py with the         *)
(* recovery table and the memory check it rests on (recovery_table.py,     *)
(* memory_check.py).                                                       *)
(*                                                                         *)
(* A cluster specification c is a record:                                  *)
(*   devices      the pipeline order, a sequence of devices                *)
(*   hosts        who may hold a backup besides them (a sequence)          *)
(*   mem          bytes of each layer; the layers are 1..Len(c.mem)        *)
(*   time         c.time[d][i]: what device d takes for layer i            *)
(*   free, total  memory budgets by device; free 0 is "not reported"       *)
(*   rate, lat    c.rate[<<s, d>>] is 1/bandwidth, c.lat[<<s, d>>] the     *)
(*                latency, for the pairs that were measured                *)
(*   activation, hop, slo, penalty, concurrency, pool, mode, alpha,        *)
(*   eager, backups, subsets, search   the cost-model and search knobs     *)
(* Seconds are naturals.  Every time is multiplied by the pool size, so    *)
(* that the saturation multiplier C * M / pool needs no fractions; an      *)
(* infinite time is never better than another one, so what has one is no   *)
(* candidate in the first place.                                           *)
(*                                                                         *)
(* A placement is a sequence of stages [device, start, end]; a recovery    *)
(* table is a function whose domain is the devices that have a backup.     *)
(***************************************************************************)
EXTENDS Naturals, Sequences, FiniteSets, FiniteSetsExt, SequencesExt, Functions

Layers(c) == Len(c.mem)
M(c) == Len(c.devices)
Sum(f, s, e) == SumFunctionOnSet(f, s..e)

-----------------------------------------------------------------------------
(* memory_check.py *)

\* free_memory_bytes or total_memory_bytes: a free memory of 0 counts as
\* unknown.
Budget(c, d) == IF c.free[d] = 0 THEN c.total[d] ELSE c.free[d]

StageBytes(c, stage) == Sum(c.mem, stage.start, stage.end)

backup_memory_for(c, node, R, p) ==
  SumFunctionOnSet([i \in DOMAIN p |-> StageBytes(c, p[i])],
    {i \in DOMAIN p : p[i].device \in DOMAIN R /\ R[p[i].device] = node})

memory_check(c, node, s, e, R, p) ==
  Sum(c.mem, s, e) + (IF c.eager THEN backup_memory_for(c, node, R, p) ELSE 0)
    <= Budget(c, node)

-----------------------------------------------------------------------------
(* recovery_table.py *)

Measured(c, s, d) == <<s, d>> \in DOMAIN c.rate

\* The backup candidates in their order: the hosts, then the pipeline devices.
\* One that is in both is met first as a host, and the first one counts.
Hosts(c) == c.hosts \o c.devices

StageOf(p, d) == SelectInSeq(p, LAMBDA s : s.device = d)
UsedBy(c, p, d) == IF StageOf(p, d) = 0 THEN 0 ELSE StageBytes(c, p[StageOf(p, d)])

\* estimate_download_time from the holder of a stage plus estimate_recompute_time.
BackupCost(c, stage, k) ==
  StageBytes(c, stage) * c.rate[<<k, stage.device>>] + c.lat[<<k, stage.device>>]
    + Sum(c.time[k], stage.start, stage.end)

\* The first host of the least cost, 0 when none has room.
BestHost(c, p, stage, reserved) ==
  LET hosts == Hosts(c)
      room(k) == UsedBy(c, p, k) + (IF c.eager THEN reserved[k] ELSE 0)
                   + StageBytes(c, stage) <= Budget(c, k)
      able == {i \in DOMAIN hosts : /\ hosts[i] # stage.device
                                    /\ room(hosts[i])
                                    /\ Measured(c, hosts[i], stage.device)}
      cost(i) == BackupCost(c, stage, hosts[i])
  IN IF able = {} THEN 0
     ELSE CHOOSE i \in able :
            \A j \in able : cost(i) < cost(j) \/ (cost(i) = cost(j) /\ i <= j)

\* Variant: every device chooses as if it were the only one.
Reserve_nothing(reserved, k, bytes) == reserved

\* A backup that was given to host k counts against k for the devices after it.
Reserve(reserved, k, bytes) == [reserved EXCEPT ![k] = @ + bytes]

NoTable == [ok |-> FALSE, R |-> << >>]

NothingAssigned(c) ==
  [ok |-> TRUE, R |-> << >>, reserved |-> [d \in ToSet(Hosts(c)) |-> 0]]

\* Host k keeps the backup of device j.
Assigned(acc, j, k, bytes) ==
  [ok       |-> TRUE,
   R        |-> [d \in DOMAIN acc.R \cup {j} |-> IF d = j THEN k ELSE acc.R[d]],
   reserved |-> Reserve(acc.reserved, k, bytes)]

\* The turn of device j; NoRecoveryError is ok = FALSE.
Assign(c, p, acc, j) ==
  LET stage == p[StageOf(p, j)]
      i == BestHost(c, p, stage, acc.reserved)
  IN IF ~acc.ok \/ StageOf(p, j) = 0 THEN acc
     ELSE IF i = 0 THEN [acc EXCEPT !.ok = FALSE]
     ELSE Assigned(acc, j, Hosts(c)[i], StageBytes(c, stage))

\* One device after the other in pipeline order.
determine_recovery_table(c, p) ==
  LET after[n \in 0..M(c)] ==
        IF n = 0 THEN NothingAssigned(c) ELSE Assign(c, p, after[n - 1], c.devices[n])
      end == after[M(c)]
  IN IF end.ok THEN [ok |-> TRUE, R |-> end.R] ELSE NoTable

-----------------------------------------------------------------------------
(* The cost model. *)

\* Variant: a single stream is taken to saturate the pool as well.
Multiplier_always(c) == Max({c.pool, c.concurrency * M(c)})

\* max(1, concurrency * stages / pool), times the pool size.
Multiplier(c) ==
  IF c.concurrency <= 1 THEN c.pool ELSE Max({c.pool, c.concurrency * M(c)})

StageTime(c, d, s, e) == Sum(c.time[d], s, e) * Multiplier(c)

CommTime(c, s, d) == (c.activation * c.rate[<<s, d>>] + c.lat[<<s, d>>] + c.hop) * c.pool

\* Only throughput mode caps the cost of a single stage.
WithinCap(c, cost) == c.mode = "throughput" => cost <= c.slo * c.pool

_rank(c, state) ==
  CASE c.mode = "throughput" -> state.max
    [] c.mode = "latency"    -> state.sum
    [] c.mode = "blended"    -> state.sum + c.alpha * state.max

-----------------------------------------------------------------------------
(* The DP.  A cell is the best way found to put layers 1..y on the first n  *)
(* devices: its sum and maximum of stage costs and the layers its stages    *)
(* end at, which is what the choice table is backtracked to.                *)

Empty == [sum |-> 0, max |-> 0, ends |-> << >>]

\* n = 1: the input is local to the first device, so there is no transfer.
FirstCell(c, R, ref, y) ==
  LET d == c.devices[1]
      cost == StageTime(c, d, 1, y)
  IN IF memory_check(c, d, 1, y, R, ref) /\ WithinCap(c, cost)
     THEN [sum |-> cost, max |-> cost, ends |-> <<y>>] ELSE Empty

\* Variant: the transfer from the previous device is free.
Extended_without_transfer(c, cell, n, split, y) ==
  LET cost == StageTime(c, c.devices[n], split + 1, y)
  IN [sum |-> cell.sum + cost, max |-> Max({cell.max, cost}),
      cost |-> cost, ends |-> Append(cell.ends, y)]

\* What layers split+1..y cost on the n-th device, on top of a cell.
Extended(c, cell, n, split, y) ==
  LET cost == StageTime(c, c.devices[n], split + 1, y)
                + CommTime(c, c.devices[n - 1], c.devices[n])
  IN [sum |-> cell.sum + cost, max |-> Max({cell.max, cost}),
      cost |-> cost, ends |-> Append(cell.ends, y)]

\* The rank of an empty cell is infinite, and everything ranks below it, but for
\* sum + 0 * max: zero times infinity is not a number, and nothing compares.
RanksBelowEmpty(c) == ~(c.mode = "blended" /\ c.alpha = 0)

\* The splits are tried in ascending order and replaced only by better ones, so
\* the first of the best ones stays.
FirstBest(c, ext, fits) ==
  ext[CHOOSE s \in fits : \A t \in fits :
        _rank(c, ext[s]) < _rank(c, ext[t]) \/ (_rank(c, ext[s]) = _rank(c, ext[t]) /\ s <= t)]

Fits(c, R, ref, prev, ext, n, y) ==
  {s \in (n - 1)..(y - 1) :
     /\ prev[s] # Empty
     /\ memory_check(c, c.devices[n], s + 1, y, R, ref)
     /\ Measured(c, c.devices[n - 1], c.devices[n])
     /\ WithinCap(c, ext[s].cost)}

CellOf(c, ext, fits) ==
  IF fits = {} \/ ~RanksBelowEmpty(c) THEN Empty
  ELSE LET best == FirstBest(c, ext, fits)
       IN [sum |-> best.sum, max |-> best.max, ends |-> best.ends]

BestCell(c, R, ref, prev, n, y) ==
  LET ext == [s \in (n - 1)..(y - 1) |-> Extended(c, prev[s], n, s, y)]
  IN CellOf(c, ext, Fits(c, R, ref, prev, ext, n, y))

FirstRow(c, R, ref) == [y \in 1..Layers(c) |-> FirstCell(c, R, ref, y)]

NextRow(c, R, ref, prev, n) ==
  [y \in 1..Layers(c) |-> IF y < n THEN Empty ELSE BestCell(c, R, ref, prev, n, y)]

_forward(c, R, ref) ==
  LET row[n \in 1..M(c)] ==
        IF n = 1 THEN FirstRow(c, R, ref) ELSE NextRow(c, R, ref, row[n - 1], n)
  IN row[M(c)][Layers(c)]

\* The placement whose n-th stage ends at layer ends[n].
Placed(devices, ends) ==
  [n \in DOMAIN ends |-> [device |-> devices[n],
                          start |-> IF n = 1 THEN 1 ELSE ends[n - 1] + 1,
                          end |-> ends[n]]]

_backtrack(c, cell) == Placed(c.devices, cell.ends)

\* floor(L / M) layers each, one more for the first L % M devices.
uniform_placement(c) ==
  LET upto(n) == n * (Layers(c) \div M(c)) + Min({n, Layers(c) % M(c)})
  IN Placed(c.devices, [n \in 1..M(c) |-> upto(n)])

\* A single pass over one order, with a given table; Empty when it raises.
solve(c, R) ==
  IF Layers(c) < M(c) THEN Empty ELSE _forward(c, R, uniform_placement(c))

-----------------------------------------------------------------------------
(* R-Psi alternation. *)

NotFound == [ok |-> FALSE, placement |-> << >>, recovery |-> << >>,
             sum |-> 0, max |-> 0, converged |-> FALSE]

\* Variant: only the stages of the new placement are checked.
_memory_self_check_stages(c, p, R) ==
  \A i \in DOMAIN p : StageBytes(c, p[i]) <= Budget(c, p[i].device)

_memory_self_check(c, p, R) ==
  \A i \in DOMAIN p : memory_check(c, p[i].device, p[i].start, p[i].end, R, p)

\* R = {} when backups are switched off.
TableFor(c, p) ==
  IF c.backups THEN determine_recovery_table(c, p) ELSE [ok |-> TRUE, R |-> << >>]

\* Variant: the alternation always starts from the uniform split.
Seed_uniform(c) == uniform_placement(c)

\* A seed without a feasible table is replaced by the cost-only placement.
Repaired(c, uniform, cell) ==
  IF TableFor(c, uniform).ok \/ cell = Empty THEN uniform ELSE _backtrack(c, cell)

Seed(c) == LET uniform == uniform_placement(c)
           IN Repaired(c, uniform, _forward(c, << >>, uniform))

\* The state of solve_alternating before an iteration.
Start(c) == [psi |-> Seed(c), r |-> NoTable, best |-> NotFound, iter |-> 1,
             ref |-> << >>, cell |-> Empty, over |-> FALSE, answer |-> NotFound]

Finish(a, answer) == [a EXCEPT !.over = TRUE, !.answer = answer]

\* The best placement of the run, copied for the log of all iterations: the sum of
\* its stage times is not among the fields that are copied and has its default.
_replace_history(result) ==
  [ok |-> result.ok, placement |-> result.placement, recovery |-> result.recovery,
   max |-> result.max, sum |-> 0, converged |-> FALSE]

FallBack(a, best) == Finish(a, _replace_history(best))

max_iterations == 10

\* Variant: the first placement that fits is taken for convergence.
Stable_when_it_fits(a, table, psi, fits) == fits

\* Converged: neither the table nor the placement moved, and they fit.
Stable(a, table, psi, fits) == table = a.r /\ psi = a.psi /\ fits

\* A placement for the table (cell is what the DP found), and whether the two fit
\* together.
Placing(c, a, table, cell) ==
  LET psi == _backtrack(c, cell)
      fits == _memory_self_check(c, psi, table.R)
      found == [ok |-> TRUE, placement |-> psi, recovery |-> table.R,
                sum |-> cell.sum, max |-> cell.max,
                converged |-> Stable(a, table, psi, fits)]
      best == IF fits /\ (~a.best.ok \/ _rank(c, cell) < _rank(c, a.best))
              THEN [found EXCEPT !.converged = FALSE] ELSE a.best
      tried == [a EXCEPT !.r = table, !.ref = a.psi, !.cell = cell, !.iter = @ + 1]
      next == [tried EXCEPT !.psi = psi, !.best = best]
  IN IF cell = Empty THEN FallBack(tried, a.best)
     ELSE IF found.converged THEN Finish(next, found)
     ELSE IF a.iter = max_iterations THEN FallBack(next, best)
     ELSE next

\* One turn of the loop: a table for the current placement, then a placement for
\* that table.
Turn(c, a, table) ==
  IF ~table.ok THEN FallBack(a, a.best) ELSE Placing(c, a, table, _forward(c, table.R, a.psi))

Iterate(c, a) == Turn(c, a, TableFor(c, a.psi))

-----------------------------------------------------------------------------
(* The search over subsets and orders of the devices. *)

\* combinations() of each size and permutations() of each combination, both in
\* the order of the positions in c.devices; too many devices are not searched.
Orders(c) ==
  LET n == M(c)
      sizes == IF c.subsets THEN 2..n ELSE {n}
      perms == {s \in UNION {[1..k -> 1..n] : k \in sizes} : IsInjective(s)}
      less(a, b) == \E i \in DOMAIN a \cap DOMAIN b :
                      a[i] < b[i] /\ \A j \in 1..(i - 1) : a[j] = b[j]
      sorted(a) == [i \in DOMAIN a |->
                      CHOOSE x \in Range(a) : Cardinality({y \in Range(a) : y < x}) = i - 1]
      before(a, b) ==
        \/ Len(a) < Len(b)
        \/ Len(a) = Len(b) /\ less(sorted(a) \o a, sorted(b) \o b)
      indices == [i \in 1..Cardinality(perms) |->
                    CHOOSE s \in perms : Cardinality({t \in perms : before(t, s)}) = i - 1]
  IN IF c.search < n THEN <<c.devices>>
     ELSE [i \in DOMAIN indices |-> [k \in DOMAIN indices[i] |-> c.devices[indices[i][k]]]]

\* Variant: the optimization mode falls back to its default.
with_devices_default_mode(c, order) ==
  [c EXCEPT !.devices = order, !.mode = "throughput"]

\* The specification of one candidate: everything but the order is kept.
with_devices(c, order) == [c EXCEPT !.devices = order]

\* Ties go to the placement with more layers on faster devices.  Throughput is
\* relative to the fastest device; a product of the others' times compares alike.
TotalTime(c, d) == Sum(c.time[d], 1, Layers(c))

Throughput(c, d) == FoldLeft(LAMBDA acc, x : IF x = d THEN acc ELSE acc * TotalTime(c, x),
                             1, c.devices)

tiebreak_score(c, p) ==
  MapThenSumSet(LAMBDA i : Throughput(c, p[i].device) * (p[i].end - p[i].start + 1), DOMAIN p)

\* The rank of a candidate with the penalty on its number of stages.
SearchRank(c, answer) ==
  _rank(c, answer) + c.penalty * c.pool * Len(answer.placement)

Better(c, answer, best) ==
  \/ ~best.ok
  \/ SearchRank(c, answer) < SearchRank(c, best)
  \/ /\ SearchRank(c, answer) = SearchRank(c, best)
     /\ tiebreak_score(c, answer.placement) > tiebreak_score(c, best.placement)
=============================================================================
