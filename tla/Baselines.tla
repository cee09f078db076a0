------------------------------ MODULE Baselines ------------------------------
(***************************************************************************)
(* The placements RADP is compared with in its experiments, over the same  *)
(* specifications as Scheduler: the greedy split of PETALS, the placement  *)
(* the DP finds without reserving backups, and the cost function that      *)
(* compares them (experiments/_harness.py, a3_baselines.py,                *)
(* d28_cost_model_sweep.py, d29_decoupled_feasibility.py).                 *)
(***************************************************************************)
EXTENDS Profiling

\* Python rounds a half to the even neighbour.
Round(a, b) ==
  LET q == a \div b
      r == 2 * (a % b)
  IN IF r < b \/ (r = b /\ q % 2 = 0) THEN q ELSE q + 1

\* Shares of the layers by throughput, at least one each, the rest to the last.
greedy_placement(c) ==
  LET w(n) == Throughput(c, c.devices[n])
      total == MapThenSumSet(w, 1..M(c))
      count(n) == Max({1, Round(Layers(c) * w(n), total)})
      ends[n \in 0..M(c)] ==
        CASE n = 0 -> 0
          [] n = M(c) -> Layers(c)
          [] OTHER -> ends[n - 1] + Min({count(n), Layers(c) - ends[n - 1] - (M(c) - n)})
  IN Placed(c.devices, [n \in 1..M(c) |-> ends[n]])

\* The comparison's own cost function: no hop overhead, no saturation, and a link
\* without a measurement is free.
StageCost(c, p, n) ==
  Sum(c.time[p[n].device], p[n].start, p[n].end)
    + IF n = 1 THEN 0
      ELSE LET pair == <<p[n - 1].device, p[n].device>>
           IN IF pair \in DOMAIN c.rate THEN c.activation * c.rate[pair] + c.lat[pair] ELSE 0

max_stage_time(c, p) == Max({StageCost(c, p, n) : n \in DOMAIN p})

\* Does a placement fit every device, with and without its backups; capacity is
\* the total memory in the experiments.
_feasibility(c, p, R, capacity) ==
  LET fits(d, bytes) == bytes <= capacity[d]
  IN [primary_ok     |-> \A n \in DOMAIN p : fits(p[n].device, StageBytes(c, p[n])),
      with_backup_ok |-> \A d \in ToSet(c.devices) :
                           fits(d, UsedBy(c, p, d) + backup_memory_for(c, d, R, p))]

\* Scheduler.solve over one order; Empty when it raises.
dp_placement(c, R) == solve(c, R)

dp_placement_no_recovery(c) == dp_placement(c, << >>)

round_robin_placement(c) == uniform_placement(c)

\* What a coordinator writes down of the fleet it planned for: all it measured,
\* none of the knobs.
_write_scheduler_stats_sidecar(c) ==
  [f \in {"devices", "mem", "time", "total", "free", "rate", "lat"} |-> c[f]]

\* The specification as the experiments rebuild it: the caller gives some of the
\* knobs again, the others have their defaults.
cluster_spec_from_sidecar(sidecar, knobs) ==
  sidecar @@ [knobs EXCEPT !.hop = 0, !.concurrency = 1, !.penalty = 0,
                           !.hosts = << >>, !.backups = TRUE]

\* The placements without recovery; JUPITER's DP is there when it finds one.
compute_all_baselines(c) ==
  LET jupiter == dp_placement_no_recovery([c EXCEPT !.mode = "throughput", !.alpha = 0])
  IN {greedy_placement(c), round_robin_placement(c)}
       \cup (IF jupiter = Empty THEN {} ELSE {_backtrack(c, jupiter)})

\* best_subset_placement: every ordered subset, no recovery; a set of the cells
\* found, of which the least rank is the answer.
cost_only(c) ==
  {cell \in {dp_placement_no_recovery([c EXCEPT !.devices = o]) : o \in ToSet(Orders(c))} :
     cell # Empty}

cost_only_rank(c) ==
  Min({_rank(c, cell) + c.penalty * c.pool * Len(cell.ends) : cell \in cost_only(c)})

-----------------------------------------------------------------------------
(* First a placement, then backups for it (d29_coupling_threshold.py).  The *)
(* two-step procedures search every ordered subset, whatever the knobs of   *)
(* the search are, and leave the penalty on the number of stages out.       *)

EveryOrder(c) == Orders([c EXCEPT !.subsets = TRUE, !.search = M(c)])

\* The cost-only placement of each order.
CostOnlyCells(c, orders) ==
  [i \in DOMAIN orders |-> dp_placement_no_recovery([c EXCEPT !.devices = orders[i]])]

\* The first order whose cost-only placement has the least rank, 0 when no
\* order has one.
FirstOfLeastRank(c, cells) ==
  LET found == {i \in DOMAIN cells : cells[i] # Empty}
      rank(i) == _rank(c, cells[i])
  IN IF found = {} THEN 0
     ELSE CHOOSE i \in found :
            \A j \in found : rank(i) < rank(j) \/ (rank(i) = rank(j) /\ i <= j)

PlacedAmong(shrunk, c, orders, cells) ==
  LET i == FirstOfLeastRank(shrunk, cells)
  IN IF i = 0 THEN NoTable
     ELSE determine_recovery_table([c EXCEPT !.devices = orders[i]],
                                   Placed(orders[i], cells[i].ends))

\* The placement is found in the specification "shrunk", its backups are assigned
\* with the true capacities; hosts are the devices that may hold one.
placed_then_backed_up(shrunk, c, hosts) ==
  LET orders == EveryOrder(c)
  IN PlacedAmong(shrunk, [c EXCEPT !.hosts = hosts], orders, CostOnlyCells(shrunk, orders))

decoupled(c) == placed_then_backed_up(c, c, c.hosts)

\* The same with a margin of n / m of the free memory that the placement leaves
\* alone; a reported memory of 0 stays one, which counts as unknown.
decoupled_margin(c, n, m) ==
  placed_then_backed_up([c EXCEPT !.free = [d \in DOMAIN @ |-> (@[d] * (m - n)) \div m]],
                        c, c.hosts)
=============================================================================
