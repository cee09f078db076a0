----------------------------- MODULE MCPlanning -----------------------------
(* Instances of Planning for TLC. *)
EXTENDS Planning

CONSTANTS d1, d2, d3

Three == {d1, d2, d3}
Pairs == {pair \in Three \X Three : pair[1] # pair[2]}

\* Three timed runs, the first of which is slow; two small round trips.
Runs(times) == [i \in DOMAIN times |-> <<times[i] + 4, times[i], times[i]>>]
SmallTrips(latency) == <<2 * latency, 2 * latency>>
BigTrips(latency, rate) == <<2 * latency + 2 * rate + 2, 2 * latency + 2 * rate - 2>>

\* Five layers, the third one larger; d1 is the fastest device, d3 the slowest.
Bytes == <<1, 1, 3, 1, 1>>
Times == [d \in Three |-> CASE d = d1 -> <<1, 1, 2, 1, 1>>
                            [] d = d2 -> <<2, 2, 3, 2, 2>>
                            [] d = d3 -> <<4, 4, 3, 4, 4>>]
\* The links of d3 are slow in one direction.
Rate(pair) == IF pair[1] = d3 THEN 3 ELSE 1
Latency(pair) == IF pair = <<d1, d2>> THEN 1 ELSE 0

Base ==
  [devices |-> <<d1, d2, d3>>, hosts |-> << >>, mem |-> Bytes,
   time |-> [d \in Three |-> Runs(Times[d])],
   total |-> [d \in Three |-> 18], free |-> [d \in Three |-> 18],
   rate |-> [pair \in Pairs |-> BigTrips(Latency(pair), Rate(pair))],
   lat |-> [pair \in Pairs |-> SmallTrips(Latency(pair))],
   activation |-> 1, hop |-> 0, slo |-> 12, penalty |-> 0, concurrency |-> 1, pool |-> 2,
   mode |-> "throughput", alpha |-> 0, eager |-> TRUE, backups |-> TRUE,
   subsets |-> TRUE, search |-> 8]

\* Memory from ample to scarce; d2 may not report its own.
Memory(x, y, z) == [d \in Three |-> CASE d = d1 -> x [] d = d2 -> y [] d = d3 -> z]
Memories == {Memory(16, 0, 12), Memory(16, 8, 6), Memory(8, 0, 6), Memory(8, 8, 6)}

\* With a hop overhead, one link carries the payload as fast as a small ping.
Knobs ==
  {[Base EXCEPT !.mode = m, !.alpha = IF m = "blended" THEN 2 ELSE 0] :
     m \in {"throughput", "latency", "blended"}}
  \cup {[Base EXCEPT !.eager = FALSE],
        [Base EXCEPT !.backups = FALSE, !.slo = 11, !.pool = 1],
        [Base EXCEPT !.concurrency = 2, !.penalty = 1, !.mode = "latency", !.backups = FALSE],
        [Base EXCEPT !.hop = 2, !.subsets = FALSE, !.rate[<<d2, d1>>] = SmallTrips(0)],
        [Base EXCEPT !.search = 2, !.slo = 7],
        [Base EXCEPT !.mode = "blended", !.subsets = FALSE]}

\* Hardly any room: the uniform split has no backups in any order, others have.
Scarce ==
  [Base EXCEPT !.mem = <<1, 1, 1, 1, 3>>, !.free = Memory(12, 6, 6),
               !.rate[<<d1, d2>>] = BigTrips(1, 2), !.rate[<<d2, d3>>] = BigTrips(0, 2),
               !.time = [d \in Three |-> Runs(CASE d = d1 -> <<1, 4, 3, 4, 5>>
                                                [] d = d2 -> <<4, 1, 1, 2, 2>>
                                                [] d = d3 -> <<1, 1, 1, 2, 4>>)]]

MeasuredFleets == {[k EXCEPT !.free = m] : k \in Knobs, m \in Memories} \cup {Scarce}

\* A later profiling finds the same, or everything twice as slow.
SameOrSlower(f) ==
  {f, [f EXCEPT !.time = [d \in Three |-> [i \in DOMAIN f.mem |-> [n \in 1..3 |-> 2 * @[d][i][n]]]]]}

OneUnstable == {d3}
OneBadLink == {<<d1, d2>>}
=============================================================================
