------------------------------ MODULE Profiling ------------------------------
(***************************************************************************)
(* From what the workers measure to the specification the scheduler plans  *)
(* with (layer_profiler.py, peer_measurer.py, profile_orchestrator.py).    *)
(*                                                                         *)
(* A fleet that has not been profiled is a specification as in Scheduler   *)
(* whose measured fields still hold the raw data:                          *)
(*   mem    parameter bytes of each layer                                  *)
(*   time   time[d][i]: the timed runs of layer i on device d              *)
(*   lat    lat[<<s, d>>]: round trips of small pings from s to d          *)
(*   rate   rate[<<s, d>>]: round trips of pings with the payload, whose   *)
(*          size is the unit of bytes on the wire                          *)
(* Half of a round trip is a way, so round trips are even.                 *)
(***************************************************************************)
EXTENDS Scheduler

\* The k-th least sample: the least one that k samples do not exceed.
Smallest(samples, k) ==
  Min({x \in Range(samples) : Cardinality({i \in DOMAIN samples : samples[i] <= x}) >= k})

\* statistics.median; the middle two of an even number have an even sum.
median(samples) ==
  LET n == Len(samples)
  IN (Smallest(samples, (n + 1) \div 2) + Smallest(samples, (n \div 2) + 1)) \div 2

\* The KV cache counts to every layer's parameters.
estimate_kv_cache_bytes == 1

\* What a worker reports of its own runs: a time and a size for each layer.
profile_layers(f, d) ==
  [i \in DOMAIN f.mem |-> [memory_bytes |-> f.mem[i] + estimate_kv_cache_bytes,
                           compute_time |-> median(f.time[d][i])]]

\* The sizes are those the first worker reports, the times everyone's.
merge_profiles(f) ==
  [mem  |-> [i \in DOMAIN f.mem |-> profile_layers(f, f.devices[1])[i].memory_bytes],
   time |-> [d \in ToSet(f.devices) |->
               [i \in DOMAIN f.mem |-> profile_layers(f, d)[i].compute_time]]]

\* Latency is half of a small round trip.  A payload that was not slower than a
\* small ping has taken no time: the bandwidth is infinite, the rate 0.
measure_peer(f, pair) ==
  LET small == median(f.lat[pair])
      big == median(f.rate[pair])
  IN [latency |-> small \div 2,
      rate    |-> IF big <= small THEN 0 ELSE (big - small) \div 2]

\* A worker's answer; pings that fail make it one that is not ok.
MeasurePeer(f, pair, failed) == [ok |-> pair \notin failed, link |-> measure_peer(f, pair)]

\* Every ordered pair; a measurement that failed is left out.
collect_network_profile(f, failed) ==
  LET pairs == {pair \in ToSet(f.devices) \X ToSet(f.devices) :
                  pair[1] # pair[2] /\ MeasurePeer(f, pair, failed).ok}
  IN [rate |-> [pair \in pairs |-> MeasurePeer(f, pair, failed).link.rate],
      lat  |-> [pair \in pairs |-> MeasurePeer(f, pair, failed).link.latency]]

\* The ClusterSpec of a profiled fleet.
ClusterSpec(f, failed) ==
  LET layers == merge_profiles(f)
      network == collect_network_profile(f, failed)
  IN [f EXCEPT !.mem = layers.mem, !.time = layers.time,
               !.rate = network.rate, !.lat = network.lat]
=============================================================================
