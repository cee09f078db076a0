----------------------------- MODULE Generation -----------------------------
(***************************************************************************)
(* What RequestGateway.generate promises its caller (gateway.py), without  *)
(* stages, plans or workers: each request emits the reference tokens in    *)
(* order; a failure may make it start over, a bounded number of times; and *)
(* it may give up only when more than one worker has crashed, because the  *)
(* recovery table covers every single fault.                               *)
(***************************************************************************)
EXTENDS Naturals, FiniteSets

CONSTANTS Request, Device, MaxTokens,
          Attempts     \* re-prefills allowed: len(placement), 0 when streaming

VARIABLES crashed,     \* workers that have crashed
          emitted,     \* right tokens of the current attempt, per request
          status,      \* running, done or failed
          restarts     \* re-prefills so far

genVars == <<crashed, emitted, status, restarts>>

Init ==
  /\ crashed = {}
  /\ emitted = [r \in Request |-> 0]
  /\ status = [r \in Request |-> "running"]
  /\ restarts = [r \in Request |-> 0]

CrashWorker(d) ==
  /\ d \notin crashed
  /\ crashed' = crashed \cup {d}
  /\ UNCHANGED <<emitted, status, restarts>>

EmitToken(r) ==
  /\ status[r] = "running" /\ emitted[r] < MaxTokens
  /\ emitted' = [emitted EXCEPT ![r] = @ + 1]
  /\ UNCHANGED <<crashed, status, restarts>>

StartOver(r) ==
  /\ status[r] = "running" /\ emitted[r] < MaxTokens
  /\ crashed # {} /\ restarts[r] < Attempts
  /\ restarts' = [restarts EXCEPT ![r] = @ + 1]
  /\ emitted' = [emitted EXCEPT ![r] = 0]
  /\ UNCHANGED <<crashed, status>>

Finish(r) ==
  /\ status[r] = "running" /\ emitted[r] = MaxTokens
  /\ status' = [status EXCEPT ![r] = "done"]
  /\ UNCHANGED <<crashed, emitted, restarts>>

GiveUp(r) ==
  /\ status[r] = "running" /\ emitted[r] < MaxTokens
  /\ Cardinality(crashed) > 1
  /\ status' = [status EXCEPT ![r] = "failed"]
  /\ UNCHANGED <<crashed, emitted, restarts>>

Next ==
  \/ \E d \in Device : CrashWorker(d)
  \/ \E r \in Request : EmitToken(r) \/ StartOver(r) \/ Finish(r) \/ GiveUp(r)

Spec == Init /\ [][Next]_genVars
=============================================================================
