---------------------------- MODULE ActivationCache ----------------------------
(***************************************************************************)
(* The gateway's ActivationCache (activation_cache.py): the inputs of each *)
(* stage of each request by position, kept for the replay of a failed      *)
(* step, within a byte budget that evicts the least recently used request  *)
(* as a whole.  Driven by its callers: the request threads, which put the  *)
(* head's inputs and read histories (gateway.py), and the MirrorActivation *)
(* pushes of the workers, which come late, never, or twice.                *)
(*                                                                         *)
(* An input is abstracted to the attempt that computed it: a request that  *)
(* is prefilled again may sample other tokens than it did before.          *)
(***************************************************************************)
EXTENDS Integers, Sequences, FiniteSets, FiniteSetsExt, SequencesExt

CONSTANTS Request,      \* requests, one gateway thread each
          StageKey,     \* layer ranges of the placement
          head_key,     \* the one that starts at layer 1
          MaxPosition,  \* the last step of every request is at this position
          MaxAttempts,  \* MaxAttempts[r]: bound on its attempts, re-prefills included
          Bytes,        \* Bytes[r][p]: length of an input of r at position p
          max_bytes     \* the budget

Position == 0..MaxPosition

ASSUME BoundAssumption ==
  MaxPosition \in Nat /\ MaxAttempts \in [Request -> Nat \ {0}]
ASSUME HeadAssumption == head_key \in StageKey
ASSUME FiniteAssumption == IsFiniteSet(Request) /\ IsFiniteSet(StageKey)
ASSUME BytesAssumption ==
  Bytes \in [Request -> [Position -> Nat \ {0}]] /\ max_bytes \in Nat

VARIABLES
  by_request,  \* the order of _by_request, least recently used first
  slots,       \* its contents: the attempt an input is from, 0 if there is none
  bytes_used,  \* _bytes_used
  mirrors,     \* pushes on their way
  pc,          \* the thread of each request
  position,    \* state.step_index
  attempt,     \* attempt of _generate_inner
  replayed     \* what a recovery sends again, from which stage

cacheVars == <<by_request, slots, bytes_used>>
threadVars == <<pc, position, attempt, replayed>>
vars == <<cacheVars, mirrors, threadVars>>

NoSlots == [s \in StageKey |-> [p \in Position |-> 0]]
Nothing == [stage |-> head_key, inputs |-> << >>]

Init ==
  /\ by_request = << >>
  /\ slots = [r \in Request |-> NoSlots]
  /\ bytes_used = 0
  /\ mirrors = {}
  /\ pc = [r \in Request |-> "idle"]
  /\ position = [r \in Request |-> 0]
  /\ attempt = [r \in Request |-> 1]
  /\ replayed = [r \in Request |-> Nothing]

-----------------------------------------------------------------------------
(* The operations of the cache, each under its lock. *)

\* The bytes of the inputs of r.
Weight(r, h) ==
  SumFunctionOnSet([k \in StageKey \X Position |-> Bytes[r][k[2]]],
                   {k \in StageKey \X Position : h[k[1]][k[2]] # 0})

\* Mutant: a use adds the request once more.
move_to_end_twice(r) == Append(by_request, r)

\* Mutant: a request keeps the place of its first use.
move_to_end_once(r) ==
  IF Contains(by_request, r) THEN by_request ELSE Append(by_request, r)

move_to_end(r) == Append(RemoveFirst(by_request, r), r)

\* Pop the oldest request until the rest fits or nothing is left.
Freed(order, h, k) ==
  SumFunctionOnSet([i \in DOMAIN order |-> Weight(order[i], h[order[i]])], 1..k)

Popped(order, h, used) ==
  Min({k \in 0..Len(order) :
         used - Freed(order, h, k) <= max_bytes \/ k = Len(order)})

evict_if_needed(order, h, used) ==
  LET k == Popped(order, h, used)
      out == {order[i] : i \in 1..k}
  IN /\ by_request' = SubSeq(order, k + 1, Len(order))
     /\ slots' = [r \in Request |-> IF r \in out THEN NoSlots ELSE h[r]]
     /\ bytes_used' = used - Freed(order, h, k)

\* Mutant: a second input replaces the first and is counted as well.
put_again(r, s, p, a) ==
  evict_if_needed(move_to_end(r), [slots EXCEPT ![r][s][p] = a],
                  bytes_used + Bytes[r][p])

\* The first input at a position stays; a later one is dropped, and counts as
\* a use of the request all the same.
put(r, s, p, a) ==
  IF slots[r][s][p] # 0
  THEN by_request' = move_to_end(r) /\ UNCHANGED <<slots, bytes_used>>
  ELSE evict_if_needed(move_to_end(r), [slots EXCEPT ![r][s][p] = a],
                       bytes_used + Bytes[r][p])

\* Mutant: gaps are skipped.
history_gaps(r, s) ==
  LET held == {p \in Position : slots[r][s][p] # 0}
  IN [p \in held |-> slots[r][s][p]]

\* The inputs from position 0 up to the first gap.
history(r, s) ==
  LET held == {p \in Position : \A q \in 0..p : slots[r][s][q] # 0}
  IN [p \in held |-> slots[r][s][p]]

\* Reading counts as a use of a request that is there.
get_history(r) ==
  /\ by_request' = IF Contains(by_request, r) THEN move_to_end(r) ELSE by_request
  /\ UNCHANGED <<slots, bytes_used>>

evict_request(r) ==
  /\ by_request' = RemoveFirst(by_request, r)
  /\ slots' = [slots EXCEPT ![r] = NoSlots]
  /\ bytes_used' = bytes_used - Weight(r, slots[r])

-----------------------------------------------------------------------------
(* The workers: every stage but the head pushes its input, and again when a  *)
(* recovery sends the position through the chain again.                     *)

Pushes(r, P) ==
  {[req |-> r, stage |-> s, at |-> p, from |-> attempt[r]] :
     s \in StageKey \ {head_key}, p \in P}

DeliverMirror(m) ==
  /\ m \in mirrors
  /\ put(m.req, m.stage, m.at, m.from)
  /\ mirrors' = mirrors \ {m}
  /\ UNCHANGED threadVars

LoseMirror(m) ==
  /\ m \in mirrors
  /\ mirrors' = mirrors \ {m}
  /\ UNCHANGED <<cacheVars, threadVars>>

-----------------------------------------------------------------------------
(* The thread of a request. *)

\* _run_pipeline keeps the input of the head before it calls the head.
Step(r) ==
  /\ pc[r] = "idle"
  /\ put(r, head_key, position[r], attempt[r])
  /\ mirrors' = mirrors \cup Pushes(r, {position[r]})
  /\ pc' = [pc EXCEPT ![r] = "waiting"]
  /\ UNCHANGED <<position, attempt, replayed>>

\* The step, or the recovery of it, has its answer: the next step, or the end
\* (max_tokens, end of sequence).
Answer(r) ==
  /\ pc[r] \in {"waiting", "replay"}
  /\ \/ /\ position[r] < MaxPosition
        /\ position' = [position EXCEPT ![r] = @ + 1]
        /\ pc' = [pc EXCEPT ![r] = "idle"]
     \/ /\ pc' = [pc EXCEPT ![r] = "done"]
        /\ UNCHANGED position
  /\ replayed' = [replayed EXCEPT ![r] = Nothing]
  /\ UNCHANGED <<cacheVars, mirrors, attempt>>

\* Surgical recovery of stage s: its history is sent to the backup alone, the
\* failed position live; without that position the full replay comes next.
ReadStage(r, s) ==
  /\ pc[r] = "waiting"
  /\ get_history(r)
  /\ IF position[r] \in DOMAIN history(r, s)
     THEN /\ replayed' = [replayed EXCEPT ![r] =
                            [stage |-> s, inputs |-> history(r, s)]]
          /\ mirrors' = mirrors \cup Pushes(r, {position[r]})
          /\ pc' = [pc EXCEPT ![r] = "replay"]
     ELSE /\ pc' = [pc EXCEPT ![r] = "fallback"]
          /\ UNCHANGED <<replayed, mirrors>>
  /\ UNCHANGED <<position, attempt>>

\* Full replay sends whatever the head's history holds; an empty one raises
\* RuntimeError, which ends the request.
ReadHead(r) ==
  /\ pc[r] \in {"waiting", "fallback"}
  /\ get_history(r)
  /\ LET h == history(r, head_key)
     IN IF DOMAIN h = {}
        THEN /\ pc' = [pc EXCEPT ![r] = "done"]
             /\ UNCHANGED <<replayed, mirrors>>
        ELSE /\ replayed' = [replayed EXCEPT ![r] = [stage |-> head_key, inputs |-> h]]
             /\ mirrors' = mirrors \cup Pushes(r, DOMAIN h)
             /\ pc' = [pc EXCEPT ![r] = "replay"]
  /\ UNCHANGED <<position, attempt>>

\* An RpcError of the recovery: generate() evicts and prefills again.
StartOver(r) ==
  /\ pc[r] \in {"waiting", "replay"}
  /\ attempt[r] < MaxAttempts[r]
  /\ evict_request(r)
  /\ attempt' = [attempt EXCEPT ![r] = @ + 1]
  /\ position' = [position EXCEPT ![r] = 0]
  /\ replayed' = [replayed EXCEPT ![r] = Nothing]
  /\ pc' = [pc EXCEPT ![r] = "idle"]
  /\ UNCHANGED mirrors

\* Any error that is not retried.
GiveUp(r) ==
  /\ pc[r] \in {"waiting", "replay"}
  /\ pc' = [pc EXCEPT ![r] = "done"]
  /\ replayed' = [replayed EXCEPT ![r] = Nothing]
  /\ UNCHANGED <<cacheVars, mirrors, position, attempt>>

End(r) ==
  /\ pc[r] = "done"
  /\ evict_request(r)
  /\ pc' = [pc EXCEPT ![r] = "ended"]
  /\ UNCHANGED <<mirrors, position, attempt, replayed>>

Thread(r) ==
  \/ Step(r) \/ Answer(r) \/ ReadHead(r)
  \/ \E s \in StageKey \ {head_key} : ReadStage(r, s)
  \/ StartOver(r) \/ GiveUp(r) \/ End(r)

Next ==
  \/ \E r \in Request : Thread(r)
  \/ \E m \in mirrors : DeliverMirror(m) \/ LoseMirror(m)

Spec == Init /\ [][Next]_vars
-----------------------------------------------------------------------------
(* Properties. *)

Pushed == [req : Request, stage : StageKey \ {head_key}, at : Position, from : Nat \ {0}]

TypeOK ==
  /\ by_request \in Seq(Request)
  /\ \A i, j \in DOMAIN by_request : by_request[i] = by_request[j] => i = j
  /\ slots \in [Request -> [StageKey -> [Position -> Nat]]]
  /\ bytes_used \in Nat
  /\ mirrors \subseteq Pushed
  /\ pc \in [Request -> {"idle", "waiting", "fallback", "replay", "done", "ended"}]
  /\ position \in [Request -> Position]
  /\ attempt \in [Request -> Nat \ {0}]
  /\ \A r \in Request :
       /\ replayed[r].stage \in StageKey
       /\ DOMAIN replayed[r].inputs \subseteq Position

\* The bytes that are really held.
Total(h) == SumFunctionOnSet([r \in Request |-> Weight(r, h[r])], Request)

\* _bytes_used is what the cache really holds, through duplicates, evictions of
\* requests that are still running and pushes for requests that have ended, and
\* it is within the budget whenever the lock is free (_store_unlocked,
\* evict_request, _evict_if_needed).
AccountsForItsBytes ==
  /\ bytes_used = Total(slots)
  /\ bytes_used <= max_bytes
  /\ \A r \in Request : slots[r] # NoSlots => Contains(by_request, r)

\* "oldest WHOLE requests are evicted first": a step loses the input it has just
\* put only when no other request was left to evict (_slots, _evict_if_needed).
LastUsedGoesLast ==
  [][ \A r \in Request :
        pc[r] = "idle" /\ pc'[r] = "waiting"
          => slots'[r][head_key][position[r]] # 0 \/ by_request' = << >> ]_vars

\* "to preserve replay correctness": although the budget may evict a request in
\* the middle of its generation, a full replay sends either nothing or the input
\* of every position up to the failed one, and all of them are of the attempt
\* that is running (get_history, _replay_through_chain).
ReplaysTheWholeAttempt ==
  \A r \in Request :
    pc[r] = "replay" /\ replayed[r].stage = head_key
      => replayed[r].inputs = [p \in 0..position[r] |-> attempt[r]]
=============================================================================
