-------------------------- MODULE MCActivationCache --------------------------
(* An instance of ActivationCache for TLC. *)
EXTENDS ActivationCache

CONSTANTS r1, r2, k1, k2

\* A prefill is longer than a decode step.
PromptsAndTokens == [r \in Request |-> [p \in Position |-> IF p = 0 THEN 2 ELSE 1]]
\* One of the two is prefilled again once.
OneRetry == [r \in Request |-> IF r = r1 THEN 2 ELSE 1]
=============================================================================
