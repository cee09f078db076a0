---------------------------- MODULE MCKVRecovery ----------------------------
(* Instances of KVRecovery for TLC. *)
EXTENDS KVRecovery

CONSTANTS w1, w2, w3, w4

FourStages == <<w1, w2, w3, w4>>

\* Two backups on the head's worker, one on the tail's.
Backups == (w1 :> w2) @@ (w2 :> w1) @@ (w3 :> w4) @@ (w4 :> w1)

\* Two failures where the mode is made for two.
Troubles ==
  LET Single == [failures |-> 1, lost |-> 1, others |-> 1, troubles |-> 2]
  IN [parity |-> Single, replicate |-> Single,
      raid6 |-> [failures |-> 2, lost |-> 0, others |-> 0, troubles |-> 2]]

Widths == <<1, 1, 2, 1>>
=============================================================================
