--------------------------- MODULE MCChainRecovery ---------------------------
(* Instances of ChainRecovery for TLC. *)
EXTENDS ChainRecovery

CONSTANTS w1, w2, w3, w4

TwoStages == <<w1, w2>>
ThreeStages == <<w1, w2, w3>>
FourStages == <<w1, w2, w3, w4>>

\* The ring of tests/test_surgical_recovery.py: each device is backed up by its
\* successor and the tail by the head.
RingBackups == [x \in Device |->
  CASE x = w1 -> w2
    [] x = w2 -> IF w3 \in Device THEN w3 ELSE w1
    [] x = w3 -> IF w4 \in Device THEN w4 ELSE w1
    [] OTHER -> w1]
=============================================================================
