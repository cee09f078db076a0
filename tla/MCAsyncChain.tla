---------------------------- MODULE MCAsyncChain ----------------------------
(* Instances of AsyncChain for TLC. *)
EXTENDS AsyncChain, TLC

CONSTANTS w1, w2, w3

ThreeStages == <<w1, w2, w3>>
\* The head and the worker behind it can fail together.
LastCovers == (w1 :> w3) @@ (w2 :> w3) @@ (w3 :> w2)
=============================================================================
