----------------------------- MODULE MCRedeploy -----------------------------
(* Instances of Redeploy for TLC. *)
EXTENDS Redeploy, TLC

CONSTANTS a, b, c

InOrder == <<a, b, c>>
Ring == (a :> b) @@ (b :> c) @@ (c :> a)

\* The plan of the full fleet, and re-placements over two survivors: with ranges
\* of their own, and with one that the same worker has had before.
OneEach == [devs |-> <<a, b, c>>, keys |-> <<<<1, 1>>, <<2, 2>>, <<3, 3>>>>,
            recovery |-> Ring]
WithoutA == [devs |-> <<c, b>>, keys |-> <<<<1, 2>>, <<3, 3>>>>, recovery |-> NoBackups]
WithoutB == [devs |-> <<a, c>>, keys |-> <<<<1, 1>>, <<2, 3>>>>, recovery |-> NoBackups]

Solved == {OneEach, WithoutA, WithoutB}
=============================================================================
