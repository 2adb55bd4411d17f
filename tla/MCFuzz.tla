------------------------------- MODULE MCFuzz -------------------------------
(* Five inputs: c has all features a has, in fewer bytes, and b one more.   *)
EXTENDS FuzzLoop

CONSTANTS a, b, c, d, e

MCSizeOf == a :> 3 @@ b :> 2 @@ c :> 1 @@ d :> 3 @@ e :> 4
MCFeaturesOf == a :> {1} @@ b :> {1, 2} @@ c :> {1} @@ d :> {4} @@ e :> {5}
MCSeedCorpora == {<<e>>}

DefaultFlags ==
    {[LenControl |-> 1, Shrink |-> FALSE, ReduceInputs |-> TRUE, ReduceDepth |-> FALSE, DetectLeaks |-> FALSE]}
=============================================================================
