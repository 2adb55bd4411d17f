----------------------------- MODULE FuzzTarget -----------------------------
(***************************************************************************)
(* The target program as libFuzzer sees it: the inputs there are, their    *)
(* sizes, the coverage features an input shows when it is run to its end,  *)
(* and the inputs that kill the process that runs them; and what a merge   *)
(* of inputs is.                                                           *)
(***************************************************************************)
EXTENDS Naturals

CONSTANTS
    Inputs, SizeOf, FeaturesOf, Killers,
    CutNumbers   \* what a feature's number may read as when it is cut off

ASSUME TargetAssumption ==
    /\ SizeOf \in [Inputs -> Nat \ {0}]
    /\ \A u \in Inputs : FeaturesOf[u] \subseteq Nat
    /\ Killers \subseteq Inputs
    /\ CutNumbers \subseteq Nat

FeaturesOfAll(S) == UNION {FeaturesOf[u] : u \in S}

(* What a merge may return, given the features `known`, the first corpus F *)
(* and the inputs R whose features were recorded: the new features N are   *)
(* those of R that neither F nor anyone knew, and the inputs C have them.  *)
IsMerge(known, F, R, C, N) ==
    /\ C \subseteq R
    /\ N = FeaturesOfAll(R) \ (known \cup FeaturesOfAll(F \cap R))
    /\ N \subseteq FeaturesOfAll(C)
=============================================================================
