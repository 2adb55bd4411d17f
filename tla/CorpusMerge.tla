---------------------------- MODULE CorpusMerge ----------------------------
(***************************************************************************)
(* What merging corpora promises to its caller, without control file,      *)
(* processes or attempts: every input is run at most once, an input whose  *)
(* run does not come to its end is given up, and the result is a merge of  *)
(* the inputs whose features were recorded.  A merge may be broken off and *)
(* started again on other inputs.  When a record itself was cut off,       *)
(* nothing is promised but where the chosen inputs come from, until a merge*)
(* starts on whole records.                                                *)
(* CrashResistantMerge implements it; ForkMode relies on it.               *)
(***************************************************************************)
EXTENDS FuzzTarget

CONSTANT InitialFeatures

VARIABLES
    first,     \* inputs of the corpus that is merged into
    waiting,   \* inputs not run yet
    recorded,  \* inputs whose features are known
    chosen,    \* <<the inputs chosen, their new features>>, or <<>>: no result
    cutOff     \* a record was cut off

vars == <<first, waiting, recorded, chosen, cutOff>>

Init ==
    /\ first = {}
    /\ waiting = {}
    /\ recorded = {}
    /\ chosen = <<>>
    /\ cutOff = FALSE

(* A merge starts: it may know inputs recorded before, and has no result.  *)
Start ==
    /\ first' \in SUBSET Inputs
    /\ waiting' \in SUBSET Inputs
    /\ recorded' \in SUBSET recorded
    /\ recorded' \cap waiting' = {}
    /\ chosen' = <<>>
    /\ cutOff' = FALSE

(* An input is run.  It leaves waiting for good, recorded or given up.     *)
Run(f) ==
    /\ waiting' = waiting \ {f}
    /\ recorded' \in {recorded, recorded \cup {f}}
    /\ UNCHANGED <<first, chosen, cutOff>>

(* Its features become known after it was taken up.                        *)
Record(f) ==
    /\ f \notin waiting
    /\ recorded' = recorded \cup {f}
    /\ UNCHANGED <<first, waiting, chosen, cutOff>>

Choose ==
    /\ \E C \in SUBSET recorded, N \in SUBSET FeaturesOfAll(recorded) :
          /\ IsMerge(InitialFeatures, first, recorded, C, N)
          /\ chosen' = <<C, N>>
    /\ UNCHANGED <<first, waiting, recorded, cutOff>>

CutOff ==
    /\ cutOff'
    /\ chosen' \in {<<>>, chosen} \/ chosen'[1] \subseteq recorded'

Next ==
    \/ Start
    \/ ~cutOff /\ (Choose \/ \E f \in Inputs : Run(f) \/ Record(f))
    \/ CutOff

Spec == Init /\ [][Next]_vars
=============================================================================
