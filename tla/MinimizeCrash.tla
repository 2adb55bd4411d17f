--------------------------- MODULE MinimizeCrash ---------------------------
(***************************************************************************)
(* libFuzzer's -minimize_crash (MinimizeCrashInput in FuzzerDriver.cpp).   *)
(* The parent runs the current input in a child, takes the dedup token of  *)
(* its log, and lets a second child look for a crash on a smaller input.   *)
(* That child writes what it finds to ArtifactPath; with the same token it *)
(* is the next current input.                                              *)
(***************************************************************************)
EXTENDS FuzzTarget

CONSTANTS
    TokenOf,       \* DEDUP_TOKEN of the crash on an input, or NoToken
    Originals,     \* the inputs to minimize
    NoToken,       \* also: no file
    MaxMinFaults   \* bound: child processes that end for another reason

ASSUME MinimizeAssumption ==
    /\ Originals \subseteq Inputs /\ NoToken \notin Inputs
    /\ MaxMinFaults \in Nat

VARIABLES
    original,     \* InputFilePath: the input to minimize
    mpc,          \* where the parent is: "run", "minimize", "done" or "failed"
    exact,        \* whether -exact_artifact_path is given
    currentInput, \* contents of the file CurrentFilePath
    artifact,     \* contents of the file ArtifactPath
    token1,       \* DedupToken1
    runCut,       \* history: a child that was to crash on the current input ended otherwise
    minFaults     \* faults so far (bound)

minVars == <<original, mpc, exact, currentInput, artifact, token1, runCut, minFaults>>

(* A file may lie at the exact path from earlier, none at a fresh one.     *)
MinInit ==
    /\ mpc = "run"
    /\ exact \in BOOLEAN
    /\ original \in Originals
    /\ currentInput = original
    /\ artifact \in IF exact THEN Inputs \cup {NoToken} ELSE {NoToken}
    /\ token1 = NoToken
    /\ runCut = FALSE
    /\ minFaults = 0

(* The current input has to exist and to crash.                            *)
RunCurrent ==
    /\ mpc = "run"
    /\ IF currentInput \in Killers
       THEN mpc' = "minimize" /\ token1' = TokenOf[currentInput]
       ELSE mpc' = "failed" /\ UNCHANGED token1
    /\ UNCHANGED <<original, exact, currentInput, artifact, runCut, minFaults>>

MinFault ==
    /\ minFaults < MaxMinFaults
    /\ minFaults' = minFaults + 1

(* The child is interrupted or killed: any exit code but 0 is taken for the*)
(* crash, with no token in the log.  Without a file the parent itself does *)
(* not get so far.                                                         *)
RunCut ==
    /\ MinFault
    /\ mpc = "run" /\ currentInput # NoToken
    /\ mpc' = "minimize" /\ token1' = NoToken
    /\ runCut' = TRUE
    /\ UNCHANGED <<original, exact, currentInput, artifact>>

(* Without something smaller the exact path gets the current input.        *)
Finish(left) ==
    /\ mpc' = "done"
    /\ artifact' = IF exact THEN currentInput ELSE left
    /\ UNCHANGED <<original, exact, currentInput, token1, runCut>>

(* Mutated form: any crash on a smaller input will do.                     *)
StepFailedWithAnyToken(written) ==
    LET file == IF written = NoToken THEN artifact ELSE written
    IN  /\ mpc' = "run"
        /\ currentInput' = file
        /\ artifact' = IF exact THEN file ELSE NoToken
        /\ UNCHANGED <<original, exact, token1, runCut>>

(* The artifact path is a fresh one for each input unless it is exact.     *)
StepFailed(written) ==
    LET token2 == IF written = NoToken THEN NoToken ELSE TokenOf[written]
        file == IF written = NoToken THEN artifact ELSE written
    IN  IF token1 # token2 THEN Finish(file)
        ELSE /\ mpc' = "run"
             /\ currentInput' = file
             /\ artifact' = IF exact THEN file ELSE NoToken
             /\ UNCHANGED <<original, exact, token1, runCut>>

(* MinimizeCrashInputInternalStep tries smaller inputs only; an input of   *)
(* one byte is small enough.  A slow unit is written to the same path.     *)
NothingSmaller ==
    /\ mpc = "minimize"
    /\ \E slow \in {artifact} \cup {u \in Inputs \ Killers : SizeOf[u] < SizeOf[currentInput]} :
          Finish(slow)
    /\ UNCHANGED minFaults

FoundSmaller ==
    /\ mpc = "minimize" /\ SizeOf[currentInput] >= 2
    /\ \E v \in Killers : SizeOf[v] <= SizeOf[currentInput] - 1 /\ StepFailed(v)
    /\ UNCHANGED minFaults

(* The child is interrupted or killed, with an exit code but no artifact.  *)
StepInterrupted ==
    /\ MinFault
    /\ mpc = "minimize"
    /\ StepFailed(NoToken)

MinNext == RunCurrent \/ RunCut \/ NothingSmaller \/ FoundSmaller \/ StepInterrupted

MinSpec == MinInit /\ [][MinNext]_minVars

-----------------------------------------------------------------------------
(* A minimization that succeeds ends with an input that crashes with the   *)
(* dedup token of the original, however the children that look for smaller *)
(* inputs ended, and the file at the path the user asked for is that input.*)
(* The exceptions: crashes without a token look alike, so after a child was*)
(* interrupted a file that lay at the exact path from earlier is taken for *)
(* its result; and a child that was to show the crash again, but ended for *)
(* another reason, passes for a crash without a token.  A crash that has   *)
(* another token than the original is never the result, unless a file lay  *)
(* at the exact path.                                                      *)
MinimizedKeepsBug ==
    mpc = "done" =>
        /\ exact => artifact = currentInput
        /\ ~runCut =>
              /\ currentInput \in Killers
              /\ \/ TokenOf[currentInput] = TokenOf[original]
                 \/ exact /\ minFaults > 0 /\ TokenOf[original] = NoToken
        /\ ~exact =>
              /\ currentInput \in Killers \cup {original}
              /\ TokenOf[currentInput] \in {TokenOf[original], NoToken}
=============================================================================
