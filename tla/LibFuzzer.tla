----------------------------- MODULE LibFuzzer -----------------------------
(***************************************************************************)
(* The processes of libFuzzer together.  FuzzerDriver decides from the     *)
(* command line what a process does, and it does that one thing until it   *)
(* exits; what it launches are processes of the same kind.  So a behaviour *)
(* of one process is a behaviour of one of the parts, and the others keep  *)
(* their initial state.  The fuzzing process itself is seen from four      *)
(* sides: its corpus, its callbacks, its mutations and its coverage, each  *)
(* open to whatever the other three may do.                                *)
(***************************************************************************)
EXTENDS CrashResistantMerge, ForkMode, FuzzLoop, JobWorkers, MinimizeCrash, CleanseCrash,
        FuzzerDriver, CrashCallbacks, ByteMutations, TracePC

VARIABLE part

libFuzzerVars ==
    <<part, mergeVars, forkVars, fuzzVars, jobVars, minVars, cleanseVars, chain, callbackVars, dispatcherVars, traceVars>>

Parts ==
    {"merge", "fork", "loop", "jobs", "minimize", "cleanse", "driver", "callbacks", "mutations", "coverage"}

(* A part that the process does not play has one of its initial states.    *)
LibFuzzerInit ==
    /\ part \in Parts
    /\ MergeInit /\ ForkInit /\ JobsInit /\ CallbackInit /\ MutationsInit /\ TraceInit
    /\ FuzzInit /\ (part # "loop" => flags = CHOOSE f \in FlagSettings : TRUE)
    /\ part # "loop" => seeds = CHOOSE s \in SeedCorpora : TRUE
    /\ MinInit /\ (part # "minimize" => ~exact /\ original = CHOOSE u \in Originals : TRUE)
    /\ CleanseInit /\ (part # "cleanse" => bytes = CHOOSE b \in CrashInputs : TRUE)
    /\ IF part = "driver" THEN DriverInit ELSE chain = <<>>

In(p) == part = p /\ UNCHANGED part

LibFuzzerNext ==
    \/ /\ In("merge") /\ MergeNext
       /\ UNCHANGED <<forkVars, fuzzVars, jobVars, minVars, cleanseVars, chain, callbackVars, dispatcherVars, traceVars>>
    \/ /\ In("fork") /\ ForkNext
       /\ UNCHANGED <<mergeVars, fuzzVars, jobVars, minVars, cleanseVars, chain, callbackVars, dispatcherVars, traceVars>>
    \/ /\ In("loop") /\ FuzzNext
       /\ UNCHANGED <<mergeVars, forkVars, jobVars, minVars, cleanseVars, chain, callbackVars, dispatcherVars, traceVars>>
    \/ /\ In("jobs") /\ JobsNext
       /\ UNCHANGED <<mergeVars, forkVars, fuzzVars, minVars, cleanseVars, chain, callbackVars, dispatcherVars, traceVars>>
    \/ /\ In("minimize") /\ MinNext
       /\ UNCHANGED <<mergeVars, forkVars, fuzzVars, jobVars, cleanseVars, chain, callbackVars, dispatcherVars, traceVars>>
    \/ /\ In("cleanse") /\ CleanseNext
       /\ UNCHANGED <<mergeVars, forkVars, fuzzVars, jobVars, minVars, chain, callbackVars, dispatcherVars, traceVars>>
    \/ /\ In("driver") /\ DriverNext
       /\ UNCHANGED <<mergeVars, forkVars, fuzzVars, jobVars, minVars, cleanseVars, callbackVars, dispatcherVars, traceVars>>
    \/ /\ In("callbacks") /\ CallbackNext
       /\ UNCHANGED <<mergeVars, forkVars, fuzzVars, jobVars, minVars, cleanseVars, chain, dispatcherVars, traceVars>>
    \/ /\ In("mutations") /\ MutationsNext
       /\ UNCHANGED <<mergeVars, forkVars, fuzzVars, jobVars, minVars, cleanseVars, chain, callbackVars, traceVars>>
    \/ /\ In("coverage") /\ TraceNext
       /\ UNCHANGED <<mergeVars, forkVars, fuzzVars, jobVars, minVars, cleanseVars, chain, callbackVars, dispatcherVars>>

(* A process that can go on by itself does; faults from outside and other  *)
(* processes promise nothing.                                              *)
Fairness ==
    /\ WF_mergeVars(In("merge") /\ MergeProgress)
    /\ WF_forkVars(In("fork") /\ ForkNext)
    /\ WF_fuzzVars(In("loop") /\ FuzzStep)
    /\ WF_jobVars(In("jobs") /\ JobsNext)
    /\ WF_minVars(In("minimize") /\ MinNext)
    /\ WF_cleanseVars(In("cleanse") /\ CleanseNext)

LibFuzzerSpec == LibFuzzerInit /\ [][LibFuzzerNext]_libFuzzerVars /\ Fairness

-----------------------------------------------------------------------------
LibFuzzerTypeOK == MergeTypeOK /\ ForkTypeOK /\ FuzzTypeOK

(* Every part that has an end comes to it, whatever fails on the way: a    *)
(* merge that was started, the fork loop with all its threads joined, the  *)
(* fuzzing loop at its limit of runs, the job threads, the minimization    *)
(* and the cleansing of a crash.                                           *)
Ended ==
    CASE part = "merge" -> Idle
      [] part = "fork" -> main = "exited"
      [] part = "loop" -> fpc \in {"done", "dead"}
      [] part = "jobs" -> parentExit # Joining
      [] part = "minimize" -> mpc \in {"done", "failed"}
      [] part = "cleanse" -> CleanseDone
      [] OTHER -> TRUE

PartsEnd == []<>Ended
=============================================================================
