----------------------------- MODULE JobWorkers -----------------------------
(***************************************************************************)
(* libFuzzer's -jobs=NumJobs -workers=NumWorkers: WorkerThread and         *)
(* RunInMultipleProcesses of FuzzerDriver.cpp.  Threads draw job numbers   *)
(* from one atomic counter, run each job as a process and note whether any *)
(* of them failed; the parent joins them and exits.  The mutex only orders *)
(* what is printed, and so does the pulse thread.                          *)
(***************************************************************************)
EXTENDS Naturals, FiniteSets

CONSTANTS NumWorkers, NumJobs

ASSUME JobsAssumption == NumWorkers \in Nat \ {0} /\ NumJobs \in Nat

VARIABLES
    counter,    \* Counter
    workers,    \* per thread: program counter and C, the number it drew
    hasErrors,  \* HasErrors
    jobExits,   \* exit code of each job that ended (history)
    parentExit  \* exit code of the parent, or Joining

jobVars == <<counter, workers, hasErrors, jobExits, parentExit>>

WorkerIds == 1 .. NumWorkers
Joining == 2      \* parentExit while the threads are being joined

JobsInit ==
    /\ counter = 0
    /\ workers = [w \in WorkerIds |-> [pc |-> "draw", c |-> 0]]
    /\ hasErrors = FALSE
    /\ jobExits = <<>>
    /\ parentExit = Joining

(* Mutated form: the counter is moved on by the thread that ends a job.    *)
DrawSameJob(w) ==
    /\ workers[w].pc = "draw"
    /\ workers' = [workers EXCEPT ![w] = [pc |-> IF counter >= NumJobs THEN "end" ELSE "run", c |-> counter]]
    /\ counter' = IF \E v \in WorkerIds : workers[v].pc = "run" THEN counter ELSE counter + 1
    /\ UNCHANGED <<hasErrors, jobExits, parentExit>>

DrawJob(w) ==
    /\ workers[w].pc = "draw"
    /\ workers' = [workers EXCEPT ![w] = [pc |-> IF counter >= NumJobs THEN "end" ELSE "run", c |-> counter]]
    /\ counter' = counter + 1
    /\ UNCHANGED <<hasErrors, jobExits, parentExit>>

JobEnds(w) ==
    /\ workers[w].pc = "run"
    /\ \E e \in {0, 1} :
          /\ hasErrors' = (hasErrors \/ e # 0)
          /\ jobExits' = [j \in DOMAIN jobExits \cup {workers[w].c} |->
                            IF j = workers[w].c THEN e ELSE jobExits[j]]
    /\ workers' = [workers EXCEPT ![w].pc = "draw"]
    /\ UNCHANGED <<counter, parentExit>>

JoinWorkers ==
    /\ parentExit = Joining
    /\ \A w \in WorkerIds : workers[w].pc = "end"
    /\ parentExit' = IF hasErrors THEN 1 ELSE 0
    /\ UNCHANGED <<counter, workers, hasErrors, jobExits>>

JobsNext == JoinWorkers \/ \E w \in WorkerIds : DrawJob(w) \/ JobEnds(w)

JobsSpec == JobsInit /\ [][JobsNext]_jobVars

-----------------------------------------------------------------------------
(* When the parent exits, every job has run, on one thread each, and its   *)
(* exit code is 1 exactly when some job failed.                            *)
JobsReported ==
    /\ \A v, w \in WorkerIds :
          v # w /\ workers[v].pc = "run" /\ workers[w].pc = "run" => workers[v].c # workers[w].c
    /\ \A w \in WorkerIds : workers[w].pc = "run" => workers[w].c \notin DOMAIN jobExits
    /\ parentExit # Joining =>
          /\ DOMAIN jobExits = 0 .. NumJobs - 1
          /\ parentExit = 1 <=> \E j \in DOMAIN jobExits : jobExits[j] # 0
=============================================================================
