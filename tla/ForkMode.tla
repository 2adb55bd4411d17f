------------------------------ MODULE ForkMode ------------------------------
(***************************************************************************)
(* libFuzzer's -fork=NumJobs (FuzzerFork.cpp): worker threads take jobs    *)
(* from one queue, run each as a child process and push it, finished, on   *)
(* another; the main thread merges what a job found into the main corpus   *)
(* and creates the next job, until it stops the workers with one null job  *)
(* each and joins them.                                                    *)
(*                                                                         *)
(* A merge inside the loop is what CorpusMerge allows: it fills two sets,  *)
(* the files chosen and their new features, and it may be cut off within a *)
(* record or fail.  Statistics, the data flow traces and the texts of the  *)
(* logs are left out.                                                      *)
(***************************************************************************)
EXTENDS FuzzTarget, Sequences, FiniteSets, SequencesExt

CONSTANTS
    SeedFiles,      \* the inputs of the corpus directories
    NumForkJobs,    \* NumJobs: worker threads
    MaxJobs,        \* bound: jobs created before the budget is used up
    Findings,       \* what a child may find: sets of inputs
    ExitCodes,      \* exit codes of a child
    InterruptExitCode,
    Ignored         \* exit codes that do not end the fuzzing: 0 among them

ASSUME ForkAssumption ==
    /\ NumForkJobs \in Nat \ {0} /\ MaxJobs \in Nat /\ NumForkJobs <= MaxJobs
    /\ SeedFiles \subseteq Inputs /\ \A F \in Findings : F \subseteq Inputs
    /\ 0 \in Ignored /\ InterruptExitCode \notin Ignored

VARIABLES
    fuzzQ, mergeQ,  \* the two JobQueues: jobs, or NullJob
    worker,         \* per thread: "none", "pop", "run" or "end", and the job it runs
    main,           \* where the main thread is
    job,            \* the job the main thread holds
    found,          \* per job: the contents of its corpus directory
    jobExit,        \* per job: ExitCode
    jobId,          \* the next job's number
    pills,          \* null jobs StopJobs has still to push on fuzzQ
    files,          \* Env.Files
    features,       \* Env.Features
    cutMerge,       \* history: a child of a merge was killed within a record (bound: once)
    exitCode        \* the exit code of FuzzWithFork

envVars == <<files, features, cutMerge>>
forkVars == <<fuzzQ, mergeQ, worker, main, job, found, jobExit, jobId, pills, envVars, exitCode>>

ForkThreads == 1 .. NumForkJobs
Jobs == 1 .. MaxJobs
NullJob == 0
At(pc, j) == [pc |-> pc, job |-> j]
RunningJobs == {t \in ForkThreads : worker[t].pc = "run"}

ForkInit ==
    /\ fuzzQ = <<>> /\ mergeQ = <<>>
    /\ worker = [t \in ForkThreads |-> At("none", NullJob)]
    /\ main = "start"
    /\ job = NullJob
    /\ found = [j \in Jobs |-> {}]
    /\ jobExit = [j \in Jobs |-> 0]
    /\ jobId = 1
    /\ pills = 0
    /\ files = {} /\ features = {} /\ cutMerge = FALSE
    /\ exitCode = 0

(* Mutated form: the new features take the place of those known before.    *)
AddForgettingKnown(candidates) ==
    /\ \E R \in SUBSET candidates, N \in SUBSET FeaturesOfAll(candidates) : \E C \in SUBSET R :
          /\ IsMerge(features, {}, R, C, N)
          /\ files' = files \cup C
          /\ features' = N
    /\ UNCHANGED cutMerge

(* Merges candidates into the main corpus: CrashResistantMerge returns     *)
(* FilesToAdd and, on its own, NewFeatures.  Of the candidates those in R  *)
(* did not kill the process that ran them.                                 *)
Add(candidates) ==
    /\ \E R \in SUBSET candidates, N \in SUBSET FeaturesOfAll(candidates) : \E C \in SUBSET R :
          /\ IsMerge(features, {}, R, C, N)
          /\ files' = files \cup C
          /\ features' = features \cup N
    /\ UNCHANGED cutMerge

(* A child of the merge is killed while it writes a record.                *)
CutMerge(candidates) ==
    /\ candidates # {}
    /\ ~cutMerge /\ cutMerge' = TRUE

AddCutOff(candidates) ==
    /\ CutMerge(candidates)
    /\ \E C \in SUBSET candidates, N \in SUBSET (FeaturesOfAll(candidates) \cup CutNumbers) :
          files' = files \cup C /\ features' = features \cup N

MergeSeeds ==
    /\ main = "start"
    /\ Add(SeedFiles) \/ AddCutOff(SeedFiles)
    /\ main' = "spawn"
    /\ UNCHANGED <<fuzzQ, mergeQ, worker, job, found, jobExit, jobId, pills, exitCode>>

(* Mutated form: the number of the last job again.                         *)
CreateSameJob ==
    /\ fuzzQ' = Append(fuzzQ, IF jobId > NumForkJobs THEN jobId - 1 ELSE jobId)
    /\ jobId' = jobId + 1

CreateNewJob ==
    /\ fuzzQ' = Append(fuzzQ, jobId)
    /\ jobId' = jobId + 1

(* The threads start one after the other, each with a job.                 *)
Spawn ==
    /\ main = "spawn"
    /\ worker' = [worker EXCEPT ![jobId].pc = "pop"]
    /\ CreateNewJob
    /\ main' = IF jobId = NumForkJobs THEN "pop" ELSE "spawn"
    /\ UNCHANGED <<mergeQ, job, found, jobExit, pills, envVars, exitCode>>

-----------------------------------------------------------------------------
(* The worker threads *)

PopJob(t) ==
    /\ worker[t].pc = "pop" /\ fuzzQ # <<>>
    /\ worker' = [worker EXCEPT ![t] = At(IF Head(fuzzQ) = NullJob THEN "end" ELSE "run", Head(fuzzQ))]
    /\ fuzzQ' = Tail(fuzzQ)
    /\ UNCHANGED <<mergeQ, main, job, found, jobExit, jobId, pills, envVars, exitCode>>

(* The child ends by itself (max_total_time, the stop file) or dies.       *)
ForkJobEnds(t) ==
    /\ worker[t].pc = "run"
    /\ \E F \in Findings, e \in ExitCodes :
          /\ found' = [found EXCEPT ![worker[t].job] = F]
          /\ jobExit' = [jobExit EXCEPT ![worker[t].job] = e]
    /\ mergeQ' = Append(mergeQ, worker[t].job)
    /\ worker' = [worker EXCEPT ![t] = At("pop", NullJob)]
    /\ UNCHANGED <<fuzzQ, main, job, jobId, pills, envVars, exitCode>>

-----------------------------------------------------------------------------
(* The main thread *)

PopResult ==
    /\ main = "pop" /\ mergeQ # <<>>
    /\ job' = Head(mergeQ)
    /\ mergeQ' = Tail(mergeQ)
    /\ exitCode' = jobExit[job']
    /\ main' = IF exitCode' = InterruptExitCode THEN "stop" ELSE "merge"
    /\ pills' = IF exitCode' = InterruptExitCode THEN NumForkJobs ELSE 0
    /\ UNCHANGED <<fuzzQ, worker, found, jobExit, jobId, envVars>>

(* A graceful exit (SIGUSR1) leaves at once, with exit code 0.             *)
ForkExitsGracefully ==
    /\ main = "merge"
    /\ main' = "exited"
    /\ exitCode' = 0
    /\ UNCHANGED <<fuzzQ, mergeQ, worker, job, found, jobExit, jobId, pills, envVars>>

Candidates(j) == {f \in found[j] : ~(FeaturesOf[f] \subseteq features)}

RunOneMergeJob ==
    /\ main = "merge"
    /\ Add(Candidates(job)) \/ AddCutOff(Candidates(job))
    /\ found' = [found EXCEPT ![job] = {}]
    /\ main' = "decide"
    /\ UNCHANGED <<fuzzQ, mergeQ, worker, job, jobExit, jobId, pills, exitCode>>

(* The control file cannot be parsed any more: ParseOrExit leaves at once, *)
(* with exit code 1.                                                       *)
MergeFails ==
    /\ main \in {"start", "merge"}
    /\ CutMerge(IF main = "start" THEN SeedFiles ELSE Candidates(job))
    /\ main' = "exited"
    /\ exitCode' = 1
    /\ UNCHANGED <<fuzzQ, mergeQ, worker, job, found, jobExit, jobId, pills, files, features>>

(* An exit code that is not ignored stops the jobs, and so does the budget *)
(* of time or runs, at any job and at the latest when the bound is met.    *)
Continue ==
    /\ main = "decide"
    /\ exitCode \in Ignored
    /\ jobId <= MaxJobs
    /\ CreateNewJob
    /\ job' = NullJob
    /\ main' = "pop"
    /\ UNCHANGED <<mergeQ, worker, found, jobExit, pills, envVars, exitCode>>

(* Mutated form: one null job too few.                                     *)
StopForkButOne ==
    /\ main = "decide"
    /\ main' = "stop"
    /\ pills' = NumForkJobs - 1
    /\ UNCHANGED <<fuzzQ, mergeQ, worker, job, found, jobExit, jobId, envVars, exitCode>>

StopFork ==
    /\ main = "decide"
    /\ main' = "stop"
    /\ pills' = NumForkJobs
    /\ UNCHANGED <<fuzzQ, mergeQ, worker, job, found, jobExit, jobId, envVars, exitCode>>

StopJobs ==
    /\ main = "stop"
    /\ IF pills > 0
       THEN /\ fuzzQ' = Append(fuzzQ, NullJob)
            /\ pills' = pills - 1
            /\ UNCHANGED <<mergeQ, main, job>>
       ELSE /\ mergeQ' = Append(mergeQ, NullJob)
            /\ job' = NullJob
            /\ main' = "join"
            /\ UNCHANGED <<fuzzQ, pills>>
    /\ UNCHANGED <<worker, found, jobExit, jobId, envVars, exitCode>>

(* Joins the workers, removes the directory with what was not merged.      *)
JoinThreads ==
    /\ main = "join"
    /\ \A t \in ForkThreads : worker[t].pc = "end"
    /\ main' = "exited"
    /\ found' = [j \in Jobs |-> {}]
    /\ UNCHANGED <<fuzzQ, mergeQ, worker, job, jobExit, jobId, pills, envVars, exitCode>>

-----------------------------------------------------------------------------
MainStep ==
    MergeSeeds \/ Spawn \/ PopResult \/ RunOneMergeJob \/ MergeFails \/ Continue \/ StopFork \/ StopJobs \/ JoinThreads

ThreadStep(t) == main # "exited" /\ (PopJob(t) \/ ForkJobEnds(t))

ForkNext ==
    \/ MainStep
    \/ ForkExitsGracefully
    \/ \E t \in ForkThreads : ThreadStep(t)

ForkSpec == ForkInit /\ [][ForkNext]_forkVars

-----------------------------------------------------------------------------
(* Properties *)

ForkTypeOK ==
    /\ Range(fuzzQ) \cup Range(mergeQ) \subseteq Jobs \cup {NullJob}
    /\ worker \in [ForkThreads -> [pc : {"none", "pop", "run", "end"}, job : Jobs \cup {NullJob}]]
    /\ main \in {"start", "spawn", "pop", "merge", "decide", "stop", "join", "exited"}
    /\ job \in Jobs \cup {NullJob} /\ jobId \in 1 .. MaxJobs + 1
    /\ files \subseteq Inputs

(* While the main loop runs there is one job per thread on its way, each   *)
(* in one place only: waiting, with a thread, finished or with the main    *)
(* thread.  A job in two places would be deleted under a running child,    *)
(* one in none would leave a thread idle for good.                         *)
JobsInFlight ==
    main \in {"pop", "merge", "decide"} =>
        LET onTheWay == fuzzQ \o mergeQ \o SetToSeq({worker[t].job : t \in RunningJobs})
                                       \o (IF main = "pop" THEN <<>> ELSE <<job>>)
        IN  IsInjective(onTheWay) /\ Len(onTheWay) = NumForkJobs /\ Range(onTheWay) \subseteq Jobs

(* The features taken for known, which several merges return one by one,   *)
(* each told those of the merges before, are those of the inputs kept: a   *)
(* feature without an input would keep every later input that shows it out *)
(* of the corpus.  A merge that was cut off within a record breaks it.     *)
FeaturesBacked == ~cutMerge => features = FeaturesOfAll(files)
=============================================================================
