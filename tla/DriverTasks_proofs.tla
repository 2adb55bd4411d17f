------------------------- MODULE DriverTasks_proofs -------------------------
(***************************************************************************)
(* The tasks of FuzzerDriver.cpp that run child processes, for any number  *)
(* of threads and jobs, any target and any inputs:                         *)
(*   - RunInMultipleProcesses (JobWorkers): every job runs once, and the   *)
(*     exit code of the parent tells whether one of them failed;           *)
(*   - MinimizeCrashInput (MinimizeCrash): the bug is the same at the end; *)
(*   - CleanseCrashInput (CleanseCrash): what is written fails, and a pass *)
(*     without a change leaves nothing to cleanse;                         *)
(*   - FuzzWithFork (ForkMode): a feature is known only when an input of   *)
(*     the main corpus shows it, and in the main loop as many jobs are on  *)
(*     their way as there are threads, each of them in one place.          *)
(***************************************************************************)
EXTENDS JobWorkers, MinimizeCrash, CleanseCrash, ForkMode, Integers, FiniteSetTheorems,
        SequenceTheorems, TLAPS

-----------------------------------------------------------------------------
(* RunInMultipleProcesses *)

Running == {w \in WorkerIds : workers[w].pc = "run"}
Drawn == {workers[w].c : w \in Running}
SomeFailed == \E j \in DOMAIN jobExits : jobExits[j] # 0

(* The numbers below the counter are split between the threads that run    *)
(* jobs and the jobs that ended; a thread ends when they are used up.      *)
JobsInv ==
    /\ counter \in Nat
    /\ workers \in [WorkerIds -> [pc : {"draw", "run", "end"}, c : Nat]]
    /\ hasErrors \in BOOLEAN
    /\ Drawn \cup DOMAIN jobExits = {j \in 0 .. NumJobs - 1 : j < counter}
    /\ Drawn \cap DOMAIN jobExits = {}
    /\ \A v, w \in Running : v # w => workers[v].c # workers[w].c
    /\ \A w \in WorkerIds : workers[w].pc = "end" => counter >= NumJobs
    /\ hasErrors <=> SomeFailed
    /\ parentExit \in {0, 1, Joining}
    /\ parentExit # Joining => \A w \in WorkerIds : workers[w].pc = "end"
    /\ parentExit # Joining => (parentExit = 1 <=> hasErrors)

LEMMA JobsInvInit == JobsInit => JobsInv
  <1> SUFFICES ASSUME JobsInit PROVE JobsInv
    OBVIOUS
  <1>1. Running = {} BY DEF JobsInit, Running
  <1>2. Drawn = {} BY <1>1 DEF Drawn
  <1>3. DOMAIN jobExits = {} BY DEF JobsInit
  <1>4. {j \in 0 .. NumJobs - 1 : j < counter} = {} BY DEF JobsInit
  <1>5. workers \in [WorkerIds -> [pc : {"draw", "run", "end"}, c : Nat]] BY DEF JobsInit
  <1>6. ~SomeFailed BY <1>3 DEF SomeFailed
  <1> QED BY <1>1, <1>2, <1>3, <1>4, <1>5, <1>6 DEF JobsInit, JobsInv, Joining

LEMMA DrawKeepsJobs ==
    ASSUME JobsInv, NEW w \in WorkerIds, DrawJob(w)
    PROVE  JobsInv'
  <1> USE JobsAssumption
  <1>1. /\ counter' = counter + 1
        /\ UNCHANGED <<hasErrors, jobExits, parentExit>>
        /\ workers[w].pc = "draw"
    BY DEF DrawJob
  <1>2. \A v \in WorkerIds \ {w} : workers'[v] = workers[v]
    BY DEF DrawJob, JobsInv
  <1>3. workers' \in [WorkerIds -> [pc : {"draw", "run", "end"}, c : Nat]]
    BY DEF DrawJob, JobsInv
  <1>4. parentExit = Joining BY <1>1 DEF JobsInv
  <1>5. CASE counter >= NumJobs
    <2>1. workers'[w] = [pc |-> "end", c |-> counter] BY <1>5 DEF DrawJob, JobsInv
    <2>2. Running' = Running BY <1>1, <1>2, <2>1 DEF Running
    <2>3. \A v \in Running : workers'[v] = workers[v] BY <1>1, <1>2 DEF Running
    <2>4. Drawn' = Drawn BY <2>2, <2>3 DEF Drawn
    <2>5. {j \in 0 .. NumJobs - 1 : j < counter'} = {j \in 0 .. NumJobs - 1 : j < counter}
      BY <1>1, <1>5 DEF JobsInv
    <2>6. SomeFailed' = SomeFailed BY <1>1 DEF SomeFailed
    <2>7. \A v \in WorkerIds : workers'[v].pc = "end" => counter' >= NumJobs
      BY <1>1, <1>5 DEF JobsInv
    <2> QED BY <1>1, <1>3, <1>4, <2>2, <2>3, <2>4, <2>5, <2>6, <2>7 DEF JobsInv
  <1>6. CASE ~(counter >= NumJobs)
    <2>1. workers'[w] = [pc |-> "run", c |-> counter] BY <1>6 DEF DrawJob, JobsInv
    <2>2. Running' = Running \cup {w} /\ w \notin Running BY <1>1, <1>2, <2>1 DEF Running
    <2>3. \A v \in Running : workers'[v] = workers[v] BY <1>1, <1>2 DEF Running
    <2>4. Drawn' = Drawn \cup {counter} BY <2>1, <2>2, <2>3 DEF Drawn
    <2>5. {j \in 0 .. NumJobs - 1 : j < counter'} = {j \in 0 .. NumJobs - 1 : j < counter} \cup {counter}
      BY <1>1, <1>6 DEF JobsInv
    <2>6. counter \notin Drawn \cup DOMAIN jobExits BY DEF JobsInv
    <2>7. SomeFailed' = SomeFailed BY <1>1 DEF SomeFailed
    <2>8. \A v \in WorkerIds : workers'[v].pc # "end"
      BY <1>2, <1>6, <2>1 DEF JobsInv
    <2>9. \A u, v \in Running' : u # v => workers'[u].c # workers'[v].c
      <3>1. \A v \in Running : workers'[v].c \in Drawn BY <2>3 DEF Drawn
      <3>2. workers'[w].c = counter BY <2>1
      <3>3. \A u, v \in Running : u # v => workers'[u].c # workers'[v].c BY <2>3 DEF JobsInv
      <3> QED BY <2>2, <2>6, <3>1, <3>2, <3>3
    <2>10. (Drawn \cup DOMAIN jobExits)' = {j \in 0 .. NumJobs - 1 : j < counter'}
      BY <1>1, <2>4, <2>5 DEF JobsInv
    <2>11. (Drawn \cap DOMAIN jobExits)' = {} BY <1>1, <2>4, <2>6 DEF JobsInv
    <2> QED BY <1>1, <1>3, <1>4, <2>7, <2>8, <2>9, <2>10, <2>11 DEF JobsInv
  <1> QED BY <1>5, <1>6

LEMMA EndKeepsJobs ==
    ASSUME JobsInv, NEW w \in WorkerIds, JobEnds(w)
    PROVE  JobsInv'
  <1> DEFINE c == workers[w].c
  <1>1. PICK e \in {0, 1} :
          /\ hasErrors' = (hasErrors \/ e # 0)
          /\ jobExits' = [j \in DOMAIN jobExits \cup {c} |-> IF j = c THEN e ELSE jobExits[j]]
    BY DEF JobEnds
  <1>2. /\ workers[w].pc = "run"
        /\ workers' = [workers EXCEPT ![w].pc = "draw"]
        /\ UNCHANGED <<counter, parentExit>>
    BY DEF JobEnds
  <1>3. workers' \in [WorkerIds -> [pc : {"draw", "run", "end"}, c : Nat]]
    BY <1>2 DEF JobsInv
  <1>4. workers'[w].pc = "draw" /\ \A v \in WorkerIds \ {w} : workers'[v] = workers[v]
    BY <1>2 DEF JobsInv
  <1>5. w \in Running /\ Running' = Running \ {w} BY <1>2, <1>4 DEF Running
  <1>6. \A v \in Running' : workers'[v] = workers[v] BY <1>4, <1>5 DEF Running
  <1>7. c \in Drawn /\ c \notin DOMAIN jobExits
    <2>1. c \in Drawn BY <1>5 DEF Drawn
    <2> QED BY <2>1 DEF JobsInv
  <1>8. Drawn' = Drawn \ {c}
    <2>1. \A v \in Running \ {w} : workers[v].c # c BY <1>5 DEF JobsInv
    <2> QED BY <1>5, <1>6, <2>1 DEF Drawn
  <1>9. DOMAIN jobExits' = DOMAIN jobExits \cup {c} BY <1>1
  <1>10. parentExit = Joining BY <1>2 DEF JobsInv
  <1>11. (Drawn \cup DOMAIN jobExits)' = Drawn \cup DOMAIN jobExits BY <1>7, <1>8, <1>9
  <1>12. (Drawn \cap DOMAIN jobExits)' = {} BY <1>7, <1>8, <1>9 DEF JobsInv
  <1>13. SomeFailed' <=> SomeFailed \/ e # 0
    <2>1. jobExits'[c] = e BY <1>1
    <2>2. \A j \in DOMAIN jobExits : jobExits'[j] = jobExits[j] BY <1>1, <1>7
    <2> QED BY <1>9, <2>1, <2>2 DEF SomeFailed
  <1>14. hasErrors' <=> SomeFailed' BY <1>1, <1>13 DEF JobsInv
  <1>15. hasErrors' \in BOOLEAN BY <1>1 DEF JobsInv
  <1>16. \A v \in WorkerIds : workers'[v].pc = "end" => counter' >= NumJobs
    BY <1>2, <1>4 DEF JobsInv
  <1>17. \A u, v \in Running' : u # v => workers'[u].c # workers'[v].c
    BY <1>5, <1>6 DEF JobsInv
  <1>18. (Drawn \cup DOMAIN jobExits)' = {j \in 0 .. NumJobs - 1 : j < counter'}
    BY <1>2, <1>11 DEF JobsInv
  <1> QED BY <1>2, <1>3, <1>10, <1>12, <1>14, <1>15, <1>16, <1>17, <1>18 DEF JobsInv

LEMMA JoinKeepsJobs == JobsInv /\ JoinWorkers => JobsInv'
  <1> SUFFICES ASSUME JobsInv, JoinWorkers PROVE JobsInv'
    OBVIOUS
  <1>1. UNCHANGED <<counter, workers, hasErrors, jobExits>> BY DEF JoinWorkers
  <1>2. Running' = Running /\ Drawn' = Drawn /\ SomeFailed' = SomeFailed
    BY <1>1 DEF Running, Drawn, SomeFailed
  <1>3. parentExit' = (IF hasErrors THEN 1 ELSE 0) /\ \A w \in WorkerIds : workers[w].pc = "end"
    BY DEF JoinWorkers
  <1> QED BY <1>1, <1>2, <1>3 DEF JobsInv

LEMMA JobsInvStep == JobsInv /\ [JobsNext]_jobVars => JobsInv'
  <1> SUFFICES ASSUME JobsInv, [JobsNext]_jobVars PROVE JobsInv'
    OBVIOUS
  <1>1. CASE JoinWorkers BY <1>1, JoinKeepsJobs
  <1>2. CASE \E w \in WorkerIds : DrawJob(w) BY <1>2, DrawKeepsJobs
  <1>3. CASE \E w \in WorkerIds : JobEnds(w) BY <1>3, EndKeepsJobs
  <1>4. CASE UNCHANGED jobVars BY <1>4 DEF jobVars, JobsInv, Running, Drawn, SomeFailed
  <1> QED BY <1>1, <1>2, <1>3, <1>4 DEF JobsNext

LEMMA JobsInvReports == JobsInv => JobsReported
  <1> SUFFICES ASSUME JobsInv PROVE JobsReported
    OBVIOUS
  <1>1. \A v, w \in WorkerIds :
          v # w /\ workers[v].pc = "run" /\ workers[w].pc = "run" => workers[v].c # workers[w].c
    BY DEF JobsInv, Running
  <1>2. \A w \in WorkerIds : workers[w].pc = "run" => workers[w].c \notin DOMAIN jobExits
    BY DEF JobsInv, Drawn, Running
  <1>3. ASSUME parentExit # Joining
        PROVE  DOMAIN jobExits = 0 .. NumJobs - 1 /\ (parentExit = 1 <=> SomeFailed)
    <2>1. \A w \in WorkerIds : workers[w].pc = "end" BY <1>3 DEF JobsInv
    <2>2. 1 \in WorkerIds BY JobsAssumption DEF WorkerIds
    <2>3. counter >= NumJobs BY <2>1, <2>2 DEF JobsInv
    <2>4. Drawn = {} BY <2>1 DEF Drawn, Running
    <2>5. {j \in 0 .. NumJobs - 1 : j < counter} = 0 .. NumJobs - 1
      BY <2>3, JobsAssumption DEF JobsInv
    <2> QED BY <1>3, <2>4, <2>5 DEF JobsInv
  <1> QED BY <1>1, <1>2, <1>3 DEF JobsReported, SomeFailed

(* RunInMultipleProcesses, for any numbers of threads and jobs: no job is  *)
(* run twice or left out, and a failure of any job is the parent's.        *)
THEOREM EveryJobReported == JobsSpec => []JobsReported
  <1>1. JobsInit => JobsInv BY JobsInvInit
  <1>2. JobsInv /\ [JobsNext]_jobVars => JobsInv' BY JobsInvStep
  <1>3. JobsInv => JobsReported BY JobsInvReports
  <1> QED BY <1>1, <1>2, <1>3, PTL DEF JobsSpec

-----------------------------------------------------------------------------
(* MinimizeCrashInput *)

(* The current input has the token of the original, or the one exception.  *)
(* A file that lay at the exact path need not crash at all: then the next  *)
(* run of it ends the minimization, so this is asked of crashing inputs.   *)
SameBug ==
    \/ TokenOf[currentInput] = TokenOf[original]
    \/ exact /\ minFaults > 0 /\ TokenOf[original] = NoToken

(* While every run of the current input came to its crash, token1 belongs  *)
(* to the current input between RunCurrent and the end of the step.        *)
CrashesShown ==
    /\ currentInput \in Killers => SameBug
    /\ mpc = "minimize" => currentInput \in Killers /\ token1 = TokenOf[currentInput]
    /\ mpc = "done" => currentInput \in Killers

(* Whatever the children did: without an exact path, the current input is  *)
(* the original, a crash with its token or one without, or there is no     *)
(* file.                                                                   *)
NoOtherToken == TokenOf[currentInput] \in {TokenOf[original], NoToken}
AtFreshPaths ==
    /\ mpc \in {"run", "minimize"} => artifact = NoToken
    /\ currentInput # NoToken => currentInput \in Killers \cup {original} /\ NoOtherToken

MinInv ==
    /\ mpc \in {"run", "minimize", "done", "failed"}
    /\ exact \in BOOLEAN /\ runCut \in BOOLEAN /\ minFaults \in Nat
    /\ mpc \in {"minimize", "done"} => currentInput # NoToken
    /\ mpc = "minimize" => token1 \in {NoToken, TokenOf[currentInput]}
    /\ mpc = "done" => (exact => artifact = currentInput)
    /\ ~runCut => CrashesShown
    /\ ~exact => AtFreshPaths

LEMMA NoTokenCrashes == NoToken \notin Killers
  BY MinimizeAssumption, TargetAssumption

(* Finish keeps the current input, which crashed when it was last run.     *)
LEMMA FinishKeeps ==
    ASSUME MinInv, mpc = "minimize", NEW left, Finish(left), minFaults' \in Nat,
           minFaults' >= minFaults
    PROVE  MinInv'
  <1>1. UNCHANGED <<original, exact, currentInput, token1, runCut>> /\ mpc' = "done" BY DEF Finish
  <1>2. exact => artifact' = currentInput BY DEF Finish
  <1>3. ~runCut => CrashesShown'
    <2>1. ~runCut => SameBug' /\ currentInput \in Killers BY <1>1 DEF MinInv, CrashesShown, SameBug
    <2> QED BY <1>1, <2>1 DEF CrashesShown
  <1>4. ~exact => AtFreshPaths' BY <1>1 DEF MinInv, AtFreshPaths, NoOtherToken
  <1> QED BY <1>1, <1>2, <1>3, <1>4 DEF MinInv

(* The step's result becomes the current input when the tokens agree: the  *)
(* artifact it wrote has the token of an input that had the original's,    *)
(* and a step that wrote nothing counts only for a crash without a token.  *)
LEMMA StepFailedKeeps ==
    ASSUME MinInv, mpc = "minimize", NEW written \in Killers \cup {NoToken},
           StepFailed(written), minFaults' \in Nat, minFaults' >= minFaults,
           written = NoToken => minFaults' > 0
    PROVE  MinInv'
  <1> DEFINE token2 == IF written = NoToken THEN NoToken ELSE TokenOf[written]
             file == IF written = NoToken THEN artifact ELSE written
  <1>1. CASE token1 # token2
    <2>1. Finish(file) BY <1>1 DEF StepFailed
    <2> QED BY <2>1, FinishKeeps
  <1>2. CASE token1 = token2
    <2>1. /\ mpc' = "run" /\ currentInput' = file
          /\ UNCHANGED <<original, exact, token1, runCut>>
          /\ ~exact => artifact' = NoToken
      BY <1>2 DEF StepFailed
    <2>2. written # NoToken => currentInput' = written /\ token1 = TokenOf[written] BY <1>2, <2>1
    <2>3. written = NoToken => currentInput' = artifact /\ token1 = NoToken BY <1>2, <2>1
    <2>4. ~runCut => CrashesShown'
      <3>1. SUFFICES ASSUME ~runCut, currentInput' \in Killers PROVE SameBug'
        BY <2>1 DEF CrashesShown
      <3>2. token1 = TokenOf[currentInput] /\ SameBug BY <3>1 DEF MinInv, CrashesShown
      <3>3. CASE written = NoToken
        <4>1. exact BY <2>3, <3>1, <3>3, NoTokenCrashes DEF MinInv, AtFreshPaths
        <4>2. TokenOf[original] = NoToken BY <2>3, <3>2, <3>3 DEF SameBug
        <4> QED BY <2>1, <3>3, <4>1, <4>2 DEF SameBug
      <3>4. CASE written # NoToken
        <4>1. TokenOf[currentInput'] = TokenOf[currentInput] BY <2>2, <3>2, <3>4
        <4> QED BY <2>1, <3>2, <4>1 DEF SameBug, MinInv
      <3> QED BY <3>3, <3>4
    <2>5. ~exact => AtFreshPaths'
      <3>1. SUFFICES ASSUME ~exact, currentInput' # NoToken
                     PROVE  currentInput' \in Killers /\ NoOtherToken'
        BY <2>1 DEF AtFreshPaths
      <3>2. artifact = NoToken BY <3>1 DEF MinInv, AtFreshPaths
      <3>3. currentInput' \in Killers /\ TokenOf[currentInput'] = token1
        BY <2>2, <2>3, <3>1, <3>2
      <3>4. token1 \in {NoToken, TokenOf[currentInput]} /\ NoOtherToken
        BY <3>1 DEF MinInv, AtFreshPaths
      <3> QED BY <2>1, <3>3, <3>4 DEF NoOtherToken
    <2> QED BY <2>1, <2>4, <2>5 DEF MinInv
  <1> QED BY <1>1, <1>2

LEMMA MinInvStep == MinInv /\ [MinNext]_minVars => MinInv'
  <1> SUFFICES ASSUME MinInv, [MinNext]_minVars PROVE MinInv'
    OBVIOUS
  <1>1. CASE RunCurrent
    <2>1. UNCHANGED <<original, exact, currentInput, artifact, runCut, minFaults>> BY <1>1 DEF RunCurrent
    <2>2. SameBug' = SameBug /\ NoOtherToken' = NoOtherToken BY <2>1 DEF SameBug, NoOtherToken
    <2>3. mpc = "run" /\ mpc' \in {"minimize", "failed"} BY <1>1 DEF RunCurrent
    <2>4. mpc' = "minimize" => currentInput \in Killers /\ token1' = TokenOf[currentInput]
      BY <1>1 DEF RunCurrent
    <2>5. ~runCut => CrashesShown' BY <2>1, <2>2, <2>3, <2>4 DEF MinInv, CrashesShown
    <2>6. ~exact => AtFreshPaths' BY <2>1, <2>2, <2>3 DEF MinInv, AtFreshPaths
    <2> QED BY <2>1, <2>3, <2>4, <2>5, <2>6, NoTokenCrashes DEF MinInv
  <1>2. CASE RunCut
    <2>1. /\ UNCHANGED <<original, exact, currentInput, artifact>> /\ currentInput # NoToken
          /\ mpc = "run" /\ mpc' = "minimize" /\ token1' = NoToken /\ runCut' = TRUE
          /\ minFaults' = minFaults + 1 /\ minFaults \in Nat
      BY <1>2 DEF RunCut, MinFault, MinInv
    <2>2. ~exact => AtFreshPaths' BY <2>1 DEF MinInv, AtFreshPaths, NoOtherToken
    <2> QED BY <2>1, <2>2 DEF MinInv
  <1>3. CASE NothingSmaller
    <2>1. PICK slow : Finish(slow) BY <1>3 DEF NothingSmaller
    <2>2. mpc = "minimize" /\ minFaults' = minFaults /\ minFaults \in Nat
      BY <1>3 DEF NothingSmaller, MinInv
    <2> QED BY <2>1, <2>2, FinishKeeps
  <1>4. CASE FoundSmaller
    <2>1. PICK v \in Killers : StepFailed(v) BY <1>4 DEF FoundSmaller
    <2>2. mpc = "minimize" /\ minFaults' = minFaults /\ minFaults \in Nat
      BY <1>4 DEF FoundSmaller, MinInv
    <2> QED BY <2>1, <2>2, NoTokenCrashes, StepFailedKeeps
  <1>5. CASE StepInterrupted
    <2>1. /\ mpc = "minimize" /\ StepFailed(NoToken)
          /\ minFaults' = minFaults + 1 /\ minFaults \in Nat
      BY <1>5 DEF StepInterrupted, MinFault, MinInv
    <2> QED BY <2>1, StepFailedKeeps
  <1>6. CASE UNCHANGED minVars
    BY <1>6 DEF minVars, MinInv, SameBug, CrashesShown, AtFreshPaths, NoOtherToken
  <1> QED BY <1>1, <1>2, <1>3, <1>4, <1>5, <1>6 DEF MinNext

(* MinimizeCrashInput, for any inputs, dedup tokens and faults, those of   *)
(* the child that shows the crash again included: what the property says of*)
(* the input it ends with, by whether every such child came to its crash,  *)
(* and whether the artifact path was exact.                                *)
THEOREM MinimizationKeepsBug == MinSpec => []MinimizedKeepsBug
  <1>1. MinInit => MinInv
    <2> SUFFICES ASSUME MinInit PROVE MinInv
      OBVIOUS
    <2>1. original \in Inputs /\ original # NoToken BY MinimizeAssumption DEF MinInit
    <2>2. CrashesShown BY DEF MinInit, CrashesShown, SameBug
    <2>3. ~exact => AtFreshPaths BY DEF MinInit, AtFreshPaths, NoOtherToken
    <2> QED BY <2>1, <2>2, <2>3 DEF MinInit, MinInv
  <1>2. MinInv /\ [MinNext]_minVars => MinInv' BY MinInvStep
  <1>3. MinInv => MinimizedKeepsBug
    <2> SUFFICES ASSUME MinInv, mpc = "done" PROVE MinimizedKeepsBug
      BY DEF MinimizedKeepsBug
    <2>1. ~runCut => currentInput \in Killers /\ SameBug BY DEF MinInv, CrashesShown
    <2>2. ~exact => currentInput \in Killers \cup {original} /\ NoOtherToken BY DEF MinInv, AtFreshPaths
    <2> QED BY <2>1, <2>2 DEF MinInv, MinimizedKeepsBug, SameBug, NoOtherToken
  <1> QED BY <1>1, <1>2, <1>3, PTL DEF MinSpec

-----------------------------------------------------------------------------
(* CleanseCrashInput *)

(* The overwriting of byte i by replacement r does not fail any more.      *)
InVain(i, r) == [bytes EXCEPT ![i] = ReplacementBytes[r]] \notin Failing

Cleansable(i, r) ==
    /\ i \in DOMAIN bytes /\ r \in DOMAIN ReplacementBytes
    /\ ~IsReplacement(bytes[i])

(* A pass that has changed nothing yet has tried everything before the     *)
(* byte it is at, on the very bytes there are now; after a change nothing  *)
(* is known, which is why there is another pass.                           *)
CleanseInv ==
    /\ bytes \in Failing
    /\ numAttempts \in 0 .. MaxAttempts
    /\ idx \in Nat \ {0} /\ byte \in Nat \ {0} /\ changed \in BOOLEAN
    /\ output # <<>> => output = bytes
    /\ ~changed /\ ~CleanseDone =>
          \A i, r : Cleansable(i, r) /\ (i < idx \/ (i = idx /\ r < byte)) => InVain(i, r)
    /\ ~changed /\ CleanseDone => \A i, r : Cleansable(i, r) => InVain(i, r)

LEMMA BytesAreSequences ==
    ASSUME CleanseInv
    PROVE  /\ DOMAIN bytes = 1 .. Len(bytes) /\ Len(bytes) \in Nat
           /\ DOMAIN ReplacementBytes = 1 .. Len(ReplacementBytes)
           /\ Len(ReplacementBytes) \in Nat \ {0}
  <1>1. bytes \in Seq(0 .. 255) BY CleanseAssumption DEF CleanseInv
  <1>2. ReplacementBytes \in Seq(0 .. 255) /\ ReplacementBytes # <<>> BY CleanseAssumption
  <1> QED BY <1>1, <1>2

LEMMA SkipKeeps == CleanseInv /\ SkipByte => CleanseInv'
  <1> SUFFICES ASSUME CleanseInv, SkipByte PROVE CleanseInv'
    OBVIOUS
  <1>1. /\ UNCHANGED <<bytes, numAttempts, changed, output>>
        /\ idx' = idx + 1 /\ byte' = 1 /\ ~CleanseDone
    BY DEF SkipByte, NextByte
  <1>2. ASSUME ~changed, NEW i, NEW r, Cleansable(i, r), i < idx + 1 \/ (i = idx + 1 /\ r < 1)
        PROVE  InVain(i, r)
    <2>1. i \in Nat /\ r \in Nat \ {0} /\ r <= Len(ReplacementBytes)
      BY <1>2, BytesAreSequences DEF Cleansable
    <2>2. CASE i < idx BY <1>1, <1>2, <2>1, <2>2 DEF CleanseInv
    <2>3. CASE i = idx
      <3>1. byte > Len(ReplacementBytes) BY <1>2, <2>3 DEF SkipByte, Cleansable
      <3>2. r < byte BY <2>1, <3>1, BytesAreSequences DEF CleanseInv
      <3> QED BY <1>1, <1>2, <2>1, <2>3, <3>2 DEF CleanseInv
    <2> QED BY <1>2, <2>1, <2>2, <2>3 DEF CleanseInv
  <1>3. CleanseDone' = CleanseDone BY <1>1 DEF CleanseDone
  <1>4. \A i, r : InVain(i, r)' = InVain(i, r) /\ Cleansable(i, r)' = Cleansable(i, r)
    BY <1>1 DEF InVain, Cleansable
  <1> QED BY <1>1, <1>2, <1>3, <1>4 DEF CleanseInv

LEMMA TryKeeps == CleanseInv /\ TryByte => CleanseInv'
  <1> SUFFICES ASSUME CleanseInv, TryByte PROVE CleanseInv'
    OBVIOUS
  <1> DEFINE tried == [bytes EXCEPT ![idx] = ReplacementBytes[byte]]
  <1>1. CASE tried \in Failing
    <2>1. /\ bytes' = tried /\ output' = tried /\ changed' = TRUE /\ UNCHANGED numAttempts
          /\ idx' = idx + 1 /\ byte' = 1
      BY <1>1 DEF TryByte, NextByte
    <2> QED BY <1>1, <2>1 DEF CleanseInv
  <1>2. CASE tried \notin Failing
    <2>1. /\ UNCHANGED <<bytes, output, changed, idx, numAttempts>> /\ byte' = byte + 1
          /\ ~CleanseDone
      BY <1>2 DEF TryByte
    <2>2. ASSUME ~changed, NEW i, NEW r, Cleansable(i, r), i < idx \/ (i = idx /\ r < byte + 1)
          PROVE  InVain(i, r)
      <3>1. i \in Nat /\ r \in Nat BY <2>2, BytesAreSequences DEF Cleansable
      <3>2. CASE i = idx /\ r = byte BY <1>2, <3>2 DEF InVain
      <3>3. CASE i < idx \/ (i = idx /\ r < byte)
        BY <2>1, <2>2, <3>3 DEF CleanseInv
      <3> QED BY <2>2, <3>1, <3>2, <3>3 DEF CleanseInv
    <2>3. CleanseDone' = CleanseDone BY <2>1 DEF CleanseDone
    <2>4. \A i, r : InVain(i, r)' = InVain(i, r) /\ Cleansable(i, r)' = Cleansable(i, r)
      BY <2>1 DEF InVain, Cleansable
    <2> QED BY <2>1, <2>2, <2>3, <2>4 DEF CleanseInv
  <1> QED BY <1>1, <1>2

LEMMA NextAttemptKeeps == CleanseInv /\ NextAttempt => CleanseInv'
  <1> SUFFICES ASSUME CleanseInv, NextAttempt PROVE CleanseInv'
    OBVIOUS
  <1>1. /\ UNCHANGED <<bytes, output>> /\ idx' = 1 /\ byte' = 1
        /\ idx > Len(bytes) /\ numAttempts # MaxAttempts
        /\ numAttempts' = IF changed THEN numAttempts + 1 ELSE MaxAttempts
        /\ changed' = (changed /\ numAttempts' = MaxAttempts)
    BY DEF NextAttempt, CleanseDone
  <1>2. numAttempts' \in 0 .. MaxAttempts BY <1>1, CleanseAssumption DEF CleanseInv
  <1>3. changed' \in BOOLEAN BY <1>1 DEF CleanseInv
  <1>4. \A i, r : InVain(i, r)' = InVain(i, r) /\ Cleansable(i, r)' = Cleansable(i, r)
    BY <1>1 DEF InVain, Cleansable
  <1>5. ASSUME NEW i, NEW r, Cleansable(i, r) PROVE i \in Nat \ {0} /\ i < idx /\ r \in Nat \ {0}
    BY <1>1, <1>5, BytesAreSequences DEF Cleansable, CleanseInv
  <1>6. ~changed' /\ ~CleanseDone' =>
          \A i, r : Cleansable(i, r)' /\ (i < idx' \/ (i = idx' /\ r < byte')) => InVain(i, r)'
    BY <1>1, <1>4, <1>5
  <1>7. ~changed' /\ CleanseDone' => \A i, r : Cleansable(i, r)' => InVain(i, r)'
    <2> SUFFICES ASSUME ~changed', CleanseDone', NEW i, NEW r, Cleansable(i, r) PROVE InVain(i, r)
      BY <1>4
    <2>1. ~changed BY <1>1 DEF CleanseDone
    <2> QED BY <1>1, <1>5, <2>1 DEF CleanseInv, CleanseDone
  <1> QED BY <1>1, <1>2, <1>3, <1>6, <1>7 DEF CleanseInv

LEMMA CleanseInvStep == CleanseInv /\ [CleanseNext]_cleanseVars => CleanseInv'
  <1> SUFFICES ASSUME CleanseInv, [CleanseNext]_cleanseVars PROVE CleanseInv'
    OBVIOUS
  <1>1. CASE UNCHANGED cleanseVars
    BY <1>1 DEF cleanseVars, CleanseInv, CleanseDone, InVain, Cleansable
  <1> QED BY <1>1, SkipKeeps, TryKeeps, NextAttemptKeeps DEF CleanseNext

(* CleanseCrashInput, for any target, any crashing input, any replacement  *)
(* bytes and any number of passes: what is written still fails, and after  *)
(* a pass without a change no single byte can be cleansed any more.        *)
THEOREM CleanseIsLocallyMinimal == CleanseSpec => []CleansedAndLocallyMinimal
  <1>1. CleanseInit => CleanseInv
    <2> SUFFICES ASSUME CleanseInit PROVE CleanseInv
      OBVIOUS
    <2>1. bytes \in Failing BY CleanseAssumption DEF CleanseInit
    <2>2. numAttempts = 0 /\ MaxAttempts \in Nat \ {0} BY CleanseAssumption DEF CleanseInit
    <2>3. DOMAIN bytes \subseteq Nat \ {0} /\ DOMAIN ReplacementBytes \subseteq Nat \ {0}
      <3>1. bytes \in Seq(0 .. 255) /\ ReplacementBytes \in Seq(0 .. 255)
        BY <2>1, CleanseAssumption
      <3> QED BY <3>1
    <2>4. ~CleanseDone BY <2>2 DEF CleanseDone
    <2>5. ASSUME NEW i, NEW r, Cleansable(i, r) PROVE ~(i < idx \/ (i = idx /\ r < byte))
      BY <2>3, <2>5 DEF Cleansable, CleanseInit
    <2>6. numAttempts \in 0 .. MaxAttempts BY <2>2
    <2>7. idx = 1 /\ byte = 1 /\ changed = FALSE /\ output = <<>> BY DEF CleanseInit
    <2>8. \A i, r : Cleansable(i, r) /\ (i < idx \/ (i = idx /\ r < byte)) => InVain(i, r)
      BY Zenon, <2>5
    <2>9. idx \in Nat \ {0} /\ byte \in Nat \ {0} BY <2>7
    <2>10. changed \in BOOLEAN BY Zenon, <2>7
    <2> QED BY Zenon, <2>1, <2>4, <2>6, <2>7, <2>8, <2>9, <2>10 DEF CleanseInv
  <1>2. CleanseInv /\ [CleanseNext]_cleanseVars => CleanseInv' BY CleanseInvStep
  <1>3. CleanseInv => CleansedAndLocallyMinimal
    BY DEF CleanseInv, CleansedAndLocallyMinimal, Cleansable, InVain
  <1> QED BY <1>1, <1>2, <1>3, PTL DEF CleanseSpec

-----------------------------------------------------------------------------
(* FuzzWithFork: known features *)

(* A merge returns the features its files have and were not known, each    *)
(* told all the features known so far: they add up.                        *)
LEMMA AddedFeaturesBacked ==
    ASSUME NEW candidates, FeaturesBacked, Add(candidates)
    PROVE  FeaturesBacked'
  <1>1. SUFFICES ASSUME ~cutMerge PROVE features' = FeaturesOfAll(files')
    BY DEF Add, FeaturesBacked
  <1>2. PICK R \in SUBSET candidates, N \in SUBSET FeaturesOfAll(candidates) : \E C \in SUBSET R :
           IsMerge(features, {}, R, C, N) /\ files' = files \cup C /\ features' = features \cup N
    BY DEF Add
  <1>3. PICK C \in SUBSET R :
           IsMerge(features, {}, R, C, N) /\ files' = files \cup C /\ features' = features \cup N
    BY <1>2
  <1>4. FeaturesOfAll({} \cap R) = {} BY DEF FeaturesOfAll
  <1>5. N = FeaturesOfAll(R) \ features /\ N \subseteq FeaturesOfAll(C) BY <1>3, <1>4 DEF IsMerge
  <1>6. FeaturesOfAll(C) \subseteq FeaturesOfAll(R) BY DEF FeaturesOfAll
  <1>7. features = FeaturesOfAll(files) BY <1>1 DEF FeaturesBacked
  <1>8. FeaturesOfAll(files \cup C) = FeaturesOfAll(files) \cup FeaturesOfAll(C)
    BY DEF FeaturesOfAll
  <1> QED BY <1>3, <1>5, <1>6, <1>7, <1>8

LEMMA ForkKeepsFeaturesBacked == FeaturesBacked /\ [ForkNext]_forkVars => FeaturesBacked'
  <1> SUFFICES ASSUME FeaturesBacked, [ForkNext]_forkVars PROVE FeaturesBacked'
    OBVIOUS
  <1>0. ASSUME NEW candidates, CutMerge(candidates) PROVE FeaturesBacked'
    BY <1>0 DEF CutMerge, FeaturesBacked
  <1>1. CASE MergeSeeds BY <1>0, <1>1, AddedFeaturesBacked DEF MergeSeeds, AddCutOff
  <1>2. CASE RunOneMergeJob BY <1>0, <1>2, AddedFeaturesBacked DEF RunOneMergeJob, AddCutOff
  <1>3. ASSUME UNCHANGED envVars PROVE FeaturesBacked'
    BY <1>3 DEF envVars, FeaturesBacked, FeaturesOfAll
  <1>4. CASE Spawn BY <1>3, <1>4 DEF Spawn
  <1>5. CASE PopResult BY <1>3, <1>5 DEF PopResult
  <1>6. CASE Continue BY <1>3, <1>6 DEF Continue
  <1>7. CASE StopFork BY <1>3, <1>7 DEF StopFork
  <1>8. CASE StopJobs BY <1>3, <1>8 DEF StopJobs
  <1>9. CASE JoinThreads BY <1>3, <1>9 DEF JoinThreads
  <1>10. CASE ForkExitsGracefully BY <1>3, <1>10 DEF ForkExitsGracefully
  <1>11. ASSUME NEW t \in ForkThreads, ThreadStep(t) PROVE FeaturesBacked'
    BY <1>3, <1>11 DEF ThreadStep, PopJob, ForkJobEnds
  <1>12. CASE MergeFails BY <1>0, <1>12 DEF MergeFails
  <1>13. CASE UNCHANGED forkVars BY <1>3, <1>13 DEF forkVars
  <1> QED
    BY <1>1, <1>2, <1>4, <1>5, <1>6, <1>7, <1>8, <1>9, <1>10, <1>11, <1>12, <1>13 DEF ForkNext, MainStep

(* FuzzWithFork: whatever the merges choose, the features that keep later  *)
(* inputs out of the corpus, which the merges return apart from the files, *)
(* add up to those of the inputs in it, until a merge is cut off within a  *)
(* record.                                                                 *)
THEOREM KnownFeaturesBacked == ForkSpec => []FeaturesBacked
  <1>1. ForkInit => FeaturesBacked BY DEF ForkInit, FeaturesBacked, FeaturesOfAll
  <1>2. FeaturesBacked /\ [ForkNext]_forkVars => FeaturesBacked' BY ForkKeepsFeaturesBacked
  <1> QED BY <1>1, <1>2, PTL DEF ForkSpec

-----------------------------------------------------------------------------
(* Jobs on their way *)

(* Until the jobs are stopped no null job is on its way.                   *)
Looping == main \in {"start", "spawn", "pop", "merge", "decide"}

JobsOf(ts) == {worker[t].job : t \in ts}
JobsRunning == JobsOf(RunningJobs)
JobsHeld == IF main \in {"merge", "decide"} THEN {job} ELSE {}

ForkTypes ==
    /\ main \in {"start", "spawn", "pop", "merge", "decide", "stop", "join", "exited"}
    /\ worker \in [ForkThreads -> [pc : {"none", "pop", "run", "end"}, job : Nat]]
    /\ fuzzQ \in Seq(Nat) /\ mergeQ \in Seq(Nat)
    /\ jobId \in Nat \ {0}

(* The four places a job may be in: no job is in two of them, or twice in  *)
(* a queue, or with two threads, and all were created.                     *)
Placed(q, r, running, held) ==
    /\ IsInjective(q) /\ IsInjective(r)
    /\ Range(q) \cap Range(r) = {}
    /\ (Range(q) \cup Range(r)) \cap running = {}
    /\ (Range(q) \cup Range(r) \cup running) \cap held = {}

OneThreadPerJob == \A t, u \in RunningJobs : t # u => worker[t].job # worker[u].job

AllCreated ==
    /\ Range(fuzzQ) \cup Range(mergeQ) \cup JobsRunning \cup JobsHeld \subseteq 1 .. jobId - 1
    /\ jobId - 1 <= MaxJobs

Counted ==
    Len(fuzzQ) + Len(mergeQ) + Cardinality(JobsRunning) + Cardinality(JobsHeld)
        = IF main \in {"start", "spawn"} THEN jobId - 1 ELSE NumForkJobs

(* The threads that have not been started yet have no job.                 *)
Starting ==
    /\ main \in {"start", "spawn"} =>
          /\ jobId <= NumForkJobs
          /\ \A t \in ForkThreads : t >= jobId => worker[t].pc = "none"
    /\ main = "start" => jobId = 1

Flow == Placed(fuzzQ, mergeQ, JobsRunning, JobsHeld) /\ OneThreadPerJob /\ AllCreated /\ Counted /\ Starting

ForkInv == ForkTypes /\ (Looping => Flow)

LEMMA RangeOf == \A q \in Seq(Nat) : Range(q) = {q[i] : i \in 1 .. Len(q)}
  BY DEF Range

LEMMA PushJob ==
    ASSUME NEW q \in Seq(Nat), NEW j \in Nat
    PROVE  /\ Append(q, j) \in Seq(Nat) /\ Len(Append(q, j)) = Len(q) + 1
           /\ Range(Append(q, j)) = Range(q) \cup {j}
           /\ IsInjective(q) /\ j \notin Range(q) => IsInjective(Append(q, j))
  <1> DEFINE r == Append(q, j)
             n == Len(q)
  <1>1. /\ n \in Nat /\ DOMAIN q = 1 .. n /\ r \in Seq(Nat) /\ Len(r) = n + 1
        /\ DOMAIN r = 1 .. n + 1 /\ r[n + 1] = j /\ \A i \in 1 .. n : r[i] = q[i]
    BY AppendProperties
  <1> HIDE DEF r, n
  <1>2. 1 .. n + 1 = (1 .. n) \cup {n + 1} BY <1>1
  <1>3. Range(r) = Range(q) \cup {j} BY <1>1, <1>2 DEF Range
  <1>4. \A i \in 1 .. n : q[i] \in Range(q) BY <1>1 DEF Range
  <1>5. IsInjective(q) /\ j \notin Range(q) => IsInjective(r)
    BY <1>1, <1>2, <1>4 DEF IsInjective
  <1> QED BY <1>1, <1>3, <1>5 DEF r, n

LEMMA PopJobFrom ==
    ASSUME NEW q \in Seq(Nat), q # <<>>
    PROVE  /\ Tail(q) \in Seq(Nat) /\ Head(q) \in Nat /\ Head(q) \in Range(q)
           /\ Len(q) = Len(Tail(q)) + 1 /\ Len(Tail(q)) \in Nat
           /\ IsInjective(q) => IsInjective(Tail(q)) /\ Range(Tail(q)) = Range(q) \ {Head(q)}
  <1> DEFINE r == Tail(q)
             n == Len(r)
  <1>1. /\ n \in Nat /\ DOMAIN q = 1 .. n + 1 /\ r \in Seq(Nat) /\ Len(q) = n + 1
        /\ DOMAIN r = 1 .. n /\ q[1] = Head(q) /\ \A i \in 1 .. n : r[i] = q[i + 1]
    OBVIOUS
  <1>2. Head(q) \in Nat OBVIOUS
  <1> HIDE DEF r, n
  <1>3. Head(q) \in Range(q) BY <1>1 DEF Range
  <1>4. ASSUME IsInjective(q) PROVE IsInjective(r) /\ Range(r) = Range(q) \ {Head(q)}
    <2>1. \A i \in 1 .. n : i + 1 \in 1 .. n + 1 /\ i + 1 # 1 BY <1>1
    <2>2. IsInjective(r)
      <3> SUFFICES ASSUME NEW i \in 1 .. n, NEW k \in 1 .. n, r[i] = r[k] PROVE i = k
        BY <1>1 DEF IsInjective
      <3>1. \A a, b \in DOMAIN q : q[a] = q[b] => a = b BY <1>4 DEF IsInjective
      <3>2. /\ i + 1 \in DOMAIN q /\ k + 1 \in DOMAIN q
            /\ r[i] = q[i + 1] /\ r[k] = q[k + 1]
        BY <1>1, <2>1
      <3>3. i + 1 = k + 1 BY <3>1, <3>2
      <3> QED BY <1>1, <3>3
    <2>3. Range(r) \subseteq Range(q) \ {Head(q)}
      <3> SUFFICES ASSUME NEW i \in 1 .. n PROVE r[i] \in Range(q) /\ r[i] # q[1]
        BY <1>1 DEF Range
      <3>1. 1 \in 1 .. n + 1 BY <1>1
      <3>2. q[i + 1] # q[1] BY <1>1, <1>4, <2>1, <3>1 DEF IsInjective
      <3> QED BY <1>1, <2>1, <3>2 DEF Range
    <2>4. Range(q) \ {Head(q)} \subseteq Range(r)
      <3> SUFFICES ASSUME NEW i \in 1 .. n + 1, q[i] # q[1] PROVE q[i] \in Range(r)
        BY <1>1 DEF Range
      <3>1. i # 1 /\ i - 1 \in 1 .. n /\ (i - 1) + 1 = i BY <1>1
      <3> QED BY <1>1, <3>1 DEF Range
    <2> QED BY <2>2, <2>3, <2>4
  <1> QED BY <1>1, <1>2, <1>3, <1>4 DEF r, n

(* The jobs that run are finitely many.                                    *)
LEMMA RunningFinite ==
    ASSUME ForkInv, Looping
    PROVE  /\ IsFiniteSet(JobsRunning) /\ Cardinality(JobsRunning) \in Nat
           /\ IsFiniteSet(JobsHeld) /\ Cardinality(JobsHeld) \in Nat
  <1>1. JobsRunning \in SUBSET (1 .. jobId - 1) /\ JobsHeld \in SUBSET (1 .. jobId - 1)
    BY DEF ForkInv, Flow, AllCreated
  <1>2. IsFiniteSet(1 .. jobId - 1)
    <2>1. 1 \in Int /\ jobId - 1 \in Int BY DEF ForkInv, ForkTypes
    <2> QED BY <2>1, FS_Interval
  <1>3. IsFiniteSet(JobsRunning) /\ IsFiniteSet(JobsHeld) BY <1>1, <1>2, FS_Subset
  <1> QED BY <1>3, FS_CardinalityType

LEMMA ForkTypesStep == ForkTypes /\ [ForkNext]_forkVars => ForkTypes'
  <1> SUFFICES ASSUME ForkTypes, [ForkNext]_forkVars PROVE ForkTypes'
    OBVIOUS
  <1>1. CASE MergeSeeds BY <1>1 DEF MergeSeeds, ForkTypes
  <1>2. CASE Spawn
    <2>1. fuzzQ' \in Seq(Nat) /\ jobId' \in Nat \ {0}
      BY <1>2, PushJob DEF Spawn, CreateNewJob, ForkTypes
    <2>2. worker' \in [ForkThreads -> [pc : {"none", "pop", "run", "end"}, job : Nat]]
      BY <1>2 DEF Spawn, ForkTypes
    <2> QED BY <1>2, <2>1, <2>2 DEF Spawn, ForkTypes
  <1>3. CASE PopResult
    <2>1. mergeQ' \in Seq(Nat) BY <1>3, PopJobFrom DEF PopResult, ForkTypes
    <2> QED BY <1>3, <2>1 DEF PopResult, ForkTypes
  <1>4. CASE RunOneMergeJob BY <1>4 DEF RunOneMergeJob, ForkTypes
  <1>5. CASE Continue
    <2>1. fuzzQ' \in Seq(Nat) /\ jobId' \in Nat \ {0}
      BY <1>5, PushJob DEF Continue, CreateNewJob, ForkTypes
    <2> QED BY <1>5, <2>1 DEF Continue, ForkTypes
  <1>6. CASE StopFork BY <1>6 DEF StopFork, ForkTypes
  <1>7. CASE StopJobs
    <2>1. fuzzQ' \in Seq(Nat) /\ mergeQ' \in Seq(Nat)
      <3>1. Append(fuzzQ, NullJob) \in Seq(Nat) /\ Append(mergeQ, NullJob) \in Seq(Nat)
        BY PushJob DEF ForkTypes, NullJob
      <3> QED BY <1>7, <3>1 DEF StopJobs, ForkTypes
    <2>2. main' \in {"stop", "join"} /\ UNCHANGED <<worker, jobId>> BY <1>7 DEF StopJobs
    <2> QED BY <2>1, <2>2 DEF ForkTypes
  <1>8. CASE JoinThreads BY <1>8 DEF JoinThreads, ForkTypes
  <1>9. CASE ForkExitsGracefully \/ MergeFails BY <1>9 DEF ForkExitsGracefully, MergeFails, ForkTypes
  <1>10. ASSUME NEW t \in ForkThreads, PopJob(t) PROVE ForkTypes'
    <2>1. fuzzQ' \in Seq(Nat) /\ Head(fuzzQ) \in Nat
      BY <1>10, PopJobFrom DEF PopJob, ForkTypes
    <2>2. worker' \in [ForkThreads -> [pc : {"none", "pop", "run", "end"}, job : Nat]]
      BY <1>10, <2>1 DEF PopJob, ForkTypes, At
    <2> QED BY <1>10, <2>1, <2>2 DEF PopJob, ForkTypes
  <1>11. ASSUME NEW t \in ForkThreads, ForkJobEnds(t) PROVE ForkTypes'
    <2>1. worker[t].job \in Nat BY DEF ForkTypes
    <2>2. mergeQ' \in Seq(Nat) BY <1>11, <2>1, PushJob DEF ForkJobEnds, ForkTypes
    <2>3. worker' \in [ForkThreads -> [pc : {"none", "pop", "run", "end"}, job : Nat]]
      BY <1>11 DEF ForkJobEnds, ForkTypes, At, NullJob
    <2> QED BY <1>11, <2>2, <2>3 DEF ForkJobEnds, ForkTypes
  <1>12. CASE UNCHANGED forkVars BY <1>12 DEF forkVars, ForkTypes
  <1> QED
    BY <1>1, <1>2, <1>3, <1>4, <1>5, <1>6, <1>7, <1>8, <1>9, <1>10, <1>11, <1>12
    DEF ForkNext, MainStep, ThreadStep

-----------------------------------------------------------------------------
(* Jobs move from place to place *)

(* A thread takes a job from the queue: no null job is on it.              *)
LEMMA PopJobKeepsFlow ==
    ASSUME ForkInv, Looping, NEW t \in ForkThreads, PopJob(t)
    PROVE  Flow'
  <1> DEFINE j == Head(fuzzQ)
  <1>1. /\ fuzzQ # <<>> /\ fuzzQ \in Seq(Nat) /\ worker[t].pc = "pop"
        /\ fuzzQ' = Tail(fuzzQ) /\ UNCHANGED <<mergeQ, main, job, jobId>>
    BY DEF PopJob, ForkInv, ForkTypes
  <1>2. /\ j \in Range(fuzzQ) /\ j \in Nat /\ Len(fuzzQ) = Len(fuzzQ') + 1 /\ Len(fuzzQ') \in Nat
        /\ IsInjective(fuzzQ') /\ Range(fuzzQ') = Range(fuzzQ) \ {j}
    BY <1>1, PopJobFrom DEF ForkInv, Flow, Placed
  <1>3. j # NullJob BY <1>2 DEF ForkInv, Flow, AllCreated, NullJob
  <1>4. worker' = [worker EXCEPT ![t] = [pc |-> "run", job |-> j]]
    BY <1>3 DEF PopJob, At
  <1>5. /\ worker'[t] = [pc |-> "run", job |-> j]
        /\ \A u \in ForkThreads \ {t} : worker'[u] = worker[u]
    BY <1>4 DEF ForkInv, ForkTypes
  <1>6. t \notin RunningJobs /\ RunningJobs' = RunningJobs \cup {t}
    BY <1>1, <1>5 DEF RunningJobs
  <1>7. \A u \in RunningJobs : u # t /\ u \in ForkThreads /\ worker'[u] = worker[u]
    BY <1>5, <1>6 DEF RunningJobs
  <1>8. JobsRunning' = JobsRunning \cup {j} /\ j \notin JobsRunning
    <2>1. JobsRunning' = {worker'[u].job : u \in RunningJobs'} BY DEF JobsRunning, JobsOf
    <2>2. JobsRunning = {worker[u].job : u \in RunningJobs} BY DEF JobsRunning, JobsOf
    <2>3. worker'[t].job = j BY <1>5
    <2>4. j \notin JobsRunning BY <1>2 DEF ForkInv, Flow, Placed
    <2> HIDE DEF j
    <2> QED BY <1>6, <1>7, <2>1, <2>2, <2>3, <2>4
  <1>9. JobsHeld' = JobsHeld BY <1>1 DEF JobsHeld
  <1>10. Cardinality(JobsRunning') = Cardinality(JobsRunning) + 1
    BY <1>8, RunningFinite, FS_AddElement
  <1> HIDE DEF j
  <1>11. Placed(fuzzQ, mergeQ, JobsRunning, JobsHeld)'
    BY <1>1, <1>2, <1>8, <1>9 DEF ForkInv, Flow, Placed
  <1>12. OneThreadPerJob'
    <2>1. \A u \in RunningJobs : worker'[u].job # j
      BY <1>7, <1>8 DEF JobsRunning, JobsOf
    <2>2. worker'[t].job = j BY <1>5
    <2> QED BY <1>6, <1>7, <2>1, <2>2 DEF ForkInv, Flow, OneThreadPerJob
  <1>13. AllCreated' BY <1>1, <1>2, <1>8, <1>9 DEF ForkInv, Flow, AllCreated
  <1>14. Counted'
    <2>1. Len(mergeQ) \in Nat BY DEF ForkInv, ForkTypes
    <2> QED BY <1>1, <1>2, <1>9, <1>10, <2>1, RunningFinite DEF ForkInv, Flow, Counted
  <1>15. Starting'
    BY <1>1, <1>5 DEF ForkInv, Flow, Starting
  <1> QED BY <1>11, <1>12, <1>13, <1>14, <1>15 DEF Flow

LEMMA JobEndsKeepsFlow ==
    ASSUME ForkInv, Looping, NEW t \in ForkThreads, ForkJobEnds(t)
    PROVE  Flow'
  <1> DEFINE j == worker[t].job
  <1>1. /\ mergeQ \in Seq(Nat) /\ worker[t].pc = "run" /\ j \in Nat
        /\ mergeQ' = Append(mergeQ, j) /\ UNCHANGED <<fuzzQ, main, job, jobId>>
    BY DEF ForkJobEnds, ForkInv, ForkTypes
  <1>2. t \in RunningJobs /\ j \in JobsRunning BY <1>1 DEF RunningJobs, JobsRunning, JobsOf
  <1>3. /\ Len(mergeQ') = Len(mergeQ) + 1 /\ Range(mergeQ') = Range(mergeQ) \cup {j}
        /\ IsInjective(mergeQ')
    <2>1. j \notin Range(mergeQ) BY <1>2 DEF ForkInv, Flow, Placed
    <2> HIDE DEF j
    <2> QED BY <1>1, <2>1, PushJob DEF ForkInv, Flow, Placed
  <1>4. /\ worker'[t].pc = "pop"
        /\ \A u \in ForkThreads \ {t} : worker'[u] = worker[u]
    BY DEF ForkJobEnds, ForkInv, ForkTypes, At
  <1>5. RunningJobs' = RunningJobs \ {t} BY <1>4 DEF RunningJobs
  <1>6. \A u \in RunningJobs' : u \in RunningJobs /\ worker'[u] = worker[u] /\ worker[u].job # j
    BY <1>2, <1>4, <1>5 DEF RunningJobs, ForkInv, Flow, OneThreadPerJob
  <1>7. JobsRunning' = JobsRunning \ {j}
    <2>1. JobsRunning' = {worker'[u].job : u \in RunningJobs'} BY DEF JobsRunning, JobsOf
    <2>2. JobsRunning = {worker[u].job : u \in RunningJobs} BY DEF JobsRunning, JobsOf
    <2> QED BY <1>5, <1>6, <2>1, <2>2
  <1> HIDE DEF j
  <1>8. JobsHeld' = JobsHeld BY <1>1 DEF JobsHeld
  <1>9. Cardinality(JobsRunning') = Cardinality(JobsRunning) - 1
    BY <1>2, <1>7, RunningFinite, FS_RemoveElement
  <1>10. Placed(fuzzQ, mergeQ, JobsRunning, JobsHeld)'
    BY <1>1, <1>2, <1>3, <1>7, <1>8 DEF ForkInv, Flow, Placed
  <1>11. OneThreadPerJob' BY <1>6 DEF ForkInv, Flow, OneThreadPerJob
  <1>12. AllCreated' BY <1>1, <1>2, <1>3, <1>7, <1>8 DEF ForkInv, Flow, AllCreated
  <1>13. Counted'
    <2>1. Len(mergeQ) \in Nat /\ Len(fuzzQ) \in Nat BY DEF ForkInv, ForkTypes
    <2> QED BY <1>1, <1>3, <1>8, <1>9, <2>1, RunningFinite DEF ForkInv, Flow, Counted
  <1>14. Starting'
    <2>1. ~(main \in {"start", "spawn"} /\ t >= jobId) BY <1>1 DEF ForkInv, Flow, Starting
    <2> QED BY <1>1, <1>4, <2>1 DEF ForkInv, Flow, Starting
  <1> QED BY <1>10, <1>11, <1>12, <1>13, <1>14 DEF Flow

(* The main thread's steps leave the jobs with the threads alone.          *)
LEMMA RunningUnchanged ==
    ASSUME \A t \in ForkThreads : worker'[t].pc = "run" \/ worker[t].pc = "run" => worker'[t] = worker[t],
           OneThreadPerJob
    PROVE  RunningJobs' = RunningJobs /\ JobsRunning' = JobsRunning /\ OneThreadPerJob'
  <1>1. RunningJobs' = RunningJobs /\ \A t \in RunningJobs : worker'[t] = worker[t]
    BY DEF RunningJobs
  <1>2. JobsRunning' = JobsRunning
    <2>1. JobsRunning' = {worker'[u].job : u \in RunningJobs'} BY DEF JobsRunning, JobsOf
    <2>2. JobsRunning = {worker[u].job : u \in RunningJobs} BY DEF JobsRunning, JobsOf
    <2> QED BY <1>1, <2>1, <2>2
  <1> QED BY <1>1, <1>2 DEF OneThreadPerJob

LEMMA CreatedJobIsNew ==
    ASSUME ForkInv, Looping, CreateNewJob
    PROVE  /\ Len(fuzzQ') = Len(fuzzQ) + 1 /\ Range(fuzzQ') = Range(fuzzQ) \cup {jobId}
           /\ IsInjective(fuzzQ')
           /\ jobId \notin Range(fuzzQ) \cup Range(mergeQ) \cup JobsRunning \cup JobsHeld
           /\ jobId' = jobId + 1
  <1>1. jobId \in Nat \ {0} /\ fuzzQ \in Seq(Nat) BY DEF ForkInv, ForkTypes
  <1>2. jobId \notin 1 .. jobId - 1 BY <1>1
  <1>3. jobId \notin Range(fuzzQ) \cup Range(mergeQ) \cup JobsRunning \cup JobsHeld
    BY <1>2 DEF ForkInv, Flow, AllCreated
  <1>4. fuzzQ' = Append(fuzzQ, jobId) /\ jobId' = jobId + 1 BY DEF CreateNewJob
  <1>5. IsInjective(fuzzQ) BY DEF ForkInv, Flow, Placed
  <1> QED BY <1>1, <1>3, <1>4, <1>5, PushJob

LEMMA SpawnKeepsFlow == ForkInv /\ Spawn => Flow'
  <1> SUFFICES ASSUME ForkInv, Spawn PROVE Flow'
    OBVIOUS
  <1>1. /\ Looping /\ CreateNewJob /\ main = "spawn"
        /\ UNCHANGED <<mergeQ, job>>
        /\ main' = IF jobId = NumForkJobs THEN "pop" ELSE "spawn"
    BY DEF Spawn, Looping
  <1>2. /\ jobId \in 1 .. NumForkJobs /\ jobId \in ForkThreads
        /\ \A t \in ForkThreads : t >= jobId => worker[t].pc = "none"
    BY <1>1, ForkAssumption DEF ForkInv, ForkTypes, Flow, Starting, ForkThreads
  <1>3. /\ worker'[jobId].pc = "pop" /\ worker[jobId].pc = "none"
        /\ \A t \in ForkThreads \ {jobId} : worker'[t] = worker[t]
    BY <1>2 DEF Spawn, ForkInv, ForkTypes
  <1>4. JobsRunning' = JobsRunning /\ OneThreadPerJob'
    BY <1>1, <1>3, RunningUnchanged DEF ForkInv, Flow
  <1>5. JobsHeld = {} /\ JobsHeld' = {} BY <1>1 DEF JobsHeld
  <1>6. Placed(fuzzQ, mergeQ, JobsRunning, JobsHeld)'
    BY <1>1, <1>4, <1>5, CreatedJobIsNew DEF ForkInv, Flow, Placed
  <1>7. AllCreated'
    <2>1. jobId <= MaxJobs /\ jobId \in Nat \ {0} BY <1>2, ForkAssumption
    <2> QED BY <1>1, <1>4, <1>5, <2>1, CreatedJobIsNew DEF ForkInv, Flow, AllCreated
  <1>8. Counted'
    <2>1. Len(mergeQ) \in Nat /\ Len(fuzzQ) \in Nat /\ jobId \in Nat BY DEF ForkInv, ForkTypes
    <2>2. Len(fuzzQ') = Len(fuzzQ) + 1 /\ jobId' = jobId + 1 /\ mergeQ' = mergeQ
      BY <1>1, CreatedJobIsNew
    <2>3. Counted BY <1>1 DEF ForkInv, Flow
    <2>4. Cardinality(JobsRunning) \in Nat /\ Cardinality(JobsHeld) \in Nat
      BY <1>1, RunningFinite
    <2>5. main = "spawn" /\ main' \in {"spawn", "pop"} /\ (main' = "pop" <=> jobId = NumForkJobs)
      BY <1>1
    <2>6. NumForkJobs \in Nat BY ForkAssumption
    <2> QED BY <1>4, <1>5, <2>1, <2>2, <2>3, <2>4, <2>5, <2>6 DEF Counted
  <1>9. Starting'
    BY <1>1, <1>2, <1>3, CreatedJobIsNew, ForkAssumption DEF Starting, ForkThreads
  <1> QED BY <1>4, <1>6, <1>7, <1>8, <1>9 DEF Flow

LEMMA PopResultKeepsFlow == ForkInv /\ PopResult /\ Looping' => Flow'
  <1> SUFFICES ASSUME ForkInv, PopResult, Looping' PROVE Flow'
    OBVIOUS
  <1> DEFINE j == Head(mergeQ)
  <1>1. /\ Looping /\ main = "pop" /\ mergeQ # <<>> /\ mergeQ \in Seq(Nat)
        /\ job' = j /\ mergeQ' = Tail(mergeQ) /\ main' = "merge"
        /\ UNCHANGED <<fuzzQ, worker, jobId>>
    BY DEF PopResult, Looping, ForkInv, ForkTypes
  <1>2. /\ j \in Range(mergeQ) /\ Len(mergeQ) = Len(mergeQ') + 1 /\ Len(mergeQ') \in Nat
        /\ IsInjective(mergeQ') /\ Range(mergeQ') = Range(mergeQ) \ {j}
    BY <1>1, PopJobFrom DEF ForkInv, Flow, Placed
  <1>3. JobsHeld = {} /\ JobsHeld' = {j} BY <1>1 DEF JobsHeld
  <1>4. JobsRunning' = JobsRunning /\ OneThreadPerJob'
    BY <1>1, RunningUnchanged DEF ForkInv, Flow
  <1> HIDE DEF j
  <1>5. Placed(fuzzQ, mergeQ, JobsRunning, JobsHeld)'
    BY <1>1, <1>2, <1>3, <1>4 DEF ForkInv, Flow, Placed
  <1>6. AllCreated' BY <1>1, <1>2, <1>3, <1>4 DEF ForkInv, Flow, AllCreated
  <1>7. Counted'
    <2>1. Len(fuzzQ) \in Nat BY DEF ForkInv, ForkTypes
    <2>2. Cardinality(JobsHeld) = 0 /\ Cardinality(JobsHeld') = 1
      BY <1>3, FS_EmptySet, FS_Singleton
    <2> QED BY <1>1, <1>2, <1>4, <2>1, <2>2, RunningFinite DEF ForkInv, Flow, Counted
  <1>8. Starting' BY <1>1 DEF Starting
  <1> QED BY <1>4, <1>5, <1>6, <1>7, <1>8 DEF Flow

LEMMA ContinueKeepsFlow == ForkInv /\ Continue => Flow'
  <1> SUFFICES ASSUME ForkInv, Continue PROVE Flow'
    OBVIOUS
  <1>1. /\ Looping /\ CreateNewJob /\ main = "decide" /\ jobId <= MaxJobs /\ main' = "pop"
        /\ UNCHANGED <<mergeQ, worker>>
    BY DEF Continue, Looping
  <1>2. JobsHeld = {job} /\ JobsHeld' = {} BY <1>1 DEF JobsHeld
  <1>3. JobsRunning' = JobsRunning /\ OneThreadPerJob'
    BY <1>1, RunningUnchanged DEF ForkInv, Flow
  <1>4. jobId \in Nat \ {0} BY DEF ForkInv, ForkTypes
  <1>5. Placed(fuzzQ, mergeQ, JobsRunning, JobsHeld)'
    BY <1>1, <1>2, <1>3, CreatedJobIsNew DEF ForkInv, Flow, Placed
  <1>6. AllCreated'
    BY <1>1, <1>2, <1>3, <1>4, CreatedJobIsNew, ForkAssumption DEF ForkInv, Flow, AllCreated
  <1>7. Counted'
    <2>1. Len(mergeQ) \in Nat /\ Len(fuzzQ) \in Nat BY DEF ForkInv, ForkTypes
    <2>2. Cardinality(JobsHeld) = 1 /\ Cardinality(JobsHeld') = 0
      BY <1>2, FS_EmptySet, FS_Singleton
    <2> QED BY <1>1, <1>3, <2>1, <2>2, CreatedJobIsNew, RunningFinite DEF ForkInv, Flow, Counted
  <1>8. Starting' BY <1>1 DEF Starting
  <1> QED BY <1>3, <1>5, <1>6, <1>7, <1>8 DEF Flow

LEMMA ForkInvStep == ForkInv /\ [ForkNext]_forkVars => ForkInv'
  <1> SUFFICES ASSUME ForkInv, [ForkNext]_forkVars PROVE ForkInv'
    OBVIOUS
  <1>1. ForkTypes' BY ForkTypesStep DEF ForkInv
  <1> SUFFICES ASSUME Looping' PROVE Flow'
    BY <1>1 DEF ForkInv
  <1>2. ASSUME UNCHANGED <<fuzzQ, mergeQ, worker, jobId, job>>, Looping,
               \/ main' = main
               \/ main = "start" /\ main' = "spawn"
               \/ main = "merge" /\ main' = "decide"
        PROVE  Flow'
    <2>1. JobsRunning' = JobsRunning /\ OneThreadPerJob'
      BY <1>2, RunningUnchanged DEF ForkInv, Flow
    <2>2. JobsHeld' = JobsHeld BY <1>2 DEF JobsHeld
    <2> QED BY <1>2, <2>1, <2>2 DEF ForkInv, Flow, Placed, AllCreated, Counted, Starting
  <1>3. CASE MergeSeeds BY <1>2, <1>3 DEF MergeSeeds, Looping
  <1>4. CASE Spawn BY <1>4, SpawnKeepsFlow
  <1>5. CASE PopResult BY <1>5, PopResultKeepsFlow
  <1>6. CASE RunOneMergeJob BY <1>2, <1>6 DEF RunOneMergeJob, Looping
  <1>7. CASE Continue BY <1>7, ContinueKeepsFlow
  <1>8. CASE StopFork \/ StopJobs \/ JoinThreads \/ ForkExitsGracefully \/ MergeFails
    <2>1. main' \in {"stop", "join", "exited"}
      BY <1>8 DEF StopFork, StopJobs, JoinThreads, ForkExitsGracefully, MergeFails
    <2> QED BY <2>1 DEF Looping
  <1>9. ASSUME NEW t \in ForkThreads, ThreadStep(t) PROVE Flow'
    <2>1. main' = main BY <1>9 DEF ThreadStep, PopJob, ForkJobEnds
    <2>2. Looping BY <2>1 DEF Looping
    <2> QED BY <1>9, <2>2, PopJobKeepsFlow, JobEndsKeepsFlow DEF ThreadStep
  <1>10. CASE UNCHANGED forkVars BY <1>2, <1>10 DEF forkVars, Looping
  <1> QED BY <1>3, <1>4, <1>5, <1>6, <1>7, <1>8, <1>9, <1>10 DEF ForkNext, MainStep

LEMMA ForkInvInit == ForkInit => ForkInv
  <1> SUFFICES ASSUME ForkInit PROVE ForkInv
    OBVIOUS
  <1>1. fuzzQ = <<>> /\ mergeQ = <<>> /\ main = "start" /\ jobId = 1 BY DEF ForkInit
  <1>2. worker = [t \in ForkThreads |-> [pc |-> "none", job |-> 0]] BY DEF ForkInit, At, NullJob
  <1>3. RunningJobs = {} BY <1>2 DEF RunningJobs
  <1>4. JobsRunning = {} /\ JobsHeld = {} BY <1>1, <1>3 DEF JobsRunning, JobsOf, JobsHeld
  <1>5. /\ fuzzQ \in Seq(Nat) /\ mergeQ \in Seq(Nat) /\ Len(fuzzQ) = 0 /\ Len(mergeQ) = 0
        /\ Range(fuzzQ) = {} /\ Range(mergeQ) = {} /\ IsInjective(fuzzQ) /\ IsInjective(mergeQ)
    BY <1>1 DEF Range, IsInjective
  <1>6. ForkTypes BY <1>1, <1>2, <1>5 DEF ForkTypes
  <1>7. Placed(fuzzQ, mergeQ, JobsRunning, JobsHeld) /\ OneThreadPerJob
    BY <1>3, <1>4, <1>5 DEF Placed, OneThreadPerJob
  <1>8. AllCreated BY <1>1, <1>4, <1>5, ForkAssumption DEF AllCreated
  <1>9. Counted BY <1>1, <1>4, <1>5, FS_EmptySet DEF Counted
  <1>10. Starting BY <1>1, <1>2, ForkAssumption DEF Starting
  <1> QED BY <1>6, <1>7, <1>8, <1>9, <1>10 DEF ForkInv, Flow

-----------------------------------------------------------------------------
(* The places as the one sequence of JobsInFlight *)

LEMMA InOneSequence ==
    ASSUME NEW s \in Seq(Nat), NEW t \in Seq(Nat),
           IsInjective(s), IsInjective(t), Range(s) \cap Range(t) = {}
    PROVE  /\ s \o t \in Seq(Nat) /\ IsInjective(s \o t)
           /\ Range(s \o t) = Range(s) \cup Range(t)
           /\ Len(s \o t) = Len(s) + Len(t)
  <1> DEFINE m == Len(s)
             n == Len(t)
             st == s \o t
  <1>1. /\ m \in Nat /\ n \in Nat /\ DOMAIN s = 1 .. m /\ DOMAIN t = 1 .. n
        /\ st \in Seq(Nat) /\ DOMAIN st = 1 .. m + n /\ Len(st) = m + n
        /\ \A i \in 1 .. m : st[i] = s[i]
        /\ \A i \in 1 .. n : st[m + i] = t[i]
    BY ConcatProperties
  <1> HIDE DEF m, n, st
  <1>2. \A k \in 1 .. m + n : k \in 1 .. m \/ (k - m \in 1 .. n /\ st[k] = t[k - m])
    <2> TAKE k \in 1 .. m + n
    <2>1. CASE k <= m BY <1>1, <2>1
    <2>2. CASE k > m
      <3>1. k - m \in 1 .. n /\ m + (k - m) = k BY <1>1, <2>2
      <3> QED BY <1>1, <3>1
    <2> QED BY <1>1, <2>1, <2>2
  <1>a. (\A k \in 1 .. m : k \in 1 .. m + n) /\ (\A k \in 1 .. n : m + k \in 1 .. m + n)
    <2>1. \A x, y \in Nat : /\ \A k \in 1 .. x : k \in 1 .. x + y
                            /\ \A k \in 1 .. y : x + k \in 1 .. x + y
      OBVIOUS
    <2> QED BY Zenon, <1>1, <2>1
  <1>3. \A k \in 1 .. m : s[k] \in Range(s) BY <1>1 DEF Range
  <1>4. \A k \in 1 .. n : t[k] \in Range(t) BY <1>1 DEF Range
  <1>5. Range(st) = Range(s) \cup Range(t)
    <2>1. Range(s) \cup Range(t) \subseteq Range(st)
      <3>1. Range(s) \subseteq Range(st) BY <1>1, <1>a DEF Range
      <3>2. Range(t) \subseteq Range(st) BY <1>1, <1>a DEF Range
      <3> QED BY <3>1, <3>2
    <2>2. Range(st) \subseteq Range(s) \cup Range(t)
      <3>1. \A k \in 1 .. m + n : st[k] \in Range(s) \cup Range(t) BY <1>1, <1>2, <1>3, <1>4
      <3> QED BY <1>1, <3>1 DEF Range
    <2> QED BY <2>1, <2>2
  <1>6. IsInjective(st)
    <2> SUFFICES ASSUME NEW i \in 1 .. m + n, NEW j \in 1 .. m + n, st[i] = st[j] PROVE i = j
      BY <1>1 DEF IsInjective
    <2>1. CASE i \in 1 .. m /\ j \in 1 .. m BY <1>1, <2>1 DEF IsInjective
    <2>2. CASE i \in 1 .. m /\ j \notin 1 .. m BY <1>1, <1>2, <1>3, <1>4, <2>2
    <2>3. CASE i \notin 1 .. m /\ j \in 1 .. m BY <1>1, <1>2, <1>3, <1>4, <2>3
    <2>4. CASE i \notin 1 .. m /\ j \notin 1 .. m
      <3>1. i - m \in 1 .. n /\ j - m \in 1 .. n /\ t[i - m] = t[j - m] BY <1>2, <2>4
      <3>2. i - m = j - m BY <1>1, <3>1 DEF IsInjective
      <3> QED BY <1>1, <3>2
    <2> QED BY <2>1, <2>2, <2>3, <2>4
  <1> QED BY <1>1, <1>5, <1>6 DEF m, n, st

LEMMA SetAsSequence ==
    ASSUME NEW S \in SUBSET Nat, IsFiniteSet(S)
    PROVE  /\ SetToSeq(S) \in Seq(Nat) /\ IsInjective(SetToSeq(S))
           /\ Range(SetToSeq(S)) = S /\ Len(SetToSeq(S)) = Cardinality(S)
  <1> DEFINE n == Cardinality(S)
             Listed(f) == f \in [1 .. n -> S] /\ IsInjective(f)
  <1>1. n \in Nat /\ \E f : Listed(f)
    BY FS_CardinalityType DEF ExistsBijection, Bijection, Injection
  <1> DEFINE f == SetToSeq(S)
  <1>2. Listed(f) BY <1>1 DEF SetToSeq
  <1> HIDE DEF n, f
  <1>3. f \in Seq(Nat) /\ Len(f) = n
    <2>1. f \in [1 .. n -> Nat] BY <1>2
    <2> QED BY <1>1, <2>1
  <1>4. Range(f) = S
    <2>1. f \in Injection(1 .. n, S) BY <1>2 DEF Injection
    <2>2. Cardinality(1 .. n) = n /\ IsFiniteSet(1 .. n) BY <1>1, FS_Interval
    <2>3. f \in Surjection(1 .. n, S) BY <2>1, <2>2, FS_Injection DEF n
    <2> QED BY <1>2, <2>3 DEF Surjection, Range
  <1> QED BY <1>2, <1>3, <1>4 DEF n, f

LEMMA ForkInvInFlight == ForkInv => JobsInFlight
  <1> SUFFICES ASSUME ForkInv, main \in {"pop", "merge", "decide"}
               PROVE  LET onTheWay == fuzzQ \o mergeQ \o SetToSeq({worker[t].job : t \in RunningJobs})
                                                     \o (IF main = "pop" THEN <<>> ELSE <<job>>)
                      IN  IsInjective(onTheWay) /\ Len(onTheWay) = NumForkJobs /\ Range(onTheWay) \subseteq Jobs
    BY DEF JobsInFlight
  <1>1. Looping /\ Flow BY DEF ForkInv, Looping
  <1>2. {worker[t].job : t \in RunningJobs} = JobsRunning BY DEF JobsRunning, JobsOf
  <1>3. /\ JobsRunning \in SUBSET Nat /\ JobsHeld \in SUBSET Nat
        /\ Range(fuzzQ) \cup Range(mergeQ) \cup JobsRunning \cup JobsHeld \subseteq Jobs
    BY <1>1, ForkAssumption DEF Flow, AllCreated, ForkInv, ForkTypes, Jobs
  <1> DEFINE run == SetToSeq(JobsRunning)
             held == IF main = "pop" THEN <<>> ELSE <<job>>
             two == fuzzQ \o mergeQ
             three == two \o run
             all == three \o held
  <1>4. /\ run \in Seq(Nat) /\ IsInjective(run)
        /\ Range(run) = JobsRunning /\ Len(run) = Cardinality(JobsRunning)
    BY <1>1, <1>3, RunningFinite, SetAsSequence
  <1>5. /\ held \in Seq(Nat) /\ IsInjective(held)
        /\ Range(held) = JobsHeld /\ Len(held) = Cardinality(JobsHeld)
    <2>1. CASE main = "pop"
      <3>1. held = <<>> /\ JobsHeld = {} BY <2>1 DEF JobsHeld
      <3>2. Range(<<>>) = {} /\ IsInjective(<<>>) BY DEF Range, IsInjective
      <3> QED BY <3>1, <3>2, FS_EmptySet
    <2>2. CASE main # "pop"
      <3>1. held = <<job>> /\ JobsHeld = {job} BY <2>2 DEF JobsHeld
      <3>2. job \in Nat BY <1>3, <3>1
      <3>3. DOMAIN <<job>> = {1} OBVIOUS
      <3>4. Range(<<job>>) = {job} /\ IsInjective(<<job>>) BY <3>3 DEF Range, IsInjective
      <3>5. <<job>> \in Seq(Nat) /\ Len(<<job>>) = 1 BY <3>2
      <3>6. Cardinality(JobsHeld) = 1 BY <3>1, FS_Singleton
      <3> HIDE DEF held
      <3>7. held \in Seq(Nat) /\ IsInjective(held) /\ Range(held) = {job} /\ Len(held) = 1
        BY <3>1, <3>4, <3>5
      <3> QED BY <3>1, <3>6, <3>7
    <2> QED BY <2>1, <2>2
  <1>6. fuzzQ \in Seq(Nat) /\ mergeQ \in Seq(Nat) BY DEF ForkInv, ForkTypes
  <1> HIDE DEF run, held
  <1>7. /\ two \in Seq(Nat) /\ IsInjective(two) /\ Range(two) = Range(fuzzQ) \cup Range(mergeQ)
        /\ Len(two) = Len(fuzzQ) + Len(mergeQ)
    BY <1>1, <1>6, InOneSequence DEF Flow, Placed
  <1> HIDE DEF two
  <1>8. /\ three \in Seq(Nat) /\ IsInjective(three) /\ Range(three) = Range(two) \cup JobsRunning
        /\ Len(three) = Len(two) + Len(run)
    <2>1. Range(two) \cap Range(run) = {} BY <1>1, <1>4, <1>7 DEF Flow, Placed
    <2> QED BY <1>4, <1>7, <2>1, InOneSequence
  <1> HIDE DEF three
  <1>9. /\ IsInjective(all) /\ Range(all) = Range(three) \cup JobsHeld
        /\ Len(all) = Len(three) + Len(held)
    <2>1. Range(three) \cap Range(held) = {} BY <1>1, <1>5, <1>7, <1>8 DEF Flow, Placed
    <2> QED BY <1>5, <1>8, <2>1, InOneSequence
  <1>10. Range(all) \subseteq Jobs BY <1>3, <1>7, <1>8, <1>9
  <1>11. Len(all) = NumForkJobs
    BY <1>1, <1>4, <1>5, <1>7, <1>8, <1>9 DEF Flow, Counted
  <1>12. fuzzQ \o mergeQ \o SetToSeq({worker[t].job : t \in RunningJobs})
              \o (IF main = "pop" THEN <<>> ELSE <<job>>) = all
    BY <1>2 DEF two, three, run, held
  <1> HIDE DEF all
  <1> QED BY <1>9, <1>10, <1>11, <1>12

LEMMA ForkInvariance == ForkSpec => []ForkInv
  BY ForkInvInit, ForkInvStep, PTL DEF ForkSpec

(* FuzzWithFork and its WorkerThread, for any number of threads and jobs   *)
(* and any interleaving: while the main loop runs there is one job per     *)
(* thread on its way, in one place only.                                   *)
THEOREM OneJobPerThread == ForkSpec => []JobsInFlight
  BY ForkInvariance, ForkInvInFlight, PTL

-----------------------------------------------------------------------------
(* The types of the fork loop.  Also while the jobs are stopped, the       *)
(* numbers on the queues stay those of jobs.                               *)

JobOrNull == Jobs \cup {NullJob}

ForkBounds ==
    /\ fuzzQ \in Seq(JobOrNull) /\ mergeQ \in Seq(JobOrNull)
    /\ worker \in [ForkThreads -> [pc : {"none", "pop", "run", "end"}, job : JobOrNull]]
    /\ job \in JobOrNull /\ jobId \in 1 .. MaxJobs + 1
    /\ found \in [Jobs -> SUBSET Inputs] /\ files \subseteq Inputs

LEMMA AddStaysInInputs ==
    ASSUME NEW S \in SUBSET Inputs, files \subseteq Inputs, Add(S) \/ AddCutOff(S)
    PROVE  files' \subseteq Inputs
  <1>1. CASE Add(S)
    <2>1. PICK R \in SUBSET S, N \in SUBSET FeaturesOfAll(S) : \E C \in SUBSET R : files' = files \cup C
      BY <1>1 DEF Add
    <2> QED BY <2>1
  <1>2. CASE AddCutOff(S)
    <2>1. PICK C \in SUBSET S : files' = files \cup C BY <1>2 DEF AddCutOff
    <2> QED BY <2>1
  <1> QED BY <1>1, <1>2

LEMMA CreatedJobIsBounded ==
    ASSUME ForkBounds, CreateNewJob, jobId <= MaxJobs
    PROVE  fuzzQ' \in Seq(JobOrNull) /\ jobId' \in 1 .. MaxJobs + 1
  <1>1. jobId \in Nat /\ jobId >= 1 /\ MaxJobs \in Nat BY ForkAssumption DEF ForkBounds
  <1>2. jobId \in JobOrNull BY <1>1 DEF JobOrNull, Jobs
  <1>3. fuzzQ \in Seq(JobOrNull) BY DEF ForkBounds
  <1>4. Append(fuzzQ, jobId) \in Seq(JobOrNull) BY <1>2, <1>3
  <1> QED BY <1>1, <1>4 DEF CreateNewJob

LEMMA ForkBoundsStep == ForkInv /\ ForkBounds /\ [ForkNext]_forkVars => ForkBounds'
  <1> SUFFICES ASSUME ForkInv, ForkBounds, [ForkNext]_forkVars PROVE ForkBounds'
    OBVIOUS
  <1> USE DEF envVars
  <1>1. CASE MergeSeeds
    <2>1. files' \subseteq Inputs
      BY <1>1, ForkAssumption, AddStaysInInputs DEF MergeSeeds, ForkBounds
    <2> QED BY <1>1, <2>1 DEF MergeSeeds, ForkBounds
  <1>2. CASE Spawn
    <2>1. jobId <= NumForkJobs BY <1>2 DEF Spawn, ForkInv, Looping, Flow, Starting
    <2>2. jobId <= MaxJobs BY <2>1, ForkAssumption DEF ForkBounds
    <2>3. CreateNewJob BY <1>2 DEF Spawn
    <2>4. fuzzQ' \in Seq(JobOrNull) /\ jobId' \in 1 .. MaxJobs + 1 BY <2>2, <2>3, CreatedJobIsBounded
    <2>5. worker' \in [ForkThreads -> [pc : {"none", "pop", "run", "end"}, job : JobOrNull]]
      BY <1>2 DEF Spawn, ForkBounds
    <2> QED BY <1>2, <2>4, <2>5 DEF Spawn, ForkBounds
  <1>3. CASE PopResult
    <2>1. Head(mergeQ) \in JobOrNull /\ Tail(mergeQ) \in Seq(JobOrNull)
      BY <1>3 DEF PopResult, ForkBounds
    <2> QED BY <1>3, <2>1 DEF PopResult, ForkBounds
  <1>4. CASE RunOneMergeJob
    <2>1. job \in Jobs
      <3>1. job \in 1 .. jobId - 1 /\ jobId - 1 <= MaxJobs
        BY <1>4 DEF RunOneMergeJob, ForkInv, Looping, Flow, AllCreated, JobsHeld
      <3> QED BY <3>1, ForkAssumption DEF Jobs, ForkBounds
    <2>2. Candidates(job) \in SUBSET Inputs BY <2>1 DEF Candidates, ForkBounds
    <2>3. files' \subseteq Inputs BY <1>4, <2>2, AddStaysInInputs DEF RunOneMergeJob, ForkBounds
    <2>4. found' \in [Jobs -> SUBSET Inputs] BY <1>4 DEF RunOneMergeJob, ForkBounds
    <2> QED BY <1>4, <2>3, <2>4 DEF RunOneMergeJob, ForkBounds
  <1>5. CASE Continue
    <2>1. jobId <= MaxJobs /\ CreateNewJob BY <1>5 DEF Continue
    <2>2. fuzzQ' \in Seq(JobOrNull) /\ jobId' \in 1 .. MaxJobs + 1 BY <2>1, CreatedJobIsBounded
    <2> QED BY <1>5, <2>2 DEF Continue, ForkBounds, JobOrNull
  <1>6. CASE StopFork \/ ForkExitsGracefully \/ MergeFails
    BY <1>6 DEF StopFork, ForkExitsGracefully, MergeFails, ForkBounds
  <1>7. CASE StopJobs
    <2>1. NullJob \in JobOrNull BY DEF JobOrNull
    <2>2. \A q \in Seq(JobOrNull) : Append(q, NullJob) \in Seq(JobOrNull) BY <2>1
    <2> QED BY <1>7, <2>1, <2>2 DEF StopJobs, ForkBounds
  <1>8. CASE JoinThreads BY <1>8 DEF JoinThreads, ForkBounds
  <1>9. ASSUME NEW t \in ForkThreads, PopJob(t) PROVE ForkBounds'
    <2>1. Head(fuzzQ) \in JobOrNull /\ Tail(fuzzQ) \in Seq(JobOrNull)
      BY <1>9 DEF PopJob, ForkBounds
    <2>2. worker' \in [ForkThreads -> [pc : {"none", "pop", "run", "end"}, job : JobOrNull]]
      BY <1>9, <2>1 DEF PopJob, ForkBounds, At
    <2> QED BY <1>9, <2>1, <2>2 DEF PopJob, ForkBounds
  <1>10. ASSUME NEW t \in ForkThreads, ForkJobEnds(t) PROVE ForkBounds'
    <2>1. PICK F \in Findings : found' = [found EXCEPT ![worker[t].job] = F]
      BY <1>10 DEF ForkJobEnds
    <2>2. F \in SUBSET Inputs BY ForkAssumption
    <2>3. found' \in [Jobs -> SUBSET Inputs] BY <2>1, <2>2 DEF ForkBounds
    <2>4. worker[t].job \in JobOrNull BY DEF ForkBounds
    <2>5. Append(mergeQ, worker[t].job) \in Seq(JobOrNull) BY <2>4 DEF ForkBounds
    <2>6. worker' \in [ForkThreads -> [pc : {"none", "pop", "run", "end"}, job : JobOrNull]]
      BY <1>10 DEF ForkJobEnds, ForkBounds, At, JobOrNull
    <2> QED BY <1>10, <2>3, <2>5, <2>6 DEF ForkJobEnds, ForkBounds
  <1>11. CASE UNCHANGED forkVars BY <1>11 DEF forkVars, ForkBounds
  <1> QED
    BY <1>1, <1>2, <1>3, <1>4, <1>5, <1>6, <1>7, <1>8, <1>9, <1>10, <1>11
       DEF ForkNext, MainStep, ThreadStep

(* FuzzWithFork: everything on the queues and with the threads is a job    *)
(* that was created, or the null job that ends a thread.                   *)
THEOREM ForkStaysTyped == ForkSpec => []ForkTypeOK
  <1>1. ForkInit => ForkBounds
    <2> SUFFICES ASSUME ForkInit PROVE ForkBounds
      OBVIOUS
    <2>1. 1 \in 1 .. MaxJobs + 1 BY ForkAssumption
    <2>2. NullJob \in JobOrNull BY DEF JobOrNull
    <2>3. worker \in [ForkThreads -> [pc : {"none", "pop", "run", "end"}, job : JobOrNull]]
      BY <2>2 DEF ForkInit, At
    <2> QED BY <2>1, <2>2, <2>3 DEF ForkInit, ForkBounds
  <1>2. ForkInv /\ ForkBounds => ForkTypeOK
    <2> SUFFICES ASSUME ForkInv, ForkBounds PROVE ForkTypeOK
      OBVIOUS
    <2>1. \A q \in Seq(JobOrNull) : Range(q) \subseteq JobOrNull BY DEF Range
    <2> QED BY <2>1 DEF ForkTypeOK, ForkBounds, ForkInv, ForkTypes, JobOrNull
  <1> QED BY <1>1, <1>2, ForkBoundsStep, ForkInvariance, PTL DEF ForkSpec
=============================================================================
