------------------------ MODULE CrashResistantMerge ------------------------
(***************************************************************************)
(* libFuzzer's crash-resistant merge (FuzzerMerge.cpp).  The outer process *)
(* writes the names of the inputs to a control file and launches inner     *)
(* processes, one at a time.  An inner process continues after the last    *)
(* input that was started, appends STARTED before it runs an input and the *)
(* input's new features (FT) after it, and may die at any point.  When an  *)
(* inner process succeeds, or the attempts run out, the outer process      *)
(* chooses inputs from what the control file records.  The outer process   *)
(* may be killed too; the next merge finds the control file it left.       *)
(*                                                                         *)
(* Input numbers count from 1, those of the file from 0.  The COV lines    *)
(* only feed statistics and are left out.  STARTED lines are written at    *)
(* once (OF.flush).  The FT and COV lines of an input go through a buffer  *)
(* that empties itself when it is full: a process that is killed meanwhile *)
(* leaves them cut off, with no end of line, and what the next process     *)
(* appends is glued to them.                                               *)
(***************************************************************************)
EXTENDS FuzzTarget, Sequences, FiniteSets, SequencesExt

CONSTANTS
    InitialFeatures,  \* features the caller knows already
    Corpora,          \* the merges asked for: records of two sequences, old and new
    MaxMerges,        \* bound: merges started
    MaxMergeFaults    \* bound: processes killed or told to exit from outside

ASSUME MergeAssumption ==
    /\ MaxMerges \in Nat /\ MaxMergeFaults \in Nat
    /\ \A c \in Corpora : /\ c.old \in Seq(Inputs) /\ c.new \in Seq(Inputs)
                          /\ IsInjective(c.old \o c.new)

VARIABLES
    cf,           \* the control file: files, the length of the first corpus, log
    outer,        \* where the outer process is
    corpora,      \* what it was asked to merge
    attempts,     \* attempts left
    known,        \* KnownFiles: what an earlier control file recorded, in memory
    newFiles,     \* NewFiles, the result
    newFeatures,  \* NewFeatures
    inner,        \* the inner process: program counter, next input, features seen,
                  \* and (history) whether it started an input
    wasted,       \* history: inner processes of this merge that started none
    merges,       \* merges started (bound)
    mergeFaults   \* faults so far (bound)

outerVars == <<outer, corpora, attempts, known, newFiles, newFeatures>>
mergeVars == <<cf, outerVars, inner, wasted, merges, mergeFaults>>

-----------------------------------------------------------------------------
(* The control file *)

NoControlFile == [written |-> FALSE, files |-> <<>>, first |-> 0, log |-> <<>>]
TornControlFile == [NoControlFile EXCEPT !.written = TRUE]

(* A line is STARTED, FT (with its COV), CUT (an FT or COV line cut off at *)
(* the end of the file), GLUED (one the next STARTED was appended to,      *)
(* which Parse does not see then) or BAD (a cut or glued marker).          *)
Line(m, i, fts) == [mark |-> m, id |-> i, features |-> fts]
StartedLines(log) == {l \in DOMAIN log : log[l].mark = "STARTED"}

(* Merger::Parse accepts at least one file, STARTED lines that number the  *)
(* inputs in turn, and FT lines that follow the STARTED line of their      *)
(* input.                                                                  *)
Parses(c) ==
    /\ c.files # <<>>
    /\ c.first <= Len(c.files)
    /\ \A l \in DOMAIN c.log :
          IF c.log[l].mark = "STARTED"
          THEN /\ c.log[l].id = Cardinality(StartedLines(SubSeq(c.log, 1, l)))
               /\ c.log[l].id <= Len(c.files)
          ELSE /\ c.log[l].mark # "BAD"
               /\ l > 1
               /\ c.log[l - 1] = Line("STARTED", c.log[l].id, {})

FirstNotProcessedFile(c) == Cardinality(StartedLines(c.log)) + 1
Complete(c) == FirstNotProcessedFile(c) > Len(c.files)

(* The files with the features recorded for them, as records.              *)
FeatureLines(c, i) == {l \in DOMAIN c.log : c.log[l].mark # "STARTED" /\ c.log[l].id = i}
Files(c, ids) ==
    {[name |-> c.files[i], features |-> UNION {c.log[l].features : l \in FeatureLines(c, i)}] : i \in ids}
AllFiles(c) == Files(c, DOMAIN c.files)

(* The inputs of s that are not to be skipped, in their order.             *)
Without(s, skip) ==
    LET used == {i \in DOMAIN s : s[i] \notin Range(skip)}
        Nth(k) == CHOOSE i \in used : Cardinality({j \in used : j <= i}) = k
    IN  [k \in 1 .. Cardinality(used) |-> s[Nth(k)]]

WriteNewControlFile(old, new, skip) ==
    [written |-> TRUE, files |-> Without(old, skip) \o Without(new, skip),
     first |-> Len(Without(old, skip)), log |-> <<>>]

-----------------------------------------------------------------------------
(* Merger::Merge: smaller files first, then files with more new features;  *)
(* std::sort leaves the order of the rest open.                            *)

AllFeatures(files) == UNION {f.features : f \in files}

Before(a, b) ==
    \/ SizeOf[a.name] < SizeOf[b.name]
    \/ SizeOf[a.name] = SizeOf[b.name] /\ Cardinality(a.features) > Cardinality(b.features)

Sorted(S) ==
    {p \in [1 .. Cardinality(S) -> S] :
        /\ \A i, j \in DOMAIN p : i < j => p[i] # p[j] /\ ~Before(p[j], p[i])}

(* Mutated form: a file's features are added before it is looked at.       *)
GreedyAfterAdding(p) ==
    {p[i].name : i \in {i \in DOMAIN p : ~(p[i].features \subseteq UNION {p[j].features : j \in 1 .. i})}}

Greedy(p) ==
    {p[i].name : i \in {i \in DOMAIN p : ~(p[i].features \subseteq UNION {p[j].features : j \in 1 .. i - 1})}}

MergeResults(firstFiles, otherFiles) ==
    LET old == InitialFeatures \cup AllFeatures(firstFiles)
        rest == {[f EXCEPT !.features = @ \ old] : f \in otherFiles}
    IN  [files : {Greedy(p) : p \in Sorted(rest)}, features : {AllFeatures(rest)}]

-----------------------------------------------------------------------------
(* The outer process *)

NoInner == [pc |-> "none", at |-> 0, seen |-> {}, ranOne |-> FALSE]

MergeInit ==
    /\ cf = NoControlFile
    /\ outer = "idle"
    /\ corpora = [old |-> <<>>, new |-> <<>>]
    /\ attempts = 0
    /\ known = NoControlFile
    /\ newFiles = {}
    /\ newFeatures = {}
    /\ inner = NoInner
    /\ wasted = 0
    /\ merges = 0
    /\ mergeFaults = 0

Idle == outer \in {"idle", "done", "failed", "nothing"}

(* The control file found at the start decides how the merge begins.       *)
AlreadyDone(c) == Parses(cf) /\ Complete(cf) /\ Len(cf.files) = Len(c.old) + Len(c.new)
InProgress == Parses(cf) /\ ~Complete(cf)

StartMerge(c) ==
    /\ Idle
    /\ merges < MaxMerges
    /\ c.old \o c.new # <<>>
    /\ merges' = merges + 1
    /\ corpora' = c
    /\ newFiles' = {}
    /\ newFeatures' = {}
    /\ wasted' = 0
    /\ UNCHANGED inner

NothingToDo(c) ==
    /\ StartMerge(c)
    /\ AlreadyDone(c)
    /\ outer' = "nothing"
    /\ UNCHANGED <<cf, attempts, known, mergeFaults>>

(* Mutated form: one attempt less, as if the last input had been started.  *)
ResumeOneShort(c) ==
    /\ StartMerge(c)
    /\ InProgress
    /\ attempts' = Len(cf.files) - FirstNotProcessedFile(cf)
    /\ outer' = "attempt"
    /\ known' = NoControlFile
    /\ UNCHANGED <<cf, mergeFaults>>

Resume(c) ==
    /\ StartMerge(c)
    /\ InProgress
    /\ attempts' = Len(cf.files) - FirstNotProcessedFile(cf) + 1
    /\ outer' = "attempt"
    /\ known' = NoControlFile
    /\ UNCHANGED <<cf, mergeFaults>>

StartAfresh(c) ==
    /\ StartMerge(c)
    /\ ~AlreadyDone(c) /\ ~InProgress
    /\ known' = IF Parses(cf) THEN cf ELSE NoControlFile
    /\ cf' = WriteNewControlFile(c.old, c.new, known'.files)
    /\ attempts' = Len(cf'.files)
    /\ outer' = "attempt"
    /\ UNCHANGED mergeFaults

(* Mutated form: the child skips an input.                                 *)
LaunchInnerTooFar ==
    /\ outer = "attempt" /\ attempts > 0
    /\ Parses(cf)
    /\ inner' = [NoInner EXCEPT !.pc = "loop", !.at = FirstNotProcessedFile(cf) + 1]
    /\ outer' = "inner"
    /\ UNCHANGED <<cf, corpora, attempts, known, newFiles, newFeatures, wasted, merges, mergeFaults>>

LaunchInner ==
    /\ outer = "attempt" /\ attempts > 0
    /\ Parses(cf)
    /\ inner' = [NoInner EXCEPT !.pc = "loop", !.at = FirstNotProcessedFile(cf)]
    /\ outer' = "inner"
    /\ UNCHANGED <<cf, corpora, attempts, known, newFiles, newFeatures, wasted, merges, mergeFaults>>

(* The child cannot parse the control file either, and exits (ParseOrExit).*)
InnerCannotParse ==
    /\ outer = "attempt" /\ attempts > 0
    /\ ~Parses(cf)
    /\ attempts' = attempts - 1
    /\ UNCHANGED <<cf, outer, corpora, known, newFiles, newFeatures, inner, wasted, merges, mergeFaults>>

OutOfAttempts ==
    /\ outer = "attempt" /\ attempts = 0
    /\ outer' = "merge"
    /\ UNCHANGED <<cf, corpora, attempts, known, newFiles, newFeatures, inner, wasted, merges, mergeFaults>>

(* ParseOrExit: a control file without files, or that a kill damaged, is   *)
(* an "unexpected error".                                                  *)
Merge ==
    /\ outer = "merge"
    /\ IF Parses(cf)
       THEN /\ \E r \in MergeResults(Files(cf, 1 .. cf.first), Files(cf, cf.first + 1 .. Len(cf.files)) \cup AllFiles(known)) :
                  newFiles' = r.files /\ newFeatures' = r.features
            /\ outer' = "done"
       ELSE outer' = "failed" /\ UNCHANGED <<newFiles, newFeatures>>
    /\ UNCHANGED <<cf, corpora, attempts, known, inner, wasted, merges, mergeFaults>>

-----------------------------------------------------------------------------
(* The inner process: CrashResistantMergeInternalStep *)

(* Mutated form: the parent does not wait for the end of the child.        *)
InnerEndsUnnoticed(exitCode) ==
    /\ attempts' = attempts - 1
    /\ outer' = IF exitCode = 0 THEN "merge" ELSE "attempt"
    /\ UNCHANGED <<inner, wasted, corpora, known, newFiles, newFeatures, merges>>

InnerEnds(exitCode) ==
    /\ inner' = NoInner
    /\ wasted' = IF inner.ranOne THEN wasted ELSE wasted + 1
    /\ attempts' = attempts - 1
    /\ outer' = IF exitCode = 0 THEN "merge" ELSE "attempt"
    /\ UNCHANGED <<corpora, known, newFiles, newFeatures, merges>>

(* STARTED goes to the end of the file, wherever the last line ends.       *)
Begin ==
    /\ inner.pc = "loop" /\ inner.at <= Len(cf.files)
    /\ IF cf.log # <<>> /\ Last(cf.log).mark = "CUT"
       THEN \E m \in {"GLUED", "BAD"} : cf' = [cf EXCEPT !.log[Len(cf.log)].mark = m]
       ELSE cf' = [cf EXCEPT !.log = Append(@, Line("STARTED", inner.at, {}))]
    /\ inner' = [inner EXCEPT !.pc = "running", !.ranOne = TRUE]
    /\ UNCHANGED <<outerVars, wasted, merges, mergeFaults>>

NewFeatures == FeaturesOf[cf.files[inner.at]] \ inner.seen

RunsToItsEnd == inner.pc = "running" /\ cf.files[inner.at] \notin Killers

Record ==
    /\ RunsToItsEnd
    /\ cf' = [cf EXCEPT !.log = Append(@, Line("FT", inner.at, NewFeatures))]
    /\ inner' = [inner EXCEPT !.pc = "loop", !.at = @ + 1, !.seen = @ \cup NewFeatures]
    /\ UNCHANGED <<outerVars, wasted, merges, mergeFaults>>

Crash ==
    /\ inner.pc = "running" /\ cf.files[inner.at] \in Killers
    /\ InnerEnds(1)
    /\ UNCHANGED <<cf, mergeFaults>>

InnerDone ==
    /\ inner.pc = "loop" /\ inner.at > Len(cf.files)
    /\ InnerEnds(0)
    /\ UNCHANGED <<cf, mergeFaults>>

-----------------------------------------------------------------------------
(* Faults from outside: the memory limit or a signal ends the inner        *)
(* process at any point, before it starts an input (as does an input that  *)
(* can no longer be read) or while it writes what it recorded; a graceful  *)
(* exit (SIGUSR1) ends it between two inputs, with exit code 0; the outer  *)
(* process is killed, with the inner one, while it writes the control file *)
(* or later.                                                               *)

Fault ==
    /\ mergeFaults < MaxMergeFaults
    /\ mergeFaults' = mergeFaults + 1

InnerKilled ==
    /\ Fault
    /\ inner.pc # "none"
    /\ InnerEnds(1)
    /\ UNCHANGED cf

(* Some of the features are in the file, the last perhaps without all its  *)
(* digits; or all of them, and part of the COV line.                       *)
KilledRecording ==
    /\ Fault
    /\ RunsToItsEnd
    /\ \E m \in {"CUT", "BAD"}, F \in SUBSET NewFeatures, N \in {{}} \cup {{n} : n \in CutNumbers} :
          cf' = [cf EXCEPT !.log = Append(@, Line(m, inner.at, F \cup N))]
    /\ InnerEnds(1)

InnerExitsGracefully ==
    /\ Fault
    /\ inner.pc = "loop"
    /\ InnerEnds(0)
    /\ UNCHANGED cf

OuterKilled ==
    /\ Fault
    /\ ~Idle
    /\ outer' = "idle"
    /\ attempts' = 0 /\ known' = NoControlFile /\ inner' = NoInner /\ wasted' = 0
    /\ UNCHANGED <<cf, corpora, newFiles, newFeatures, merges>>

KilledWriting(c) ==
    /\ Fault
    /\ StartMerge(c)
    /\ ~AlreadyDone(c) /\ ~InProgress
    /\ cf' = TornControlFile
    /\ outer' = "idle"
    /\ attempts' = 0 /\ known' = NoControlFile

-----------------------------------------------------------------------------
MergeProgress ==
    LaunchInner \/ InnerCannotParse \/ OutOfAttempts \/ Merge \/ Begin \/ Record \/ Crash \/ InnerDone

MergeNext ==
    \/ \E c \in Corpora : NothingToDo(c) \/ Resume(c) \/ StartAfresh(c) \/ KilledWriting(c)
    \/ MergeProgress
    \/ InnerKilled \/ KilledRecording \/ InnerExitsGracefully \/ OuterKilled

MergeSpec == MergeInit /\ [][MergeNext]_mergeVars

-----------------------------------------------------------------------------
(* Properties *)

MergeTypeOK ==
    /\ cf.written \in BOOLEAN /\ cf.first \in Nat
    /\ Range(cf.files) \cup Range(known.files) \cup newFiles \subseteq Inputs
    /\ outer \in {"idle", "attempt", "inner", "merge", "done", "failed", "nothing"}
    /\ inner.pc \in {"none", "loop", "running"}
    /\ inner.pc = "none" <=> outer # "inner"

Marks(c) == {c.log[l].mark : l \in DOMAIN c.log}
Whole(c) == Marks(c) \subseteq {"STARTED", "FT"}

(* Whatever sequence of inner processes appended to it, and wherever they  *)
(* died, a control file that lists inputs can be parsed again, unless one  *)
(* died within the marker of a line, or was appended to by another after   *)
(* it died within a line.                                                  *)
ControlFileParses ==
    cf.files # <<>> /\ Marks(cf) \cap {"GLUED", "BAD"} = {} => Parses(cf)

(* The attempts granted at the start are enough ("Every inner process      *)
(* should execute at least one input"): of the inputs that no inner process*)
(* started each has an attempt left, which is not the one that a running   *)
(* inner process has used for the inputs it started; but for one per inner *)
(* process that was killed before it started any.                          *)
AttemptsSuffice ==
    outer \in {"attempt", "inner"} /\ Whole(cf) =>
        attempts + wasted >= Len(cf.files) - (FirstNotProcessedFile(cf) - 1) + (IF inner.ranOne THEN 1 ELSE 0)

(* The merge does what CorpusMerge promises.                               *)
RecordedNames(c) == {c.files[i] : i \in {i \in DOMAIN c.files : FeatureLines(c, i) # {}}}

Abstract == INSTANCE CorpusMerge WITH
    first <- {cf.files[i] : i \in 1 .. cf.first},
    waiting <- {cf.files[i] : i \in FirstNotProcessedFile(cf) .. Len(cf.files)},
    recorded <- RecordedNames(cf) \cup RecordedNames(known),
    chosen <- IF outer = "done" THEN <<newFiles, newFeatures>> ELSE <<>>,
    cutOff <- ~Whole(cf) \/ ~Whole(known)

MergeRefines == Abstract!Spec
=============================================================================
