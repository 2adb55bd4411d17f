------------------------------ MODULE FuzzLoop ------------------------------
(***************************************************************************)
(* libFuzzer's corpus (FuzzerCorpus.h) and fuzzing loop (FuzzerLoop.cpp):  *)
(* the seeds are run, then inputs of the corpus are mutated and run.  An   *)
(* input that shows a feature for the first time, or with a smaller size,  *)
(* joins the corpus and takes the feature over; an input that loses its    *)
(* last feature is evicted, with its file; a smaller input that has all    *)
(* features of the one it was mutated from replaces it.                    *)
(*                                                                         *)
(* A mutation may produce any input within the limit (ByteMutations has    *)
(* the mutations themselves).  Data flow traces, the focus function and    *)
(* what is printed are left out; so is what a crash writes, except for the *)
(* artifact of the current unit (CrashCallbacks has the callbacks).        *)
(***************************************************************************)
EXTENDS FuzzTarget, Integers, Sequences, FiniteSets, SequencesExt, FiniteSetsExt

CONSTANTS
    Leakers,                      \* inputs that leak memory
    SeedCorpora,                  \* sequences of seed inputs
    SeedsOnDisk,                  \* inputs that come from the output corpus directory
    kFeatureSetSize,              \* features are counted modulo this
    MaxInputLen,
    MutateDepth, MaxNumberOfRuns, \* the flags of the same names
    FlagSettings,                 \* what the others may be set to: records
    MaxWrites                     \* bound: files another process writes to the directory

Empty == "empty unit"   \* the unit of an evicted element, and no current unit

ASSUME FuzzAssumption ==
    /\ Empty \notin Inputs
    /\ Leakers \cup SeedsOnDisk \subseteq Inputs
    /\ SeedCorpora \subseteq Seq(Inputs) \ {<<>>}
    /\ \A u \in Inputs : SizeOf[u] \in 1 .. MaxInputLen
    /\ kFeatureSetSize \in Nat \ {0} /\ MutateDepth \in Nat \ {0}
    /\ MaxInputLen \in Nat \ {0} /\ MaxNumberOfRuns \in Nat /\ MaxWrites \in Nat
    /\ FlagSettings \subseteq [LenControl : Nat, Shrink : BOOLEAN, ReduceInputs : BOOLEAN,
                               ReduceDepth : BOOLEAN, DetectLeaks : BOOLEAN]

VARIABLES
    flags,      \* the flags given
    fpc,        \* where the loop is
    seeds,      \* seeds not run yet
    corpus,     \* Inputs: per element its unit, NumFeatures, MayDeleteFile, UniqFeatureSet
    owner,      \* SmallestElementPerFeature
    ownerSize,  \* InputSizesPerFeature, 0 for a feature not seen
    hashes,     \* Hashes
    disk,       \* the units in the output corpus directory
    unread,     \* those written since it was last read
    base,       \* index of the element being mutated
    unit,       \* CurrentUnitData
    depth,      \* mutations left in this round
    foundUniq,  \* FoundUniqFeatures
    maxLen,     \* TmpMaxMutationLen
    runs,       \* TotalNumberOfRuns
    lastUpdate, \* LastCorpusUpdateRun
    artifacts,  \* units written as artifacts
    writes      \* files written by another process (bound)

corpusVars == <<corpus, owner, ownerSize, hashes>>
roundVars == <<base, unit, depth, foundUniq>>
fuzzVars == <<flags, fpc, seeds, corpusVars, disk, unread, roundVars, maxLen, runs, lastUpdate, artifacts, writes>>

Slots == 0 .. kFeatureSetSize - 1
Slot(f) == f % kFeatureSetSize
Evicted(i) == corpus[i].unit = Empty
Active == {i \in DOMAIN corpus : corpus[i].features > 0}
MaxCorpusSize == Max({0} \cup {SizeOf[corpus[i].unit] : i \in {i \in DOMAIN corpus : ~Evicted(i)}})

(* floor of the binary logarithm                                           *)
Log(n) == Max({k \in 0 .. n : 2 ^ k <= n})
MinOf(m, n) == IF m < n THEN m ELSE n
MaxOf(m, n) == IF m > n THEN m ELSE n

-----------------------------------------------------------------------------
(* InputCorpus *)

(* AddFeature over the features of u: those it takes over, one per slot    *)
(* (CollectFeatures reports features in ascending order).                  *)
Taken(u) ==
    {f \in FeaturesOf[u] :
        /\ ownerSize[Slot(f)] = 0 \/ (flags.Shrink /\ ownerSize[Slot(f)] > SizeOf[u])
        /\ \A g \in FeaturesOf[u] : Slot(g) = Slot(f) => f <= g}

LostBy(i, u) == Cardinality({f \in Taken(u) : ownerSize[Slot(f)] > 0 /\ owner[Slot(f)] = i})

(* Mutated form: an element keeps its count when it loses features.        *)
AfterLossesUncounted(u) ==
    [i \in DOMAIN corpus |->
        IF LostBy(i, u) > 0 /\ corpus[i].features = LostBy(i, u)
        THEN [corpus[i] EXCEPT !.features = 0, !.unit = Empty]
        ELSE corpus[i]]

(* An element without features left is emptied and its file deleted.       *)
AfterLosses(u) ==
    [i \in DOMAIN corpus |->
        LET left == corpus[i].features - LostBy(i, u)
        IN  IF LostBy(i, u) > 0 /\ left = 0
            THEN [corpus[i] EXCEPT !.features = 0, !.unit = Empty]
            ELSE [corpus[i] EXCEPT !.features = left]]

DeletedBy(u) ==
    {corpus[i].unit : i \in {i \in DOMAIN corpus : /\ AfterLosses(u)[i].unit # corpus[i].unit
                                                   /\ corpus[i].mayDelete}}

AddToCorpus(u, mayDelete) ==
    /\ corpus' = Append(AfterLosses(u), [unit |-> u, features |-> Cardinality(Taken(u)),
                                         mayDelete |-> mayDelete, uniq |-> Taken(u)])
    /\ owner' = [s \in Slots |-> IF s \in {Slot(f) : f \in Taken(u)} THEN Len(corpus) + 1 ELSE owner[s]]
    /\ ownerSize' = [s \in Slots |-> IF s \in {Slot(f) : f \in Taken(u)} THEN SizeOf[u] ELSE ownerSize[s]]
    /\ hashes' = hashes \cup {u}
    /\ disk' = disk \ DeletedBy(u)

Replace(i, u) ==
    /\ corpus' = [corpus EXCEPT ![i].unit = u]
    /\ hashes' = (hashes \ {corpus[i].unit}) \cup {u}
    /\ disk' = IF corpus[i].mayDelete THEN disk \ {corpus[i].unit} ELSE disk
    /\ UNCHANGED <<owner, ownerSize>>

(* RunOne after the callback: the unit joins the corpus or replaces the    *)
(* element i it was mutated from (none for i = 0), or nothing is new.      *)
MayReplace(i, u) ==
    /\ flags.ReduceInputs /\ i > 0
    /\ corpus[i].uniq # {} /\ corpus[i].uniq \subseteq FeaturesOf[u]
    /\ SizeOf[corpus[i].unit] > SizeOf[u]

NewCoverage(i, u) == Taken(u) # {} \/ MayReplace(i, u)

RunOne(i, u, mayDelete) ==
    IF Taken(u) # {} THEN AddToCorpus(u, mayDelete)
    ELSE IF MayReplace(i, u) THEN Replace(i, u)
    ELSE UNCHANGED <<corpusVars, disk>>

(* The target crashes on u: its artifact is written, the process exits.    *)
CrashOn(u) ==
    /\ u \in Killers
    /\ artifacts' = artifacts \cup {u}
    /\ fpc' = "dead"
    /\ UNCHANGED <<corpusVars, disk>>

-----------------------------------------------------------------------------
FuzzInit ==
    /\ flags \in FlagSettings
    /\ fpc = "seeds"
    /\ seeds \in SeedCorpora
    /\ corpus = <<>>
    /\ owner = [s \in Slots |-> 0]
    /\ ownerSize = [s \in Slots |-> 0]
    /\ hashes = {}
    /\ disk = SeedsOnDisk \cap Range(seeds) /\ unread = {}
    /\ base = 0 /\ unit = Empty /\ depth = 0 /\ foundUniq = FALSE
    /\ maxLen = 0
    /\ runs = 1    \* the callback on the empty input
    /\ lastUpdate = 0
    /\ artifacts = {}
    /\ writes = 0

(* ReadAndExecuteSeedCorpora.  With leak detection a unit may be run a     *)
(* second time, and a leak ends the process.                               *)
Leaks(u) == flags.DetectLeaks /\ u \in Leakers

RunSeed ==
    /\ fpc = "seeds" /\ seeds # <<>>
    /\ runs' \in IF flags.DetectLeaks THEN {runs + 1, runs + 2} ELSE {runs + 1}
    /\ \/ CrashOn(Head(seeds)) /\ UNCHANGED seeds
       \/ /\ Head(seeds) \notin Killers
          /\ RunOne(0, Head(seeds), FALSE)
          /\ seeds' = Tail(seeds)
          /\ IF Leaks(Head(seeds))
             THEN artifacts' = artifacts \cup {Head(seeds)} /\ fpc' = "dead"
             ELSE UNCHANGED <<fpc, artifacts>>
    /\ UNCHANGED <<flags, unread, roundVars, maxLen, lastUpdate, writes>>

SeedsDone ==
    /\ fpc = "seeds" /\ seeds = <<>>
    /\ fpc' = IF corpus = <<>> THEN "dead" ELSE "head"
    /\ maxLen' = MinOf(MaxInputLen, MaxOf(4, MaxCorpusSize))
    /\ UNCHANGED <<flags, seeds, corpusVars, disk, unread, roundVars, runs, lastUpdate, artifacts, writes>>

-----------------------------------------------------------------------------
(* The loop.  At its head it may read the output corpus directory again,   *)
(* for what other processes wrote there, and stops at its limits.          *)

OtherProcessWrites ==
    /\ fpc \notin {"done", "dead"}
    /\ writes < MaxWrites
    /\ \E u \in Inputs \ disk :
          disk' = disk \cup {u} /\ unread' = unread \cup {u}
    /\ writes' = writes + 1
    /\ UNCHANGED <<flags, fpc, seeds, corpusVars, roundVars, maxLen, runs, lastUpdate, artifacts>>

RereadOutputCorpus ==
    /\ fpc = "head"
    /\ \E u \in (disk \cap unread) \ hashes :
          /\ unread' = unread \ {u}
          /\ \/ CrashOn(u)
             \/ u \notin Killers /\ RunOne(0, u, FALSE) /\ UNCHANGED <<fpc, artifacts>>
    /\ runs' = runs + 1
    /\ UNCHANGED <<flags, seeds, roundVars, maxLen, lastUpdate, writes>>

(* MaxNumberOfRuns, the stop file, the time limit or a graceful exit.      *)
EndLoop ==
    /\ fpc = "head"
    /\ fpc' = "done"
    /\ UNCHANGED <<flags, seeds, corpusVars, disk, unread, roundVars, maxLen, runs, lastUpdate, artifacts, writes>>

LimitIsStale == maxLen < MaxInputLen /\ runs - lastUpdate > flags.LenControl * Log(maxLen)

ChooseUnitToMutate ==
    /\ fpc = "head" /\ runs < MaxNumberOfRuns
    /\ IF flags.LenControl = 0 THEN maxLen' = MaxInputLen /\ UNCHANGED lastUpdate
       ELSE IF LimitIsStale
       THEN maxLen' = MinOf(MaxInputLen, maxLen + Log(maxLen)) /\ lastUpdate' = runs
       ELSE UNCHANGED <<maxLen, lastUpdate>>
    /\ base' \in Active
    /\ unit' = corpus[base'].unit
    /\ depth' = MutateDepth
    /\ foundUniq' = TRUE
    /\ fpc' = "mutate"
    /\ UNCHANGED <<flags, seeds, corpusVars, disk, unread, runs, artifacts, writes>>

-----------------------------------------------------------------------------
(* MutateAndTestOne *)

MutationLimit == MinOf(MaxInputLen, MaxOf(SizeOf[corpus[base].unit], maxLen))

(* A round ends when its mutations are used up, at the limit of runs, or,  *)
(* with reduce_depth, when no feature of the base input was left.          *)
RoundOver == depth = 0 \/ runs >= MaxNumberOfRuns \/ (flags.ReduceDepth /\ ~foundUniq)

EndRound ==
    /\ fpc = "mutate" /\ RoundOver
    /\ fpc' = "head"
    /\ base' = 0 /\ unit' = Empty /\ depth' = 0 /\ foundUniq' = FALSE
    /\ UNCHANGED <<flags, seeds, corpusVars, disk, unread, maxLen, runs, lastUpdate, artifacts, writes>>

MutateAndRun ==
    /\ fpc = "mutate" /\ ~RoundOver
    /\ unit' \in {u \in Inputs : SizeOf[u] <= MutationLimit}
    /\ runs' = runs + 1
    /\ depth' = depth - 1
    /\ \/ CrashOn(unit') /\ UNCHANGED foundUniq
       \/ /\ unit' \notin Killers
          /\ foundUniq' = (flags.ReduceInputs /\ corpus[base].uniq \cap FeaturesOf[unit'] # {})
          /\ fpc' = IF NewCoverage(base, unit') THEN "ran new" ELSE "ran"
          /\ RunOne(base, unit', TRUE)
          /\ UNCHANGED artifacts
    /\ UNCHANGED <<flags, seeds, unread, base, maxLen, lastUpdate, writes>>

(* TryDetectingAMemoryLeak runs the unit again when it seems to leak, and  *)
(* exits when it does, before anything is reported or written.             *)
LeakFound ==
    /\ fpc \in {"ran", "ran new"}
    /\ Leaks(unit) /\ runs < MaxNumberOfRuns
    /\ runs' = runs + 1
    /\ artifacts' = artifacts \cup {unit}
    /\ fpc' = "dead"
    /\ UNCHANGED <<flags, seeds, corpusVars, disk, unread, roundVars, maxLen, lastUpdate, writes>>

NoLeakFound == ~(Leaks(unit) /\ runs < MaxNumberOfRuns)
Rerun == IF flags.DetectLeaks /\ runs < MaxNumberOfRuns THEN {runs, runs + 1} ELSE {runs}

NothingNew ==
    /\ fpc = "ran" /\ NoLeakFound
    /\ runs' \in Rerun
    /\ fpc' = "mutate"
    /\ UNCHANGED <<flags, seeds, corpusVars, disk, unread, roundVars, maxLen, lastUpdate, artifacts, writes>>

(* Mutated form: the round goes on with the same element.                  *)
ReportNewCoverageAndGoOn ==
    /\ fpc = "ran new" /\ NoLeakFound
    /\ runs' \in Rerun
    /\ disk' = disk \cup {unit} /\ unread' = unread \cup {unit}
    /\ lastUpdate' = runs'
    /\ fpc' = "mutate"
    /\ UNCHANGED <<flags, seeds, corpusVars, roundVars, maxLen, artifacts, writes>>

ReportNewCoverage ==
    /\ fpc = "ran new" /\ NoLeakFound
    /\ runs' \in Rerun
    /\ disk' = disk \cup {unit} /\ unread' = unread \cup {unit}
    /\ lastUpdate' = runs'
    /\ fpc' = "head"
    /\ base' = 0 /\ unit' = Empty /\ depth' = 0 /\ foundUniq' = FALSE
    /\ UNCHANGED <<flags, seeds, corpusVars, maxLen, artifacts, writes>>

-----------------------------------------------------------------------------
FuzzStep ==
    \/ RunSeed \/ SeedsDone \/ RereadOutputCorpus \/ EndLoop \/ ChooseUnitToMutate
    \/ EndRound \/ MutateAndRun \/ LeakFound \/ NothingNew \/ ReportNewCoverage

FuzzNext == FuzzStep \/ OtherProcessWrites

FuzzSpec == FuzzInit /\ [][FuzzNext]_fuzzVars

-----------------------------------------------------------------------------
(* Properties *)

Elements == [unit : Inputs \cup {Empty}, features : Nat, mayDelete : BOOLEAN, uniq : SUBSET Nat]

FuzzTypeOK ==
    /\ fpc \in {"seeds", "head", "mutate", "ran", "ran new", "done", "dead"}
    /\ Range(corpus) \subseteq Elements
    /\ owner \in [Slots -> 0 .. Len(corpus)] /\ ownerSize \in [Slots -> 0 .. MaxInputLen]
    /\ hashes \cup disk \cup artifacts \subseteq Inputs
    /\ base \in 0 .. Len(corpus) /\ depth \in 0 .. MutateDepth /\ maxLen \in 0 .. MaxInputLen

(* ValidateFeatureSet, which the code runs only in debug builds: through   *)
(* takeovers, evictions and replacements the count of an element is the    *)
(* number of features it is recorded for, and an element is evicted        *)
(* exactly when that number comes to 0.  And a feature seen once is never  *)
(* lost from memory: the element recorded for it still shows it, even when *)
(* its unit has been replaced since.                                       *)
FeatureAccounting ==
    /\ \A i \in DOMAIN corpus :
          /\ corpus[i].features = Cardinality({s \in Slots : ownerSize[s] > 0 /\ owner[s] = i})
          /\ Evicted(i) <=> corpus[i].features = 0
    /\ \A s \in Slots : ownerSize[s] > 0 =>
          \E f \in FeaturesOf[corpus[owner[s]].unit] : Slot(f) = s

(* The element being mutated is never one that was evicted, not even by    *)
(* the unit mutated from it, as long as the round goes on with it.         *)
BaseAlive == fpc \in {"mutate", "ran"} => ~Evicted(base)

(* What the flag promises (FuzzerFlags.def: reduce the size of inputs      *)
(* while preserving their full feature sets), of the corpus on disk: a     *)
(* feature recorded for an input found by mutation is shown by some file.  *)
DiskKeepsFeatures ==
    fpc = "head" =>
        \A s \in Slots : ownerSize[s] > 0 /\ corpus[owner[s]].mayDelete =>
            \E u \in disk : \E f \in FeaturesOf[u] : Slot(f) = s
=============================================================================
