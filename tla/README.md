# A specification of the protobuf mutator and its libFuzzer

This directory specifies and checks two programs of the repository: the custom
AFL++ mutator for OpenFHE CKKS messages, and the copy of libFuzzer under
`protobuf_mutator/Fuzzer`.  TLA+ modules are translated from the C++ source,
TLC runs check small instances, and TLAPS proves what matters most.  Paths
below are relative to the repository; file names without a directory that
begin with `Fuzzer` are in `protobuf_mutator/Fuzzer`.

Contents: the system, the modules, the runs, the theorems, and what is not
modelled.

## The system

### The mutator

AFL++ loads the mutator as a shared library and calls it from a single thread.

```
 AFL++ --- afl_custom_fuzz(buf, add_buf) ---> MutationOrCrossoverOnProtobuf
   |                                             |            |
   |                                     CustomProtoMutate  CustomProtoCrossOver
   |                                             |            |
   |                                      Mutator::Mutate  Mutator::Crossover
   |                                             |            |
   |                                             +-- Write ---+---> bytes to AFL++
   |                                                  |
   |                                         LastMutationCache::Store
   |                                                  |
   +--- afl_custom_post_process(buf) --> LoadProtoInput: LoadIfSame, or parse
                                                      |
                                             PostProcessMessage ---> bytes to the target
```

### libFuzzer

`protobuf_mutator/CMakeLists.txt:1` comments the directory's `add_subdirectory`
out, so the mutator is built without it; the sources are complete, with a build
script of their own, and are specified as the program they are.  One binary
plays many parts.  What a process does follows from its command line, and some
parts launch further processes of the same binary with an edited command line:

```
 FuzzerDriver
   |-- -jobs ----------- worker threads, one child per job   (any other part)
   |-- -minimize_crash - children: run the file; search for something smaller
   |-- -cleanse_crash -- a child per byte tried: run the file
   |-- -fork ----------- worker threads, one fuzzing child per job --- loop
   |        `-- merges what the jobs found -----.
   |-- -merge ---------- outer process ---------+-- inner processes, one by one
   |                          `--- control file -------'
   `-- otherwise ------- the fuzzing loop:
            InputCorpus -> MutationDispatcher -> ExecuteCallback -> TracePC -> InputCorpus
                                                     |
                            signals, sanitizer callbacks, RSS thread -> artifact, exit
```

### Inventory

| Component | State it keeps | Operations | What makes it correct |
|---|---|---|---|
| AFL++ hooks (`postprocess/postprocess.{h,cpp}`) | one output buffer, one temporary buffer | `afl_custom_init`, `_deinit`, `_fuzz`, `_post_process` | the answer depends on the bytes only |
| Cache and message input/output (`protobuf_mutator/proto_util.{h,cpp}`) | the static `LastMutationCache`: `data_`, `message_` | `Store`, `LoadIfSame`, `LoadProtoInput`, readers, writers, `MutateMessage`, `CrossOverMessages` | a hit gives what parsing gives; the bytes just produced hit |
| Mutation (`mutator.cpp`, `mutate_util.cpp`) | the message, `remain_size` passed down by reference | `Mutate`, `MessageMutation`, `TryMutateField`, seven operations on fields | the size limit; oneofs stay set; it ends |
| Crossover (same files) | the first message, `remain_size` | `Crossover`, `MessageCrossover`, `TryCrossoverField`, four operations | the size limit; nothing invented or lost; an operation excludes the recursive crossover |
| Post-processing (`postprocess/openfhe_ckks_postprocess.h`) | the global `dataNum` | `PostProcessMessage`, `clampToRange`, `reduceToPowerOfTwo` | every reference of an API call is to data of the message; parameters within range and consistent |
| Random numbers (`mutate_util.h`) | one engine | `GetRandomNum`, `GetRandomIndex`, `flipBit` | a draw is within its range |
| Schemas (`proto/*.proto`) | - | - | - |
| Test driver, seed generator, target stub (`mutation_test`, `proto_seed`, `afl_test`) | - | read, call, print | - |
| libFuzzer: merge (`FuzzerMerge.{h,cpp}`) | the control file; attempts, known files in the outer process; the next input in the inner one | `CrashResistantMerge`, `CrashResistantMergeInternalStep`, `Merger::Parse`, `Merge` | no recorded feature is lost, no input is skipped, and it ends, whatever input or signal kills which process |
| libFuzzer: fork mode (`FuzzerFork.{h,cpp}`) | two job queues, threads, the main corpus and its features | `FuzzWithFork`, `CreateNewJob`, `RunOneMergeJob`, `WorkerThread` | every job is in one place; features known have an input; all threads are joined |
| libFuzzer: corpus and loop (`FuzzerCorpus.h`, `FuzzerLoop.cpp`) | elements, owner and smallest size per feature, hashes, the output directory | `AddToCorpus`, `AddFeature`, `Replace`, `RunOne`, `MutateAndTestOne`, `Loop` | the accounts agree; a feature once seen stays; the element mutated is alive |
| libFuzzer: callbacks (`FuzzerLoop.cpp`, `FuzzerUtilPosix.cpp`) | `CurrentUnitData`, `CurrentUnitSize`, the crash state | `ExecuteCallback`, eight callbacks that end the process | an artifact is the whole unit; one report |
| libFuzzer: mutations (`FuzzerMutate.cpp`, `FuzzerDictionary.h`, `FuzzerCrossOver.cpp`) | dictionaries, a ring of recent words, the current sequence | fifteen mutators, `MutateWithMask`, `RecordSuccessfulMutationSequence` | the size limit; pointers into the ring and dictionaries hold what was applied |
| libFuzzer: driver (`FuzzerDriver.cpp`, `FuzzerCommand.h`) | the command line, the job counter, the current crash file | dispatch, `RunInMultipleProcesses`, `MinimizeCrashInput`, `CleanseCrashInput` | children do what they are launched for; exit codes; the crash that is left is the same bug |
| libFuzzer: coverage (`FuzzerTracePC.{h,cpp}`) | counter regions, value profile, stack depth | `HandleInline8bitCountersInit`, `HandleCmp`, `ResetMaps`, `CollectFeatures` | every counted byte becomes one feature, and nothing else much does |
| libFuzzer: data flow, files, platforms | - | read, write, launch, hash | - |

### What is hard here

The mutator is sequential: there is no race to find in it.  Its difficulties
are of four other kinds; libFuzzer adds the next three.

* **A protocol with a caller that may do anything.**  AFL++ decides which hook
  comes next and with which bytes.  The cache and the global `dataNum` carry
  state from one call to another.
* **A budget passed by reference through a recursion.**  Every helper reads and
  recomputes `remain_size`; what one of them forgets to charge shows in
  another, or only in the final size.
* **Partial failure.**  An operation that turns out too large has to be taken
  back: an element, a field, the member of a oneof, a whole message.
* **Numeric edges.**  Unsigned comparisons, wrapping, NaN, ranges whose ends
  depend on other fields.
* **Processes that die.**  libFuzzer exists to make its own process crash.
  Progress is carried from a dead process to the next by a control file, an
  artifact, an exit code, and any of these may be left half done or be older
  than it looks.
* **Threads and signals.**  Job threads share counters and queues; callbacks
  run on whatever thread the fault is on and read a unit that the fuzzing
  thread may be changing.
* **Accounts kept in several places.**  Features, owners, sizes, hashes and
  files are updated one after the other and must agree; pointers into rings
  and dictionaries are used long after they were taken.

PROJECT.json lists each at its line, under "hazards".

## The modules

| Module | Models |
|---|---|
| `CustomMutator` | the promise of the two hooks, without a cache |
| `MutationCache` | `LastMutationCache` behind the hooks; implements `CustomMutator` |
| `MutationCache_proofs` | its types, its invariant and the refinement |
| `ProtoMessage` | messages as Reflection shows them: types, groups (oneofs), presence, positions |
| `MessageMutation` | one call of `Mutator::Mutate` |
| `MessageMutation_proofs` | the size limit, for flat schemas; repeated fields and groups, for every schema |
| `ProtoMessage_proofs` | lemmas on messages that the proofs about mutation and crossover share |
| `MessageCrossover` | one call of `Mutator::Crossover` |
| `MessageCrossover_proofs` | what it keeps of the two messages, for every schema, and the limit for additions |
| `NumericHelpers` | `NotNegMod`, `clampToRange`, `reduceToPowerOfTwo` in wrapping arithmetic, and what it promises |
| `Postprocess` | `PostProcessMessage`, over successive messages |
| `Postprocess_proofs` | the parameters, rotations, data references and weights of what leaves; `reduceToPowerOfTwo` at every width |
| `MCWire` | the size of small messages in protobuf's wire format |
| `FuzzTarget` | the program under test: inputs, sizes, features, killers |
| `CorpusMerge` | what a merge of corpora promises |
| `CrashResistantMerge` | the outer and inner processes and the control file; implements `CorpusMerge` |
| `CrashResistantMerge_proofs` | the control file, the attempts, and the refinement |
| `ForkMode` | fork mode |
| `FuzzLoop` | `InputCorpus` and the fuzzing loop |
| `CrashCallbacks` | `ExecuteCallback` among callbacks on three threads |
| `LibFuzzer_proofs` | the corpus's accounts and types, the base of a round; that reports are whole, words stay in place and counted bytes show; that every child plays its part; and that the composition keeps all of it |
| `ByteMutations` | `MutationDispatcher` |
| `Subsequences` | what is left of a sequence when some of its places are kept; for `ByteMutations` and `FuzzerDriver` |
| `TracePC` | from counters, comparisons and stack depth to features |
| `FuzzerDriver` | what a command line makes of a process, and the command lines of its children |
| `JobWorkers` | `-jobs` |
| `MinimizeCrash`, `CleanseCrash` | `-minimize_crash`, `-cleanse_crash` |
| `DriverTasks_proofs` | that every job is run once and reported, what minimizing and cleansing leave; that in fork mode known features have an input and jobs keep to one place, and its types |
| `LibFuzzer` | the parts together, and their fairness |
| `MCMutationCache`, `MCMutation`, `MCCrossover`, `MCPostprocess`, `MCLibFuzzer`, `MCFuzz` | the instances TLC checks |

How they fit together: `CustomMutator` is parameterised by what a mutation or
a crossover can turn a message into (`Mutants`, `Offspring`); `MessageMutation`
and `MessageCrossover` say what that is for one call, over `ProtoMessage`.
`Postprocess` takes any message a load can produce (`Inputs`) and uses
`NumericHelpers`.  `ForkMode` merges by what `CorpusMerge` allows, which
`CrashResistantMerge` implements; everything that runs an input extends
`FuzzTarget`; `LibFuzzer` lets a process play one part and the others rest.
`CustomMutator` and `LibFuzzer` are not composed: neither program calls the
other.

### `CustomMutator` and `MutationCache`

Byte strings and messages are model values; the codec is a pair of functions
with the one law `Decoding[Encoding[m]] = m`.  Not every byte string decodes,
several may decode to one message (protobuf accepts fields in any order), and
an encoding may be longer than `MaxSize` or empty: the cases in which the code
takes its early returns.  `Store` and `LoadCached` are written with the swaps
the code makes, so that what the caller's object held before a call ends up
where it does in the code.  `answer` is what the last hook gave its caller;
`unread` is a history variable, the bytes the fuzz hook last handed out until
they are post-processed.

`Uncached` is the refinement: hidden behind `answer`, the cache makes no
difference.

### `ProtoMessage`

An outer message with embedded messages of one type.  A field holds a sequence:
empty for unset, one value for a set singular field.  Groups are oneofs; a
proto3 `optional` field is a group of its own, as in protobuf's descriptors,
and that is how the mutator sees it (`containing_oneof`).  A plain field that
holds its default value is unset.  `RootSize` and `LeafSize` stand for
`ByteSizeLong` and are parameters; `MCWire` gives TLC one with tags, length
prefixes of one or two bytes, and scalars of different widths.

### `MessageMutation` and `MessageCrossover`

The recursion is explicit: `stack` holds one frame per activation, with the
position of its message, the loop index, the local `max_size`, and the embedded
field it is descending into.  `remain` is the `remain_size` all of them share.
An action is one iteration of the loop over the fields, with the operation that
was drawn and the line at the end of the body that recomputes `remain_size`
(`EndField`); or one step of the inner loop over elements (`Descend`,
`EndDescent`); or the end of an activation (`Return`).

Each operation of `mutate_util.cpp` is an operator that gives the set of
messages it can produce, with its early returns and with what it takes back
when the result is too large.  A random draw is a choice; a mutated scalar may
become any scalar (`flipBit` can also leave it as it was, since it may flip a
bit after the value).  `TryMutateField` may draw past the last allowed
mutation, which is the same as drawing None.

Three things are deliberately as in the code although they look wrong, and are
what the violation runs are about: `ReplaceRepeatedField` has no size check,
because the one in the source compares an unsigned difference with 0;
`EnterMessage` and new oneof members are not charged for their tag and length;
and a mutation that draws the present member of a oneof gives up, where two
comments say that the member itself is mutated.  A proto3 optional field is a
oneof of one member, so that once it is set a scalar one keeps its value.

### `Postprocess`

One action per section of `PostProcessMessage`, and one per API call in the
last section.  A message is reduced to the parameters the code reads or writes,
the API calls and the data lists.  The twelve kinds of API calls fall into six
by what the code does with them.  `dataNum` is a variable of the process and
survives `Return`; `Receive` can bring any message at any time after that.
Floating-point numbers are counted in halves, which is enough to tell the
integral part from the rest, beside a NaN and an infinity.  The integer ranges
are those of the source.  The limits `MAX_NEW_REPEATED_SIZE` and
`rotateIndexed_maxNum` are constants.

`reduceToPowerOfTwo` is a recursive function that doubles modulo `2^Bits` and
stops, as the code does, when the doubling wraps.  At 12 bits the upper half of
the values wraps as it does at 32.

The branch that sets `digitSize` to 0 is in the model and can never be taken:
`PREMode` has been clamped to 0 or 1 by then.

### `CorpusMerge` and `CrashResistantMerge`

The control file is a record: the files, how many belong to the first corpus,
and the log of STARTED and FT lines.  The outer process goes through
`"attempt"`, `"inner"`, `"merge"` to `"done"`, or stops with `"nothing"` to do
or `"failed"` (`ParseOrExit`).  The inner process alternates between `"loop"`
and `"running"`: `Begin` writes STARTED, `Record` writes FT.  An input of
`Killers` ends it in between (`Crash`).  From outside, the inner process can be
killed at any point (`InnerKilled`), before its first STARTED line too, or told
to exit gracefully; the outer one can be killed while it waits (`OuterKilled`)
or while it writes the control file (`KilledWriting`).
Every merge starts on whatever control file is there, and takes one of the
three branches of the code: `NothingToDo`, `Resume`, `StartAfresh`.

The number of attempts is fixed when a merge starts, so an inner process that
dies before it starts an input uses one up for nothing.  `wasted` counts them,
and `AttemptsSuffice` says what the attempts are enough for: every input not
started, but for one per wasted attempt.  The merge then goes on without the
inputs it has no attempt for, and does not say so.

STARTED lines are flushed.  The FT and COV lines of an input go through the
buffer of an `ofstream`, which empties itself when it is full, so a kill can
leave part of them in the file (`KilledRecording`).  The mark of a line says
what has become of it:

* `CUT`: it ends early.  What it has is read as its features: some of them,
  the last perhaps without all its digits, so that it is another number
  (`CutNumbers`); or all of them, when the COV line is the one cut off.
* `GLUED`: a STARTED line was appended to a cut one.  The parser reads numbers
  as long as they come and drops the rest of the line, so it does not see that
  the input was started.
* `BAD`: it is cut off, or glued to, within its marker, and the parser fails.

`Begin` appends to whatever is there, and `Parses` reads what has become of it.
A file with a `BAD` line, or with an FT line for an input whose STARTED line was
swallowed, makes the next inner process exit at once (`InnerCannotParse`), and
the outer one fail with "unexpected error" (outer = `"failed"`).
`ControlFileParses` says that nothing else does.

`CorpusMerge` knows no processes and no file: inputs leave `waiting` for good,
recorded or given up, and what is chosen must show, with the first corpus,
every recorded feature.  A merge that is started again may know fewer inputs
than before, because a killed outer process takes `KnownFiles` with it.  Once a
record has been cut off (`cutOff`: the log is not `Whole`), only the origin of
the chosen inputs is promised, since some of the features are not on file and
others may be wrong, until a merge starts on whole records.
`std::sort` leaves the order of equal files open: `MergeResults` has a result
for each.

### `ForkMode` and `JobWorkers`

One action per step that another thread can see: a push, a pop, the end of a
child, a merge, a null job of `StopJobs`.  In `ForkMode` a merge is one step;
that it may be is what `CrashResistantMerge` shows.  The merge is told the
features known so far and returns two sets, `FilesToAdd` and `NewFeatures`,
which are added to `Env.Files` and `Env.Features` one by one: `Add` takes any
two that `IsMerge` allows.  If a child of the merge is killed within a record
(`CutMerge`, once), the sets are whatever the damaged file says (`AddCutOff`),
or the merge fails and the process exits with 1 (`MergeFails`).  The decision to stop comes
from exit codes, time or runs; time may be up at any job, so `StopFork` is
always possible in place of `Continue`.  In `JobWorkers` the atomic increment of
`Counter` is a step of its own, and so is the end of a job.

### `FuzzLoop`

`Taken` is `AddFeature` over the features of a unit: those whose slot is free,
or, with `-shrink`, held by a larger input.  `AfterLosses` takes them from the
elements that held them, and evicts those left without any.  `Replace` is the
other way into the corpus, for a smaller unit with all of the unique features
of its parent.  A round is `ChooseUnitToMutate`, `MutateAndRun`, the leak check
(`LeakFound`, `NothingNew`, `ReportNewCoverage`) and `EndRound`.  A mutation may
produce any input within the limit.  Another process may write into the output
directory, which the loop reads again at its head.

### `CrashCallbacks`

`ExecuteCallback` is cut where a signal can come in: the copy of the unit, its
size, the call, the return, the check for overwritten data.  A callback reads
the size, writes the artifact and exits, in three steps, while the other
threads go on.  With a sanitizer runtime those in `Guarded` take the crash state
first.

A callback starts anywhere: on the fuzzing thread also outside the target's
code, between the copy of a unit and its size, and, if it is a deadly signal or
the alarm, within another callback (`Interruptible`).  Only the alarm and the
exit callback ask whether the target is running, as in the code.  Outside the
stretch from `SetUnitSize` to `CheckUnit` the size is 0, and the report has no
contents; `ReportsNameTheUnit` says that it is the whole unit or nothing, and
where it is the whole unit.  A callback on another thread may well tear the unit;
its artifact has no unit in the model, and the property speaks of the fuzzing
thread, where a crash is, and of the number of reports.

### `ByteMutations`

A mutator is an operator from data and limit to the set of its results, empty
when it fails; `Attempts` collects them with the scratch buffer
(`MutateInPlaceHere`) and the dictionary word they used.  What a changed byte
becomes is left open, the lengths and places are not.  `applied` is a history
variable: the words as they were when they were applied, to compare with what
the pointers in `entries` lead to later.

### `TracePC`

Memory is a sequence of bytes, of which a module's counters are a section.
`Regions` cuts a section at page boundaries as the code does; `BytesRead` is
what `ForEachNonZeroByte` looks at, which for a region with an end off the
alignment is more than the region.  `CountersBecomeFeatures` therefore allows
features of the few bytes behind a region, and no others.

### `FuzzerDriver`, `MinimizeCrash`, `CleanseCrash`

An argument is a flag with a value, or a path.  `removeFlags` and `addArgument`
edit only the arguments before `-ignore_remaining_args=1` (`MutableArgs`), as
`Command` does, and `On` is what `ParseFlags` makes of them.  `Dispatch` is the
order in which the driver looks at its flags; `Children` has the edits each part
makes before it launches a process.  `chain` grows by one process at a time,
with the roles its parent meant it for.  Any command line may start it.
`OneTask` tells those that set one task from those that set two, internal flags
included: a launcher takes its own flag out of the command line and leaves the
others in, so the children of the second kind do keep a task of their parent.
`ChildrenPlayTheirPart` promises the roles, and at most three processes in a
row, for one task; and for every other combination that the chain still ends,
after four.

`MinimizeCrash` has the parent of a minimization, a child being what it leaves:
an exit code, a dedup token and perhaps a file.  Both children may be killed or
interrupted.  The first one is run to see the crash again, and any exit code
but 0 is taken for it, with an empty token (`RunCut`, remembered in `runCut`).
`CleanseCrash` has the three nested loops, one step for each run of a child.
Its children only run one file: a child that fails without crashing on the file
would be taken for one that crashes on it, and is left out.

### `LibFuzzer`

`part` is what the process does.  One run checks all parts: a part that is not
played keeps an initial state, so the states of the parts add up and do not
multiply.  This loses nothing between the parts, which share no memory; what
they exchange (command lines, control file, artifacts, exit codes) is inside
the part that uses it.  The fuzzing process itself is seen from four sides
(loop, callbacks, mutations, coverage), each of which leaves open what the other
three may do: any input for a mutation, any features for an input, any unit for
a callback.

## The runs

| Run | States | Shows |
|---|---|---|
| `mutation_cache` | 147 | `CacheCoherent`, `FirstLoadHits`, `Uncached` under every order of hook calls on nine byte strings |
| `mutate_flat` | 19k | `NeverGrowsPastLimit`, `RepeatedLengths` |
| `mutate_index` | violated | `SetMembersMutable` does not hold: no mutation gives a set optional scalar another value |
| `mutate_nested` | 33k | `GroupsStaySet`, `Terminates` |
| `mutate_fits` | violated | `ResultFits` does not hold with embedded messages |
| `crossover` | 117k | `Provenance`, `RepeatedMerge`, `NothingLost`, `WholeOrPaired`, `AdditionsFit`, `Terminates` |
| `crossover_fits` | violated | `ResultFits` does not hold for repeated fields |
| `postprocess` | 42k | `ApiRefsInRange`, `WeightsPaired`, `DigitSizeFitsDepth`, `SetModSizesDiffer`, `RotationsDistinct`, `LargestPower`; the assumption `ReducesEveryValue` |
| `postprocess_mod_sizes` | violated | `ModSizesDiffer` does not hold for a size that is not set |
| `postprocess_nan` | violated | `DataInRange` does not hold for NaN and infinity |
| `libfuzzer` | 363k | the properties below, and the type invariant |
| `reduce_inputs` | violated | `DiskKeepsFeatures` does not hold: a replacement can delete another element's file |

What `libfuzzer` shows, by part:

| Part | Properties |
|---|---|
| merge | `ControlFileParses`: wherever processes die, the file is one the parser accepts, unless one dies within the marker of a line or within a line that is then appended to. `AttemptsSuffice`: an attempt is left for every input not started, but for one per process that died before it started any. `MergeRefines`: the merge implements `CorpusMerge` |
| fork | `JobsInFlight`: one job per thread, in one place. `FeaturesBacked`: after any number of merges the known features are those of the files kept, until one is cut off |
| loop | `FeatureAccounting`: counts, owners and evictions agree, and an owner still shows its feature. `BaseAlive`: the element a round mutates is not evicted while the round goes on |
| jobs | `JobsReported`: no job twice, all at the end, and the exit code tells of a failure |
| minimize | `MinimizedKeepsBug`: the result is the same bug, with two exceptions, and lies at the exact path |
| cleanse | `CleansedAndLocallyMinimal`: what is written still fails, and a pass without change means no single byte can be cleansed |
| driver | `ChildrenPlayTheirPart`: with one task on the command line no child repeats its parent's; with any, no chain of processes is longer than four |
| callbacks | `ReportsNameTheUnit`: a report from the fuzzing thread has the whole unit or none of it; guarded callbacks report once |
| mutations | `PointersKeepTheirWords`: recorded words are those applied, within the ring's reach; the persistent dictionary has no word twice |
| coverage | `CountersBecomeFeatures`: regions cover their section, every counted byte shows, nothing beyond the next bytes does |
| all | `PartsEnd`: every part that has an end comes to it |

Each passing run also checks the type invariant of its module, but for
`mutate_nested`, whose module's is checked by `mutate_flat`.

`MinimizedKeepsBug` has two exceptions, stated in it.  Crashes without a dedup
token cannot be told apart, so after a child was killed a file that lay at
`-exact_artifact_path` from an earlier run is taken for what the child found.
And when the child that is to show the crash again is killed, it passes for a
crash without a token: a smaller, different crash without one is then the
result.  What remains true is that a result at a fresh path has the token of
the original or none at all.

### Bounds, and why they are enough

* `mutation_cache`: seven messages, encodings of length 0 to 3 under a limit of
  2, a byte string that does not parse and one that parses to a message that
  encodes differently.  The cache holds one entry, so three messages (cached,
  argument, new) already meet in every way; the number of calls is unbounded.
  A state is only the entry, the caller's message, the bytes not yet loaded and
  the last answer, so the states are few: 94k transitions join them.
* `mutate_*`, `crossover*`: `MaxNewRepeated` and `MaxReplaceRepeated` are 2
  instead of 5, the least value at which a deletion can delete one and keep
  one; lists have from no element to twice that.  Scalars take zero, one or two
  bytes, and a length prefix grows at 3 or 4 instead of 128, so that the second
  byte of a length appears.  The budgets go from none, over some that only part
  of the operations fit, to more than anything needs.  The field kinds are
  those of the CKKS schema: plain, optional, repeated, embedded, repeated
  embedded and oneof.  `crossover` has all but the optional one in one schema
  (`MixedType`), with four scalars, so that what stems from either message, or
  from neither, can be told apart.
* `postprocess`: parameters at, just inside and just beyond the ends of their
  ranges, values that the remainder maps to the end of a range, and pairs of
  sizes that meet.  Up to two calls of each kind, with references in and out of
  range, on no, one or three data lists.  The number of messages in a row is
  unbounded.  `ReducesEveryValue` evaluates `reduceToPowerOfTwo` for each of
  the 4096 values of 12 bits.
* `libfuzzer`: eight inputs, of which five show features and three crash, two
  of them with one token and one with none.  Sizes and features overlap so that
  an input can be redundant, replace another, or take over one of its features.
  * merge: at most two merges (`MaxMerges`), with two faults (`MaxMergeFaults`):
    enough for a merge to be killed, resumed and killed again, for a line to be
    cut off and the one appended to it to be cut off as well, and for a second
    merge on another corpus to find the file of the first.  One corpus has an
    input that crashes.  Cut digits read as 2 (`CutNumbers`), a feature that
    inputs show too.
  * fork: two threads and three jobs (`MaxJobs`), so that a job waits while
    both threads run, with exit codes that are ignored, that stop the fuzzing,
    and the interrupt's, and at most one merge that is cut off.  `NumJobs` is 3
    for two workers likewise.
  * loop: six runs (`MaxNumberOfRuns`) from one or two seeds, two mutations a
    round, one file written by another process (`MaxWrites`); feature numbers
    modulo 5 (`kFeatureSetSize`) so that features share a slot, as they may
    modulo 2^21.
  * minimize and cleanse: two children that end for another reason
    (`MaxMinFaults`), as both children of one round; two replacement bytes,
    five passes as in the code.
  * mutations: bytes 0 and 1, units of at most two bytes, sequences of three
    mutations (`MaxMutations`), a ring of two words instead of 16, a persistent
    dictionary of one word.  `kMinBytesToInsert` is 0 instead of 3, the only
    value at which its strict bound lets it insert into units this short.
  * coverage: eight bytes of memory in pages of two, looked at two at a time;
    sections that begin and end off the alignment, one of them right before
    the extra counters; a counter in the highest class and one that wraps to 0;
    two modules.
  * driver: every combination of seven flags, with no path, a file or two
    directories, and with and without arguments behind
    `-ignore_remaining_args`, whether they go together or not.
* `reduce_inputs`: five inputs, seven runs; the shortest way to the loss has
  four mutations.

Deadlock is checked for the cache and the post-processor.  It is not for
`Mutate`, `Crossover` and the parts of libFuzzer: a call that has returned and a
process that has exited stop.

### Fairness

`Terminates` assumes weak fairness of the whole next-state relation.  `Mutate`
and `Crossover` are plain function calls on one thread,
which the code never abandons half way: as long as a step is left, one is
taken.  Which one is left open, so the property holds for every outcome of the
random draws.  Nothing is assumed of AFL++.

`PartsEnd` assumes `Fairness` of `LibFuzzer`: weak fairness of the steps a part
takes by itself, that is, a process or thread that can run does.  For fork
mode and the jobs this includes the end of a child, which the code bounds by
`-max_total_time`, `-runs` or the stop file.  Nothing is assumed of faults, of
signals, or of other processes (`MergeProgress` and `FuzzStep` leave them out),
nor of which of several enabled steps is taken.

### Findings

* **`mutate_fits`.** `mutator.h:68` promises that the result of `Mutate` "does
  not exceed max_size".  With embedded messages it can: a message that was not
  there before is created without charging its tag and length.  The writer then
  refuses the result and the mutation is lost.
* **`mutate_index`.** The comments at `mutate_util.cpp:310` and
  `mutator.cpp:155` say that if the index of a oneof does not change, the field
  itself is mutated.  The code returns (`mutate_util.cpp:311`), and the caller
  goes on only into a message.  A set proto3 optional scalar, whose index cannot
  change, is therefore never mutated again.
* **`crossover_fits`.** `mutator.h:76` promises the same of `Crossover`.  The
  check of `ReplaceRepeatedField` is done in unsigned arithmetic and never
  fires.
* **`postprocess_mod_sizes`.** `proto/openfhe_ckks.proto:270` excludes equal
  modulus sizes.  The code compares the two fields only if both are set, though
  an unset one has a default (60 and 59).
* **`postprocess_nan`.** `clampToRange` promises a value within the range; for
  NaN and infinity it returns NaN.
* **`reduce_inputs`.**  `FuzzerFlags.def:84` promises to reduce inputs "while
  preserving their full feature sets".  `Replace` (`FuzzerCorpus.h:157-166`)
  deletes the file of the unit it replaces.  Two elements may come to hold one
  unit, since a replacement does not ask whether the corpus has it already;
  when one of them is replaced once more, the other is left without its file.
  In memory nothing is lost (`FeatureAccounting`).

## The theorems

The proofs are for every value of the constants, under the named assumptions of
the modules, which TLC evaluates on the instances, and under the few hypotheses
the theorems name themselves:

* `CodecAssumption`, `MutatorAssumption`, `NoBytesAssumption` (cache);
  `TypesAssumption`, `MutationAssumption`, `CrossoverAssumption` (messages);
  `BitsAssumption`, `PostprocessAssumption`; `TargetAssumption` and
  `MergeAssumption`, `ForkAssumption` (no more threads than jobs the bound
  `MaxJobs` allows, or the first round could not be started; jobs find inputs),
  `FuzzAssumption` (`Empty`, the unit of an evicted element, is not an input;
  `MaxInputLen` is positive, as `SetMaxInputLen` asserts, and no unit is longer),
  `CallbackAssumption`, `MutationsAssumption` (words are not empty; the ring has
  a place), `TraceAssumption` (sections are intervals of memory; pages and
  memory are divided evenly into the steps in which counters are read),
  `JobsAssumption`, `MinimizeAssumption`, `CleanseAssumption`, and
  `DriverAssumption` (a path names a file or a directory, never both).
* `SizesAreNumbers` (`ProtoMessage_proofs`) and `SizeLaws`
  (`MessageMutation_proofs`) are what is taken for granted of `ByteSizeLong`:
  that it is a number, that deleting does not enlarge a message and that
  reordering does not change its size.  `MCMutation` checks the laws of the
  sizes TLC uses.
* `MaxRotations <= 1` (`RotationsAreDistinct`): `rotateIndexed_maxNum` is 1.
  With more the property is false, as two of the indexes kept could be equal.
* `batchSize_range[2] < 2 ^ Bits` (`BatchSizeLargestPower`): the range lies
  within the type.

An invariant that does not hold its own ground is strengthened to one that does;
the strengthenings, and why they are needed:

### The hooks

* `CacheInvariance` (`CacheTypes`, `FirstLoadAlwaysHits`): the type invariant,
  `CacheCoherent` and `FirstLoadHits`.  Their conjunction is inductive:
  `CacheCoherent` needs the type of the cached message to cite the codec's law,
  and `FirstLoadHits` needs nothing but itself and that a refused write touches
  neither the entry nor `unread`.
* `CacheRefinement`: `CacheSpec => Uncached`.  A step of the cache maps to the
  step of the same hook; on a hit, `CacheCoherent` and
  `Decoding[Encoding[m]] = m` make the swapped message the parsed one.

### Messages

* `FlatMutationKeepsLimit`: `NeverGrowsPastLimit`, for every schema without
  embedded messages whose oneofs have one member, every message and budget.
  The property says that the size is within `max_size` or no larger than at the
  start; the strengthening (`FlatInv`) adds that the budget is exact,
  `remain = maxSize - RootSize(root)`, and that the one frame has the
  `max_size` of the call.  Then a helper's own `max_size` is the call's, and
  each operation either fits it, or leaves a message no larger than it found
  (`Keeps`).  `MutateRepeatedField` checks after each element it changes; the
  proof takes the last one, after which the message is already the result.
  The restriction to flat schemas is real: `mutate_fits` shows the theorem
  false without it.
* `RepeatedFieldsBounded`, `SetGroupsStaySet`, `MutationTypes`:
  `RepeatedLengths`, `GroupsStaySet` and the types, among which that at most two
  activations are open, for every schema, message and budget; only the types
  need sizes to be numbers.  `Revised` says what one iteration may make of the
  message it works on, outer or embedded: a well-formed message in which nothing
  outside the field's group has changed, the group is still set if it was, and a
  repeated field has a length one helper allows (`LoopBody`, one lemma per
  helper).  The strengthening (`MutInv`) places the
  call (`Placed`: at a field, between embedded messages, or in one that is
  there) and says that repeated fields the loop has not come to are as long as
  in the seed (`Lengths`): `RepeatedLengths` is not inductive alone, since a
  field visited twice could lose or gain twice as much.
* `CrossoverTypes`, `CrossoverLosesNothing`, `CrossoverInventsNothing`,
  `RepeatedFieldsMerge`, `WholeMessagesOrPairs`, `AdditionsRespectLimit`: all
  properties of `crossover` but termination, for every schema, every pair of
  messages and every limit. The proof has three layers.
  * One loop body.  Messages of the outer and of the embedded type are treated
    alike (`IsMsg`); `Crossed` says what any of the four operations may make of
    one field's group: only its fields change, each takes its values from the
    two messages, a set group stays set, a repeated field is merged, and if a
    field got longer the message fits the helper's limit.  The last conjunct
    does not hold of replacements, which is why it speaks of lengths.
    `ClearedIsSame` is the reason why a value that does not fit can be cleared
    without loss: nothing in the group was set before it.
  * Where the call is (`Placed`): at a field of the outer messages, between two
    pairs of embedded messages, or at a field of such a pair.  Which pairs are
    visited has to be part of it, or a descent could read past message2's list.
  * The invariant (`CrossInv`, `Budgeted`).  None of the properties is inductive
    alone: a second visit to a field would break `RepeatedMerge` and
    `WholeOrPaired`.  `Untouched` says that repeated fields from the cursor on
    are as they were given, except the one being crossed over pairwise
    (`Paired`), so each is merged once.  `AdditionsFit` needs `Budgeted`: at a
    field of the outer message `remain_size` is what the caller's limit leaves;
    inside embedded messages nothing is said, since it is not exact there.

### Post-processing

* `ClampInRange`: `clampToRange` of any integer, for any range.
* `ReducesToPowerOfTwo`: at every width, for every value below it,
  `reduceToPowerOfTwo` gives the largest power of two that is not above the
  value.  The function doubles modulo `2^Bits` and its recursion has to be shown
  to exist (`LoopExists`) and to end although the doubling wraps.
* `ReturnedRefsInRange`, `ReturnedWeightsPaired`: `ApiRefsInRange` and
  `WeightsPaired`, for all inputs and any number of messages.  The
  strengthening (`PostInv`) says that from `CountData` on `dataNum` is the
  number of lists of this message, whatever it was before, that this number is
  not 0, and that every call before `next` is settled.
* `PostprocessTypes`, `DigitSizeFits`, `SetSizesDiffer`, `RotationsAreDistinct`:
  `LeaveInv` adds to `PostInv` that what `PostParam` settles holds from then on,
  and likewise what `PostRotate` settles; the later sections write neither, and
  clamp calls to what they already are (`Used` must not change under
  `PostApi`).  The indexes that are added are listed in ascending order;
  `AscendingLists` shows that there is such a list for every finite set.
* `BatchSizeLargestPower`: `LargestPower`, an action property, from the above.

### libFuzzer

* `LogAlwaysParses`, `AttemptsReachAll`, `MergeTypes`: `ControlFileParses`,
  `AttemptsSuffice` and the types, for any corpora, killers and number of
  faults, wherever they strike.  `MergeInv` has to know the control file well
  (`WellFormed`), in three parts.  `Shape` is what no kill can damage: lines
  name inputs of the file, and a cut line is the last one.  A log without glued
  lines and cut markers (`Tidy`) is one the parser accepts.  A log without any
  damage (`Whole`) is `InTurn`: each line is for an input whose turn has come,
  and what a recorded input shows is on file, if not under it then under an
  earlier one.  To these come that no known file is in the control file, and
  where the inner process is in the log (`InnerFits`).
  `AttemptsSuffice` alone is not inductive: the end of an inner process takes an
  attempt, so `AttemptsLast` has to tell one that has started an input
  (`inner.ranOne`) from one whose end counts as wasted.
* `MergeRefinement`: `MergeSpec => MergeRefines`, step by step from `MergeInv`.
  A STARTED or FT line maps to an input that leaves `waiting`, a crash to one
  that is given up, a restart to a merge that knows what the file still says,
  a step that leaves or finds a damaged log to `CutOff`, everything else to a
  stutter.
* `KnownFeaturesBacked`: `FeaturesBacked`, for any number of threads, jobs and
  inputs, over any series of merges until one is cut off.  `Env.Files` and
  `Env.Features` grow by what each merge returns, two sets of which `IsMerge`
  says, as `CorpusMerge` does, only that together with the features the merge
  was told they cover its inputs; the candidates themselves were filtered by the
  features known.
* `OneJobPerThread`: `JobsInFlight`.  `ForkInv` says that no job is in two
  places (`Placed`: the two queues, the threads, the hands of the main thread),
  that as many are on the way as have been created while the threads are being
  started (`Starting`), and as many as there are threads from then on
  (`Counted`).
* `ForkStaysTyped`: the types of fork mode.  `ForkInv` does not say what is on
  the queues once jobs are being stopped; `ForkBounds` does, at every point.
* `FeaturesAccounted`: `FeatureAccounting`.  That an owner's unit shows the
  feature is not inductive, since `Replace` gives an element another unit.
  `Shown` says more: the features an element was added for (`UniqFeatureSet`)
  cover the slots it owns, and its unit shows all of them; `Replace` asks for
  the whole set.  `Accounts` ties the count of an element to the slots it owns.
* `BaseStaysAlive`: `BaseAlive`, from `FuzzInv`: a round goes on after a run
  only if the run added nothing, and nothing is evicted without an addition.
* `LoopStaysTyped`: the types of the corpus and the loop, from `FuzzInv` and
  `FuzzBounds`, which adds where the process is, the sizes kept per feature, and
  that the mutation limit is a positive number within `MaxInputLen` once the
  seeds have been read.  The limit grows by the logarithm of its own value,
  which is a number only because the limit is positive (`LogIsNat`).
* `ReportsAreWhole`: `ReportsNameTheUnit`, for any units and with or without a
  sanitizer runtime, with callbacks that start at any point and within each
  other.  The strengthening (`CallbackInv`) says at which points of
  `ExecuteCallback` the data and the size are those of the current unit and at
  which the size is 0 (`WholeOrEmpty`); that a callback on the fuzzing thread
  stops that thread, so that the size it has read and the data it then copies
  belong together; and that under a sanitizer the taken crash state names the
  one guarded callback there is.
* `WordsStayInPlace`: `PointersKeepTheirWords`, for any units, words and sizes
  of the ring and the dictionary.  That a pointer still leads to its word is not
  inductive, since the ring turns: `Leads` says how many steps of the ring
  (`CmpAfter`) lie between the place of a word and `ringIdx`, so that a word is
  overwritten only when as many have followed as the ring has places.  A place
  of the persistent dictionary is only ever appended to, and what
  `RecordSuccessfulMutationSequence` appends is new (`RecordKeepsWords`).
* `CountedBytesShow`: `CountersBecomeFeatures`, for any sections, page and step
  sizes.  `RegionsFit` says of every module that its regions are a chain
  (`Chain`) from the start of one section to its end, whatever its alignment
  (`RegionsAreChain`); so regions are intervals within memory
  (`PlacesAreInMemory`), and reading a region in steps covers all its bytes and
  less than a step behind it (`ReadInSteps`), which are the strays allowed.
* `EveryChildPlaysItsPart`: `ChildrenPlayTheirPart`, for any command line and
  any number of cores.  `RemoveLeaves` and `AddLeaves` say which flags are on,
  and whether all paths are files, after an edit of the arguments; `RoleIs`
  reads the role off the flags.  Each launcher then has one lemma about the
  child of a command line that sets one task (`ChildFits`): it has the role it
  is meant to have, which is one that launches nobody (`Leaves`), or it is a job
  of `-jobs`, whose command line sets one task again and does not start jobs.
  That a chain ends whatever is set needs a measure: `Rank` bounds by the role
  of a process how many may follow it, and a child has always a lower one than
  its parent (`DriverInv`).
* `EveryJobReported`: `JobsReported`, for any number of threads and jobs.  The
  strengthening (`JobsInv`) says that the numbers below `counter` are divided
  between the threads that run and the jobs that have ended, that a thread ends
  only when the counter has passed the last job, and that `hasErrors` tells
  exactly whether an ended job failed.
* `MinimizationKeepsBug`: `MinimizedKeepsBug`, for any inputs.  `MinInv` adds
  that the dedup token kept in `token1` is the current input's while a child
  minimizes it, that a fresh artifact path has no file, and what is left of
  this once a child that was to show the crash was cut short (`runCut`).
* `CleanseIsLocallyMinimal`: `CleansedAndLocallyMinimal`.  `CleanseInv` says
  that a pass that has changed nothing has tried in vain every byte before the
  current one, on the very bytes there are now; after a change nothing is
  known, which is why there is another pass.
* `ProcessesStayTyped`, `ProcessesKeepTheParts`: `LibFuzzerTypeOK`, and all the
  safety properties above and `MergeRefines`, for `LibFuzzerSpec`.  Every step
  of the composition is a step of each part or leaves its variables alone
  (`PartsStep`), so a behaviour of `LibFuzzer` is one of `MergeSpec`,
  `ForkSpec`, `FuzzSpec` and the others (`PartsBehave`), whose theorems apply.
  The driver needs an argument of its own (`ProcessChain`): its chain is empty
  in a process that plays another part.

### Induction

The provers cannot use induction theorems that take a predicate as a parameter.
Where the proofs need induction (the recursion of `reduceToPowerOfTwo`, powers
of two, logarithms, ascending lists, last positions, the i-th of some places)
they take a minimal counterexample instead: a nonempty set of naturals, or of
finite sets, has a member with none below it (`WFMin`, `LeastNumber`), and that
one is refuted.

### Model-checked only

* `Terminates` and `PartsEnd`: liveness is out of the prover's reach.
* Properties the runs refute have no theorem, of course.

## What is not modelled

* The two buffers of `AFLCustomHepler`, their lengths and the copies into them.
  The code bounds what it writes into the first by `max_size`, but neither what
  it copies there from AFL++ nor the size of the post-processed message; both
  are listed as hazards.
* `afl_custom_init`, `afl_custom_deinit`, the debug output, and the two dump
  files.
* The random engines: every draw is a choice over its range, so the probability
  of an outcome is not part of the model.
* Embedded messages deeper than one level, and types of scalars.  The bool
  branch of `MutateRepeatedField` writes with the wrong setter; no field of the
  schema reaches it.
* The text format beyond the codec function: a process uses one format.
* The schemas, the test driver, the seed generator and the target stub, which
  have no behaviour of their own.
* libFuzzer: `CollectDFT` and the data flow traces; `AnalyzeDictionary`; the
  focus function and the energy of inputs, which only weigh choices that are
  left open here; the tables of program counters and functions, statistics and
  everything printed; the feature files (`WriteFeatureSetToFile`); the purging
  of the allocator; the tables of recent comparisons, which offer any word of
  `CmpWords`; options that only set a number.
* Merge: the control file cut off within its last name, which reads as another
  name; what cut digits read as, which is any number of `CutNumbers`.
* Callbacks: what another thread reads of a unit that the fuzzing thread is
  copying.
* Cleansing: a child that is killed, and passes for one that fails.
* The platform layers (Posix but for the signal handlers, Windows, Fuchsia,
  Darwin), files, SHA1, the driver for AFL under `Fuzzer/afl` and the
  instrumentation under `Fuzzer/dataflow`: input and output without a state
  that the parts above depend on.  File contents stand for their hashes.
