SPECIFICATION LibFuzzerSpec
CONSTANTS
    a = a
    b = b
    c = c
    d = d
    e = e
    x = x
    y = y
    z = z
    p = p
    Inputs = {a, b, c, d, e, x, y, z}
    SizeOf <- MCSizeOf
    FeaturesOf <- MCFeaturesOf
    Killers = {x, y, z}
    CutNumbers = {2}
    InitialFeatures = {}
    Corpora <- MCCorpora
    MaxMerges = 2
    MaxMergeFaults = 2
    SeedFiles = {a}
    NumForkJobs = 2
    MaxJobs = 3
    Findings <- MCFindings
    ExitCodes = {0, 72, 77}
    InterruptExitCode = 72
    Ignored = {0}
    Leakers = {e}
    SeedCorpora <- MCSeedCorpora
    SeedsOnDisk = {a}
    kFeatureSetSize = 5
    MaxInputLen = 5
    MutateDepth = 2
    MaxNumberOfRuns = 6
    FlagSettings <- MCFlagSettings
    MaxWrites = 1
    NumWorkers = 2
    NumJobs = 3
    TokenOf <- MCTokenOf
    Originals = {a, x, z}
    NoToken = none
    MaxMinFaults = 2
    ReplacementBytes <- MCReplacementBytes
    Failing <- MCFailing
    CrashInputs <- MCCrashInputs
    MaxAttempts = 5
    CommandLines <- MCCommandLines
    FilePaths = {"input"}
    Directories = {"C", "D"}
    Cores = 4
    UnitsRun = {a, c}
    NoUnit = none
    SanitizerCrashState = TRUE
    Bytes = {0, 1}
    Digits = {1}
    Space = 0
    Units <- MCUnits
    ManualDictionary <- MCManual
    CmpWords <- MCCmpWords
    CustomResults <- MCCustom
    MaxMutationLen = 2
    IntSizes = {1, 2}
    kMinBytesToInsert = 0
    kCmpDictionaryEntriesDequeSize = 2
    kMaxDictSize = 1
    MaxMutations = 3
    Memory = 8
    PageSize = 2
    Step = 2
    Sections <- MCSections
    ExtraCounters <- MCExtra
    Executions = {200, 256}
    ValueBits = 2
    MapSizeInBits = 16
    Compares <- MCCompares
    MaxModules = 2
    StackOffsets = {72}
    UseCounters = TRUE
    UseValueProfile = TRUE
CHECK_DEADLOCK FALSE
INVARIANTS
    LibFuzzerTypeOK
    AttemptsSuffice
    ControlFileParses
    JobsInFlight
    FeaturesBacked
    FeatureAccounting
    BaseAlive
    JobsReported
    
    CleansedAndLocallyMinimal
    ChildrenPlayTheirPart
    ReportsNameTheUnit
    PointersKeepTheirWords
    CountersBecomeFeatures
PROPERTIES
    MergeRefines
    PartsEnd
