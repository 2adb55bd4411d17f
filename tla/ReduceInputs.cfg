SPECIFICATION FuzzSpec
CONSTANTS
    a = a
    b = b
    c = c
    d = d
    e = e
    Inputs = {a, b, c, d, e}
    SizeOf <- MCSizeOf
    FeaturesOf <- MCFeaturesOf
    Killers = {}
    CutNumbers = {}
    Leakers = {}
    SeedCorpora <- MCSeedCorpora
    SeedsOnDisk = {}
    kFeatureSetSize = 6
    MaxInputLen = 5
    FlagSettings <- DefaultFlags
    MutateDepth = 1
    MaxNumberOfRuns = 7
    MaxWrites = 0
CHECK_DEADLOCK FALSE
INVARIANT
    DiskKeepsFeatures
