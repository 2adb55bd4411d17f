SPECIFICATION FairSpec
CONSTANTS
    Scalars = {0, 1, 2, 3}
    Default = 0
    RootType <- MixedType
    LeafType <- PlainLeaf
    RootSize <- MCRootSize
    LeafSize <- MCLeafSize
    LongLength = 4
    MaxNewRepeated = 2
    MaxReplaceRepeated = 2
    Pairs <- FlatPairs
    Budgets = {7, 10}
CHECK_DEADLOCK FALSE
INVARIANT ResultFits
