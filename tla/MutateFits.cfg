SPECIFICATION FairSpec
CONSTANTS
    Scalars = {0, 2}
    Default = 0
    RootType <- NestedType
    LeafType <- PlainLeaf
    RootSize <- MCRootSize
    LeafSize <- MCLeafSize
    LongLength = 3
    MaxNewRepeated = 2
    Seeds <- NestedSeeds
    Budgets = {8}
CHECK_DEADLOCK FALSE
INVARIANT ResultFits
