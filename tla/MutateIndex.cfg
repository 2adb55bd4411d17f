SPECIFICATION Spec
CONSTANTS
    Scalars = {0, 1, 2}
    Default = 0
    RootType <- FlatType
    LeafType <- NoLeaf
    RootSize <- MCRootSize
    LeafSize <- MCLeafSize
    LongLength = 4
    MaxNewRepeated = 2
    Seeds <- FlatSeeds
    Budgets = {30}
CHECK_DEADLOCK FALSE
INVARIANT SetMembersMutable
