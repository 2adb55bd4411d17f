SPECIFICATION Spec
CONSTANTS
    Bits = 12
    NaN = NaN
    Infinity = Infinity
    Inputs <- MCInputs
    RandomReals <- MCRandomReals
    MaxNewRepeated = 2
    MaxRotations = 1
INVARIANTS
    TypeOK
    ApiRefsInRange
    WeightsPaired
    DigitSizeFitsDepth
    SetModSizesDiffer
    RotationsDistinct
PROPERTIES
    LargestPower
