SPECIFICATION Spec
CONSTANTS
    Bits = 12
    NaN = NaN
    Infinity = Infinity
    Inputs <- MCInputs
    RandomReals <- MCRandomReals
    MaxNewRepeated = 2
    MaxRotations = 1
INVARIANT ModSizesDiffer
