\* A flag with a value, which is left for the option after it.
SPECIFICATION Spec
CONSTANTS
    WordMax = 15
    Starts <- FlagValueStarts
INVARIANT OwnValue
