\* The driver is unloaded after it could not be opened.
SPECIFICATION Spec
CONSTANTS
    Handles = {h1}
    NoHandle = NoHandle
    Processors <- SomeProcessors
    FoundDriverStays = FALSE
INVARIANT FallbackUsesMem
