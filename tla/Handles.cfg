\* Two handles, opened and closed in any order, on every supported processor.
SPECIFICATION Spec
CONSTANTS
    Handles = {h1, h2}
    NoHandle = NoHandle
    Processors <- SomeProcessors
    FoundDriverStays = TRUE
INVARIANTS TypeOK BackendOfHandle NothingLeft RegistersApart
