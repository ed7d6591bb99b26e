\* The /dev/mem backend, a table that starts in the middle of a page.
SPECIFICATION FairSpec
CONSTANTS
    Backend = "mem"
    SizeOf <- VersionSizes
    SmuVersions <- AllVersions
    UnknownSize = 4096
    AllOnes = 2147483647
    MaxTableSize = 8192
    WordSize = 4
    PageSize = 4096
    PageOffset = 2048
    KmodSize = 0
INVARIANTS TypeOK SizeIsBuffer InitBringsValues RefreshRenews GuardReleased
    GettersAnswer OneWordOneQuantity LimitBesideValue
PROPERTIES CallReturns
