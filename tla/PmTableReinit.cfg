\* Over /dev/mem: a second init_table() that fails half way, and a refresh after it.
SPECIFICATION Spec
CONSTANTS
    Backend = "mem"
    SizeOf <- VersionSizes
    SmuVersions <- AllVersions
    UnknownSize = 4096
    AllOnes = 2147483647
    MaxTableSize = 8192
    WordSize = 4
    PageSize = 4096
    PageOffset = 2048
    KmodSize = 0
INVARIANT AccessesBounded
