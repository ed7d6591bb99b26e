\* The ryzen_smu backend, whose table is larger than some versions imply and
\* smaller than others.
SPECIFICATION Spec
CONSTANTS
    Backend = "kmod"
    SizeOf <- VersionSizes
    SmuVersions <- AllVersions
    UnknownSize = 4096
    AllOnes = 2147483647
    MaxTableSize = 8192
    WordSize = 4
    PageSize = 4096
    PageOffset = 0
    KmodSize = 2304
INVARIANTS SizeIsBuffer CopyInBounds GettersInBuffer
