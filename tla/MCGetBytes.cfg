\* Every file of up to three lines, and marker-and-array files of up to
\* six, with and without an expected size.
CONSTANTS
    Files <- MCFiles
    Array <- MCArray
    NoSize = NoSize
    ExpectedSizes <- MCExpectedSizes
SPECIFICATION Spec
INVARIANTS
    TypeOK
    ScanMatchesReference
