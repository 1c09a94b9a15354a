\* Three runs of -s with either version over the output directory, with
\* I/O failures, kills and foreign entries.
CONSTANTS
    DirLinks <- MCDirLinks
    FileLinks <- MCFileLinks
    Versions <- MCVersions
    InitFs <- MCInitFs
    IoFaults = TRUE
    MaxRuns = 3
SPECIFICATION Spec
INVARIANTS
    TypeOK
    LinksInPlace
    NoSelfConflict
