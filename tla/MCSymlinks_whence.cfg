\* The links of the two tables of symlinks() against WHENCE.txt.
CONSTANTS
    DirLinks <- MCDirLinks
    FileLinks <- MCFileLinks
    Versions <- MCVersions
    InitFs <- MCInitFs
    IoFaults = TRUE
    MaxRuns = 3
SPECIFICATION Spec
INVARIANT
    FarmMatchesWhence
