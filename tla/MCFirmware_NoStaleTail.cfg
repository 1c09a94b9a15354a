\* Two runs over one output directory, with I/O failures and kills.
CONSTANTS
    Targets <- MCTargets
    Versions <- MCVersions
    VersionLen <- MCVersionLen
    SigLens <- MCSigLens
    WordBits = 16
    ImageLens = {8}
    DescLens = {4}
    PatchLocs = {5}
    MetaVals = {7}
    IoFaults = FALSE
    OverflowChecks = TRUE
    MaxRuns = 2
SPECIFICATION Spec
INVARIANT
    NoStaleTail
