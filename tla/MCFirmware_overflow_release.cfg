\* Images near 2^WordBits in a build without overflow checks: the sums wrap.
CONSTANTS
    Targets <- MCTargets
    Versions <- MCVersions
    VersionLen <- MCVersionLen
    SigLens <- MCSigLens
    ImageLens <- MCBigImageLens
    WordBits = 16
    DescLens = {4}
    PatchLocs = {5}
    MetaVals = {7}
    IoFaults = FALSE
    OverflowChecks = FALSE
    MaxRuns = 2
SPECIFICATION Spec
INVARIANT
    TotalSizeSound
