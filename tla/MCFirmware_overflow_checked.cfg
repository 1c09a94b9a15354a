\* Images near 2^WordBits in a build with overflow checks: the sums panic.
CONSTANTS
    Targets <- MCTargets
    Versions <- MCVersions
    VersionLen <- MCVersionLen
    SigLens <- MCSigLens
    ImageLens <- MCBigImageLens
    WordBits = 16
    DescLens = {4}
    PatchLocs = {5}
    MetaVals = {7}
    IoFaults = FALSE
    OverflowChecks = TRUE
    MaxRuns = 2
SPECIFICATION Spec
INVARIANTS
    ImagesSound
