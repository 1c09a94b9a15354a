\* Compressed arrays whose DATA SIZE differs from what they inflate to.
CONSTANTS
    Files <- MCFiles
    Array <- MCArray
    NoSize = NoSize
    ExpectedSizes <- MCExpectedSizes
SPECIFICATION Spec
INVARIANT
    DeclaredSizeHonoured
