\* Files that declare a longer array name starting with the wanted one.
CONSTANTS
    Files <- MCFiles
    Array <- MCArray
    NoSize = NoSize
    ExpectedSizes <- MCExpectedSizes
SPECIFICATION Spec
INVARIANT
    ExactArrayName
