\* test_stl_profiles over two profiles: a passing test whose capture
\* differs from the golden one.
CONSTANTS
    None = None
    RawA = RawA
    RawB = RawB
    Tests <- MCTests
    Golden <- MCGolden
    SimOutputs <- MCSimOutputs
    TsTolerance = 5
SPECIFICATION Spec
INVARIANT
    PassMeansGoldenMatch
\* The test ends: after its last step nothing runs.
CHECK_DEADLOCK FALSE
