\* Three calls over three elements of three values, every scan type, a value
\* writeValue throws on, the target doing one step.
SPECIFICATION FairSpec
CONSTANTS
    Range <- TwoRanges
    Base <- BaseOfTwo
    Size <- SizeOfTwo
    Step = 2
    UintModulus = 256
    Value = {0, 1, 2}
    Rejected = {2}
    FirstKinds = {0, 1, 2, 5}
    NextKinds = {0, 1, 2, 3, 4, 5, 6}
    MaxCalls = 3
    MaxEvents = 1
INVARIANTS CandidatesMatch QuietScanExact ResultsOwnBuffers NextScanLeaksNothing
PROPERTY ScanReturns
\* When the calls and the step of the target are used up, nothing runs.
CHECK_DEADLOCK FALSE
