\* The three comparisons the user interface offers a first scan.
SPECIFICATION Spec
CONSTANTS
    Range <- TwoRanges
    Base <- BaseOfTwo
    Size <- SizeOfTwo
    Step = 2
    UintModulus = 256
    Value = {0, 1}
    Rejected = {}
    FirstKinds = {0, 1, 2}
    NextKinds = {0}
    MaxCalls = 1
    MaxEvents = 0
INVARIANT HubKindsHeld
\* When the calls and the steps of the target are used up, nothing runs.
CHECK_DEADLOCK FALSE
