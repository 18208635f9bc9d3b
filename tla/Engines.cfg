SPECIFICATION EnginesSpec
CONSTANTS
    ControlMax = 3
    PatchMax = 3
    CodeMax = 100
    DoNames = 10
    Counts = {0, 1, 2}
    Programs <- MCPrograms
    MaxVars = 3
    StrMax = 2
    DefaultDigits = 2
    Slack = 12
    DigitsMax = 3
    PowLimit = 12
INVARIANTS ParsedAsPromised EnginesAgree ComputesAsPromised ComparesAsPromised
PROPERTIES AsPromised Progress ClauseNamed
CHECK_DEADLOCK FALSE
