SPECIFICATION Spec
CONSTANTS
    ControlMax = 3
    PatchMax = 3
    CodeMax = 100
    DoNames = 10
    Counts = {0, 1, 2}
    Programs <- GroupPrograms
PROPERTY AsPromised
CHECK_DEADLOCK FALSE
