SPECIFICATION Spec
CONSTANTS
    Simple = {"RESULT", "SIGL", "RC"}
    StemOf <- MCStemOf
    RESULT = "RESULT"
    SIGL = "SIGL"
    RC = "RC"
    Mentions = {"A.", "A.1"}
    Values = {v, w}
    Number = v
    Addrs = {1, 2, 3}
    MaxCalls = 2
    MaxGen = 0
    ProcFirst = TRUE
    Overlap = FALSE
    Absent = Absent
    Unset = Unset
    Ref = Ref
    Dangling = Dangling
    None = None
INVARIANTS ReadsAsPromised NoDanglingRef
PROPERTIES ImplementsVarService
CONSTRAINT InOrder
