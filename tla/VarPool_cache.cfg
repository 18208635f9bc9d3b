SPECIFICATION Spec
CONSTANTS
    Simple = {"RESULT", "SIGL", "RC"}
    StemOf <- NoStems
    RESULT = "RESULT"
    SIGL = "SIGL"
    RC = "RC"
    Mentions = {"RESULT", "SIGL"}
    Values = {v}
    Number = v
    Addrs = {p, q, r}
    MaxCalls = 2
    MaxGen = 4
    ProcFirst = TRUE
    Overlap = FALSE
    Absent = Absent
    Unset = Unset
    Ref = Ref
    Dangling = Dangling
    None = None
INVARIANTS TypeOK CacheSound NoPoolLeak
PROPERTIES ScopeRestored
SYMMETRY AddrSymmetry
