SPECIFICATION Spec
CONSTANTS
    CallInit = 2
    CallMax = 3
    CounterInit = 1
    MaxDepth = 3
    StackMax = 2
    DoNames = 2
    Counts = {0, 2}
    Bounds = {1, 2}
    Kinds = {"count", "to", "for", "plain"}
    Conds = {"SYNTAX", "NOVALUE"}
    Failures <- MCFailures
    ForShared = FALSE
    ForDeep = FALSE
    CopiesLost = TRUE
    Top = Top
    None = None
INVARIANTS StorageOwned
CONSTRAINT Bounded
