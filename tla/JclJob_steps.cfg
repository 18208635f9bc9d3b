SPECIFICATION Spec
CONSTANTS
    SearchDDs <- MCSearch
    SeqLen = 2
    InitLines = 1
    InitBytes = 2
    LineBuf = 20
    Libraries <- MCLibraries
    MaxShort = 1
    Execs <- MCExecs
    Calls <- MCCalls
    MaxDepth = 2
    MaxNested = 1
    Parms <- MCParms
    MaxJobs = 2
INVARIANTS LoadedAsPromised FieldsOwned GivenBack ResultTells RunOnce
CHECK_DEADLOCK FALSE
