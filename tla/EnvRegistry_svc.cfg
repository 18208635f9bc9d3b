SPECIFICATION Spec
CONSTANTS
    Tasks = {t1, t2}
    Blocks = {b1, b2, b3}
    TotalSlots = 4
    Sentinels <- MCSentinels
    TsoChoices = {TRUE}
    PermChoices = {TRUE}
    Mortal = {t2}
    Serialized = FALSE
    None = None
    Foreign = Foreign
    Free = Free
    Sentinel = Sentinel
INVARIANTS TypeOK RegistryExact AnchorNotDangling TokenOrder
PROPERTIES NeverRecycled FindAnswersRegistered
SYMMETRY BlockSymmetry
