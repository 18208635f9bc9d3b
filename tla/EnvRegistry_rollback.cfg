SPECIFICATION Spec
CONSTANTS
    Tasks = {t1, t2}
    Blocks = {b1, b2}
    TotalSlots = 5
    Sentinels <- MCSentinels
    TsoChoices = {TRUE}
    PermChoices = {TRUE}
    Mortal = {}
    Serialized = FALSE
    None = None
    Foreign = Foreign
    Free = Free
    Sentinel = Sentinel
PROPERTY RollbackGuarded
