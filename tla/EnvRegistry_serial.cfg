SPECIFICATION Spec
CONSTANTS
    Tasks = {t1, t2}
    Blocks = {b1, b2, b3}
    TotalSlots = 5
    Sentinels <- MCSentinels
    TsoChoices = {TRUE, FALSE}
    PermChoices = {TRUE}
    Mortal = {}
    Serialized = TRUE
    None = None
    Foreign = Foreign
    Free = Free
    Sentinel = Sentinel
PROPERTIES FindNeverReentrant ImplementsEnvService
SYMMETRY Symmetry
