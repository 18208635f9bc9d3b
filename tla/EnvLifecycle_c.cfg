SPECIFICATION Spec
CONSTANTS
    Blocks = {b1, b2, b3}
    Capacity = 4
    Doors = {"c"}
    TsoChoices = {TRUE, FALSE}
    Idle = Idle
    Blank = Blank
INVARIANTS TypeOK UsesBacked NoOrphans ReadyToRun
PROPERTY NothingOutlivesEnvblock
SYMMETRY BlockSymmetry
