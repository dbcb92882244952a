CONSTANTS
    Byte = 2
    GPR = {0, 1, 2}
    Link = 2
    Vector = 12
    ResetVector = 0
    VectorBev = 8
    VectorNoBev = 12
    VectorMlite = 12
    MemSize = 8
    WinBase = 8
    Program <- MCProgram
    Images <- MCImages
    MaxSteps = 4
    MaxLag = 1
SPECIFICATION Spec
CHECK_DEADLOCK FALSE
CONSTRAINT Bounded
INVARIANTS
    PsxNoFalseAlarm
    MliteNoFalseAlarm
    PsxFollows
    MliteFollows
    LoopFollows
    StreamsAgree
