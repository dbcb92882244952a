CONSTANTS
    MaxLen = 2
    COMB_CYC = TRUE
    Top = 8
    NumLines = 2
    LineWords = 2
    CachedTop = 6
    Crossings = {"toUncached"}
    DataOps = {"fast", "mul", "arb", "ram"}
    Waits = TRUE
SPECIFICATION FairSpec
INVARIANTS
    IInv
    InstrRight
    LinesRight
    AnswersRouted
    FetchAgrees
    CacheOnlyFills
PROPERTIES
    Moves
