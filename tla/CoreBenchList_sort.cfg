CONSTANTS
    Size = 10
    Cells = {1, 2, 3, 4, 5, 6, 7, 8, 9}
    Items = {1, 2, 3, 4, 5, 6, 7, 8, 9}
    Nil = 0
    Seeds = {0, 7, 12}
    FindNums = {0, 1, 3, 4}
    Values = {5, 127}
SPECIFICATION FairSpec
INVARIANTS
    NoCellLost
    SortedStably
    BackToOriginal
PROPERTIES
    Returns
