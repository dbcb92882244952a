CONSTANTS
    N = 2
    Slaves = {rom, dram}
    None = None
SPECIFICATION FairSpec
INVARIANTS
    AnswersRouted
    NoOrphans
    StrobeAgrees
PROPERTIES
    GrantHeld
    HandedOver
    Progress
