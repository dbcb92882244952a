CONSTANTS
    Accesses = {a1, a2, a3}
    Refused = {a3}
    None = None
SPECIFICATION FairSpec
INVARIANTS
    OneStation
    HeldAcross
PROPERTIES
    Carries
    Released
