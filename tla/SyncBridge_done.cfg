CONSTANTS
    Accesses = {a1, a2}
    Refused = {}
    None = None
SPECIFICATION Spec
INVARIANTS
    AnsweredWhenDone
