SPECIFICATION Spec
CONSTANTS
    Tries = 2
    Failures = 2
    Workers = {r1, r2}
    Cleaner = Cleaner
    Kids = 2
    NoRow = NoRow
    Nobody = Nobody
INVARIANTS
    TypeOK
    ServesProvisioned
    CleanStartHeals
    NoLimbo
    NoOrphan
    ActivatedCanLogin
PROPERTIES
    LapsedGoes
CHECK_DEADLOCK FALSE
