SPECIFICATION Spec
CONSTANTS
    Chunks = {a, b}
    Loose = {m}
    Versions = {v1, v2}
    None = None
SYMMETRY CacheSymmetry
CHECK_DEADLOCK FALSE
INVARIANTS TypeOK ForcedRunIsCurrent StaleHasExcuse
PROPERTIES EditsKept
