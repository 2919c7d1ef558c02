\* Insertions beside insertions and removals beside removals, look-ups beside both.
SPECIFICATION Spec
CONSTANTS
    Worker = {w1, w2, w3}
    Key = {k1, k2}
    File = {f1, f2}
    Mixed = FALSE
    None = None
SYMMETRY Interchangeable
INVARIANTS
    TypeOK
    EmptySetsAreVacated
    IndexCoversCache
    InvalidationComplete
