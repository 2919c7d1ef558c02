\* An invalidation between the links and the insertion of an entry.
SPECIFICATION Spec
CONSTANTS
    Worker = {w1, w2}
    Key = {k1}
    File = {f1}
    Mixed = TRUE
    None = None
SYMMETRY Interchangeable
INVARIANTS
    IndexCoversCache
