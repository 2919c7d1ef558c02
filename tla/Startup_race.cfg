\* Two instances that start at the same time.
SPECIFICATION BootSpec
CONSTANTS
    Instance = {i1, i2}
    Pid = {p1, p2}
    None = None
    Empty = Empty
    Stranger = Stranger
    Supervised = {i1}
INVARIANTS
    MutualExclusion
