\* With and without a PID file; starts that overlap, kills at any moment, numbers
\* given out again, one supervised instance and two that somebody starts.
SPECIFICATION FairBootSpec
CONSTANTS
    Instance = {i1, i2, i3}
    Pid = {p1, p2, p3}
    None = None
    Empty = Empty
    Stranger = Stranger
    Supervised = {i1}
INVARIANTS
    BootTypeOK
    RefusedOnlyIfRunning
    GuardNamesOwner
PROPERTIES
    GuardTakesFile
    ServiceRecovers
