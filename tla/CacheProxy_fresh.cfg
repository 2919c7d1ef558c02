\* One request at a time, an entry built from two files, two writes of each: the
\* daemon's signals arrive late, lost and out of order.  Key 2 is not cacheable.
SPECIFICATION Spec
CONSTANTS
    Request = {r1}
    Key = {1, 2}
    File = {1, 2}
    Channel = {h1}
    Reads <- AllFiles
    Meta <- WithMtimes
    Uncacheable = {2}
    Prefixes = {}
    MaxVersion = 2
    Mtime <- Seconds
    Reval = TRUE
    Stimuli = {"mark", "expire", "age", "freeze"}
    Failed = Failed
    Closed = Closed
    None = None
INVARIANTS
    ProxyTypeOK
    StaleIsFlagged
PROPERTIES
    HitFresh
    ClearedOnlyWhenCaughtUp
