\* Two callers of /freeze and /thaw whose calls overlap; three requests and the
\* eviction task; batches of up to three elements, equal names and non-strings
\* among them, a window of two and a freeze that comes and goes.
SPECIFICATION ProcessSpec
CONSTANTS
    Admin = {a1, a2}
    Scope = {s1}
    Global = global
    MaxTime = 3
    Nothing = Nothing
    Task = {t1, t2, t3}
    Evictor = evictor
    CacheKey = {k1, k2}
    MaxSamples = 3
    Client = {c1}
    Name = {a, b}
    NotString = NotString
    MaxLen = 3
    Cap = 2
INVARIANTS
    ProcessTypeOK
    FreezesLast
    ThawsHold
    EndsOnTime
    NoSampleLost
    ResultsInOrder
    AtMostCap
    RefusedOnlyIfFrozen
    FreezeHolds
PROPERTIES
    GaugeSettles
    EveryBatchAnswered
