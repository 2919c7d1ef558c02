\* Two keys that depend on one file, one request at a time.
SPECIFICATION Spec
CONSTANTS
    Request = {r1}
    Key = {1, 2}
    File = {1}
    Channel = {h1}
    Reads <- AllFiles
    Meta <- WithMtimes
    Uncacheable = {}
    Prefixes = {}
    MaxVersion = 1
    Mtime <- Seconds
    Reval = TRUE
    Stimuli = {"mark"}
    Failed = Failed
    Closed = Closed
    None = None
PROPERTIES
    HitFresh
