\* Two requests for one key beside the handlers; signals that may be lost.
SPECIFICATION FairSpec
CONSTANTS
    Request = {r1, r2}
    Key = {1}
    File = {1}
    Channel = {h1, h2}
    Reads <- AllFiles
    Meta <- WithMtimes
    Uncacheable = {}
    Prefixes <- EachKey
    MaxVersion = 1
    Mtime <- Seconds
    Reval = TRUE
    Stimuli = {"mark", "invalidate", "where", "clear", "expire", "age"}
    Failed = Failed
    Closed = Closed
    None = None
PROPERTIES
    EveryRequestAnswered
    EventuallyConsistent
    FlagsDrain
