\* Safety and liveness, with a caller that may be abandoned.
SPECIFICATION SFFairSpec
CONSTANTS
    Caller = {c1, c2, c3}
    Key = {k1, k2}
    Channel = {h1, h2, h3}
    Abandonable = {c3}
    Closed = Closed
    Failed = Failed
    None = None
    Outcome <- KeyOutcome
INVARIANTS
    SFTypeOK
    RegisteredHasLeader
    AnswersOwnKey
PROPERTIES
    EveryCallReturns
    ImplementsFlight
