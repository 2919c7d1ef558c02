\* The window between the broadcast and the removal of the key.
SPECIFICATION SFSpec
CONSTANTS
    Caller = {c1, c2}
    Key = {k1}
    Channel = {h1, h2}
    Abandonable = {}
    Closed = Closed
    Failed = Failed
    None = None
    Outcome <- KeyOutcome
INVARIANTS
    NoSpuriousFailure
