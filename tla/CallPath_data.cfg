\* Two repositories with one path, every form of answer, one commit to each file,
\* signals of the daemon at any time.
SPECIFICATION Spec
CONSTANTS
    Repo = {"ut", "bp"}
    Path = {"a"}
    NoScope = ""
    NotString = NotString
    NotJson = NotJson
    None = None
    ScopeArgs <- MCScopeArgs
    ScopeRule <- MCScopeRule
    ToolRule <- MCToolRule
    DefaultTtl = 600
    Calls <- MCCalls
    MarkBodies <- MCMarkBodies
    DropBodies <- MCDropBodies
    FreezeBodies <- MCFreezeBodies
    Shapes <- AllShapes
    MaxVersion = 1
INVARIANTS
    TypeOK
    NoMetaServed
    OnlyCacheableKept
    InvalidationIsSelective
    InvalidationReachesFiles
PROPERTIES
    ScopedHitFresh
    NothingWhileFrozen
