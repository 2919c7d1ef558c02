\* Two calls of /freeze that overlap.
SPECIFICATION Spec
CONSTANTS
    Admin = {a1, a2}
    Scope = {s1}
    Global = global
    MaxTime = 3
    Nothing = Nothing
PROPERTIES
    FreezesNeverShorten
