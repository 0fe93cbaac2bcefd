CONSTANTS
    Proc = {p1}
    Host = {h1}
    Runtime = {r1}
    Ctx = {c1, c2}
    None = None
    CallbackAttach = TRUE
    LateCalls = FALSE
SPECIFICATION Spec
PROPERTIES DestroyQuiescent
