CONSTANTS
    Proc = {p1}
    Host = {h1}
    Runtime = {r1}
    Ctx = {c1, c2}
    None = None
    CallbackAttach = FALSE
    LateCalls = TRUE
SPECIFICATION Spec
INVARIANTS ExitDetaches
