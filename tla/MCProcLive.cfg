CONSTANTS
    Proc = {p1, p2}
    Host = {h1}
    Runtime = {r1}
    Ctx = {c1, c2}
    None = None
    CallbackAttach = FALSE
    LateCalls = FALSE
SPECIFICATION FairSpec
INVARIANTS ExitDetaches
PROPERTIES FreeCompletes
