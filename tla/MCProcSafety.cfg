CONSTANTS
    Proc = {p1}
    Host = {h1, h2}
    Runtime = {r1, r2}
    Ctx = {c1, c2, c3}
    None = None
    CallbackAttach = FALSE
    LateCalls = FALSE
SPECIFICATION Spec
SYMMETRY Symmetry
INVARIANTS TypeOK NoUseAfterDestroy OneReclaimer NoLostWakeup ListSound CloneExclusive
PROPERTIES DestroyQuiescent AbsSpec
