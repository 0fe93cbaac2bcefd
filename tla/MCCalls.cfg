SPECIFICATION MCSpec
CONSTANTS
  Parts = {"stacks", "arm64", "table", "parameters", "threads"}
  Broken = {}
  Ctx = {c1, c2}
  None = None
  Arch = "x64"
  Direct = {c1}
  MaxFrames = 5
  MaxSp = 2
  Fn = {f, g}
  NSlots = 2
  Host = {h1, h2}
  Caller = {t1}
  NoFn = NoFn
  InitSteps = 5
  Sbx = {A, B}
  NoSbx = NoSbx
  MaxDepth = 5
  MaxActs = 4
  MaxBufs = 1
  BufSizes = {1}
  BufAligns = {1, 2}
  IntRegs = 1
  FloatRegs = 1
  Args <- MCArgs
  Reuse = FALSE
  Worker = {w1, w2}
  Place = {p1, p2}
  MaxId = 3
  MaxCalls = 2
  Capacities = {2}
CHECK_DEADLOCK FALSE
INVARIANTS ReturnsHome SavedState StableEntry TableSound StackSound OutCopied ContextsOwn
PROPERTIES CallSpec
