SPECIFICATION MCSpec
CONSTANTS
  NumPages = 3
  Prots <- MCProts
  Src = {zero}
  Text = {zero, code}
  Zero = zero
  Passing = {code}
  Aslr = TRUE
  Noverify = TRUE
  Main = m
  Spawned = {s1}
  Cloner = k
  Lazy = {a}
  Word = {w}
  Code = {0, 1}
  None = None
CHECK_DEADLOCK FALSE
INVARIANTS ExecVerified NoStrayRights RangesSound CodeRequested NoLostJoin ThreadsListed AttachedLeave
PROPERTIES TableSpec JoinReturns
