SPECIFICATION Spec
CONSTANTS
  NumPages = 2
  Prots <- MCProtsFew
  Src = {zero}
  Text = {zero}
  Zero = zero
  Passing = {}
  Aslr = FALSE
  Noverify = FALSE
INVARIANTS
  QuerySound
