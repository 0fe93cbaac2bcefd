SPECIFICATION MCSpec
CONSTANTS
  Parts = {"load", "symbols", "stack", "memory", "no_aslr", "spaces"}
  InOrder = TRUE
  OffBits = 4
  Libraries <- MCLibraries
  LibMin = 16
  LibMax = 32
  LoadBase = 16
  LibSyms = {"malloc", "free"}
  Page = 2
  BoxMin = 4
  BoxMax = 24
  CodeMax = 12
  PhnumMax = 2
  BrkMax = 2
  Programs <- MCPrograms
  Interpreters <- MCInterpreters
  StackSize = 40
  StackBase = 8
  Word = 2
  Align = 4
  Random = 4
  AuxvSize = 6
  Window = 4
  ArgvMax = 4
  EnvpMax = 3
  MaxLen = 4
  Lengths = {0, 1, 3, 4, 6}
  PageSize = 2
  NPages = 5
  BrkBase = 2
  BrkSize = 3
  StackPages = 1
  NoAslr = FALSE
  Configs <- BothConfigs
  NUnits = 24
  Chunk = 2
  BoxSize = 4
  Most = 21
  Want = 20
  Least = 8
  MaxRegions = 3
  MaxOthers = 3
  Box = {b1, b2, b3}
CHECK_DEADLOCK FALSE
INVARIANTS LoadedSound SymbolsSound NoBusError LayoutFits MemoryKept SpacesSound EnoughSpace
PROPERTIES OthersKept
