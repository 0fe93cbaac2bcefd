SPECIFICATION MCSpec
CONSTANTS
  work = work
  docs = docs
  t1 = t1
  Names = {work, docs, "r", "v"}
  Maps <- MCMaps
  MaxPath = 7
  Thread = {t1, t2}
  None = None
  NoFile = 2
  HostFds = 4
  Std <- MCStd
  HostFiles <- MCHostFiles
  HostDirs <- MCHostDirs
  PathArg <- FewPaths
  MaxIov = 2
  Bits = 4
  BoxLow = 4
  BoxHigh = 12
  NameMax = 4
  IovMax = 2
  IovSize = 4
  AllocAlign = 4
  CpuMask = 2
  Layout <- MCLayout
  Dirents <- MCDirents
  ElemSizes = {2, 3}
  Strings <- MCStrings
CHECK_DEADLOCK FALSE
INVARIANTS HostOwned MarksSound PathsSound AccessSound
PROPERTIES TableSpec
