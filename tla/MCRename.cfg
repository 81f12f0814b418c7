SPECIFICATION Spec
CONSTANTS
  NCG = 1
  FPG = 6
  IPG = 6
  Frag = 1
  DBlkNo = 2
  DSize = 6
  CountMod = 64
  NDADDR = 2
  NIADDR = 0
  Names = {a, b}
  NameLen <- MCShortLen
  DIRBLKSIZ = 48
  Kinds = {"dir"}
  Rdev = 5
  Target <- MCTarget
INVARIANTS
  FsckClean
  ParentsExact
SYMMETRY Alike
VIEW View
