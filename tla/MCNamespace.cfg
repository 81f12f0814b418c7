SPECIFICATION Spec
CONSTANTS
  NCG = 1
  FPG = 10
  IPG = 5
  Frag = 2
  DBlkNo = 2
  DSize = 6
  CountMod = 64
  NDADDR = 2
  NIADDR = 0
  Names <- MCNames
  NameLen <- MCNameLen
  DIRBLKSIZ = 40
  Kinds = {"empty", "file", "dir", "symlink", "device"}
  Rdev = 5
  Target <- MCTarget
INVARIANTS
  TypeOK
  FsckClean
  ContentsKept
PROPERTIES
  ImplementsTree
VIEW View
