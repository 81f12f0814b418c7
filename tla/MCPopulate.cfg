SPECIFICATION Spec
CONSTANTS
  NCG = 2
  FPG = 10
  IPG = 6
  Frag = 2
  DBlkNo = 2
  DSize = 16
  CountMod = 64
  NDADDR = 3
  NIADDR = 0
  Names <- MCNames
  NameLen <- MCNameLen
  DIRBLKSIZ = 40
  HostTrees <- MCHostTrees
  HostRoot = 1
  Tables <- MCTables
INVARIANTS
  PopulateTypeOK
  TreeCopied
  CleanWhenDone
CHECK_DEADLOCK FALSE
