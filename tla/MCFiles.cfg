SPECIFICATION Spec
CONSTANTS
  NCG = 2
  FPG = 8
  IPG = 4
  Frag = 2
  DBlkNo = 2
  DSize = 13
  CountMod = 64
  NDADDR = 1
  NIADDR = 1
  Files = {3, 4}
  Tags = {1}
  Sizes = {0, 1, 2, 3, 4, 5}
  Retried = {3}
INVARIANTS
  TypeOK
  ReadBack
  FilesClean
  
PROPERTY FailsOnlyWhenFull
VIEW View
