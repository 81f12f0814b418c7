SPECIFICATION Spec
CONSTANTS
  NCG = 2
  FPG = 28
  IPG = 4
  Frag = 2
  DBlkNo = 2
  DSize = 56
  CountMod = 64
  NDADDR = 1
  NIADDR = 3
  Files = {5}
  Tags = {1}
  Sizes = {0, 1, 2, 3, 6, 7, 14, 15, 16, 22, 23, 30}
  Retried = {}
INVARIANTS
  ReadBack
  FilesClean
VIEW View
