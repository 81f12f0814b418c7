SPECIFICATION FairMountSpec
CONSTANTS
  NCG = 1
  FPG = 8
  IPG = 4
  Frag = 2
  DBlkNo = 2
  DSize = 8
  CountMod = 64
  NDADDR = 2
  NIADDR = 0
  Names <- MCNames
  NameLen <- MCNameLen
  DIRBLKSIZ = 48
  Kinds = {"empty", "dir", "symlink", "device"}
  Rdev = 5
  Target <- MCTarget
  Handle = {1, 2}
  MaxLen = 3
  KeepsOpenNames = TRUE
INVARIANTS
  MountTypeOK
  ReadsLatest
  ClosedIsOnDisk
  BufferFreedUnlessFull
  UnmountedClean
PROPERTY DirtyIsCommitted
