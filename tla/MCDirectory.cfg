SPECIFICATION Spec
CONSTANTS
  Names <- MCNames
  NameLen <- MCNameLen
  DIRBLKSIZ = 40
  Inodes = {2, 3}
  MaxBlocks = 3
INVARIANTS
  TypeOK
  Tiled
  EntriesExact
PROPERTIES
  GrowsOnlyWhenFull
