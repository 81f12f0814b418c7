SPECIFICATION Spec
CONSTANTS
  BadName <- MCBadName
  Layouts <- NoLayouts
  Skeletons <- ShortGroupDisk
  Selectors <- MCSelectors
  StandFiles <- MCStandFiles
  UfsOptions <- MCUfsOptions
  Payloads <- MCPayloads
  BadBlocks <- MCBadBlocks
  GuestTracks = 3
  WordMod = 1073741824
PROPERTIES StaysInSlice
