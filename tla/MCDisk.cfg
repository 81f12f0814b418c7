SPECIFICATION Spec
CONSTANTS
  BadName <- MCBadName
  Layouts <- MCLayouts
  Skeletons <- MCSkeletons
  Selectors <- MCSelectors
  StandFiles <- MCStandFiles
  UfsOptions <- MCUfsOptions
  Payloads <- MCPayloads
  BadBlocks <- MCBadBlocks
  GuestTracks = 3
  WordMod = 1073741824
INVARIANTS TypeOK InspectedIsCreated SlicesKeepTheirFiles LayoutSound LayoutSlicesApart GuestSectorsDistinct
PROPERTIES StaysInSlice
