SPECIFICATION Spec
CONSTANTS
  NCG = 2
  FPG = 7
  IPG = 3
  Frag = 2
  DBlkNo = 2
  DSize = 12
  CountMod = 64
  InitMagic <- MCMagic
INVARIANTS
  TypeOK
  HeldExact
  GroupCountsExact
  TotalsExact
  RefusalExact
PROPERTIES
  RecomputeConfirms
  ImplementsPool
