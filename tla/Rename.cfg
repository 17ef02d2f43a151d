SPECIFICATION Spec
CONSTANTS
  NArch = 3
  NPhys = 5
  NRob  = 3
  NCkpt = 2
  Uops <- MCUops
INVARIANTS
  TypeOK
  PhysConservation
  RatIsYoungest
  SourceIsProgramOrder
  OldIsPrevious
  SnapshotExact
  ReadyIffWritten
  SrcReadyIsWritten
  NoConservationError
