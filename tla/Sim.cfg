SPECIFICATION Spec
CONSTANTS
  p1 = p1
  p2 = p2
  Proc = {p1, p2}
  None = None
  IDENTITY <- MCIdentity
  RequiredDefines <- MCRequired
  ForbiddenDefines = {"ORACLE"}
  OOO_DESIGN <- MCDesign
  OOO_ACCEPTED = {"TARGET_LINE_HIT_ENABLE"}
  OOO_DISABLED = {"PARTIAL_PAIR_ORACLE_ENABLE"}
  Profiles <- MCProfiles
  Checkouts <- MCCheckouts
  Switches <- MCSwitches
  Configs <- MCConfigs
  StartDisk <- MCDisk
  ImageArgs <- MCImageArgs
  ReferenceArgs <- MCReferenceArgs
  StartBundles <- MCStartBundles
  PrepareArgs <- MCPrepareArgs
  Repository <- MCRepository
  Alterable = {"coremark.bin", "arch.hex"}
  MaxCommands = 2
  MaxFaults = 1
SYMMETRY Symmetry
INVARIANTS
  TypeOK
  RunSound
  ReferenceSound
CHECK_DEADLOCK FALSE
