SPECIFICATION Spec
CONSTANTS
  p1 = p1
  p2 = p2
  Proc = {p1, p2}
  None = None
  RunId = {"run"}
  RecoveryId = {"recovered"}
  Checkouts <- MCCheckouts
  StartTrees = {1, 4, 6}
  Switches <- MCSwitches
  ModeArgs = {"auto"}
  MacroViews <- MCMacroViews
  FrequencyArgs <- MCFrequencyArgs
  TimerArgs = {0, 300}
  PnrArgs = {0}
  DcReports <- MCDcReports
  RouteReports <- MCRouteReports
  StaReports <- MCStaReports
  MaxFaults = 2
SYMMETRY Symmetry
INVARIANTS
  TypeOK
  OneWriter
  ScanSound
  EvidenceSound
PROPERTIES
  ImplementsChain
CHECK_DEADLOCK FALSE
