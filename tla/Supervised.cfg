SPECIFICATION Spec
CONSTANTS
  Names = {a, b}
  LastPort = 8002
  Hashes = {h1}
  Overrides = {}
  MaxIds = 2
  MaxSpawns = 2
  DefaultMax = 1
  None = None
  TextBusy = TRUE
  Requests = {r1}
  Super = Super
  Capacity = 1
  Faults = {"crash"}
  ClientOps = {"stop", "restart"}
  Installed = {a, b}
  InitStates = {"Running"}
  InitHealth = {TRUE}
  InitPolicies = {"OnFailure"}
  Library = {}
  MaxCrashes = 1
INVARIANTS
  TypeOK
  HandlesAreSound
  RowAgreesWhenQuiet
  OneLiveProcess
  NoStray
  DownMeansDown
  RestartNeverRefused
  HistoryFollowsHandles
PROPERTIES
  ImplementsTracking
