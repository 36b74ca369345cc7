SPECIFICATION Spec
CONSTANTS
  Names = {a}
  LastPort = 8002
  Hashes = {h1}
  Overrides = {}
  MaxIds = 2
  MaxSpawns = 2
  DefaultMax = 1
  None = None
  TextBusy = TRUE
  Requests = {r1}
  Super = Super
  Capacity = 1
  Faults = {"io"}
  ClientOps = {"stop"}
  Installed = {a}
  InitStates = {"Running"}
  InitHealth = {TRUE}
  InitPolicies = {"OnFailure", "Never"}
  Library = {"CheckHealth", "ProcessExit"}
  MaxCrashes = 0
INVARIANTS
  Inv
  HandlesAreSound
  RestartsBounded
PROPERTIES
  RestartCountKept
  HandleNeverOverwritten
  StrayStaysStray
