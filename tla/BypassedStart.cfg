SPECIFICATION Spec
CONSTANTS
  Names = {a}
  LastPort = 8002
  Hashes = {h1}
  Overrides = {}
  MaxIds = 2
  MaxSpawns = 2
  DefaultMax = 1
  None = None
  TextBusy = TRUE
  Requests = {r1}
  Super = Super
  Capacity = 1
  Faults = {}
  ClientOps = {"start"}
  Installed = {a}
  InitStates = {"Running"}
  InitHealth = {TRUE}
  InitPolicies = {"OnFailure"}
  Library = {}
  MaxCrashes = 0
INVARIANTS
  OneLiveProcess
