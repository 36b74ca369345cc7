SPECIFICATION Spec
CONSTANTS
  Names = {a}
  LastPort = 8002
  Hashes = {h1, h2, h3}
  Overrides = {}
  MaxIds = 2
  MaxSpawns = 2
  DefaultMax = 1
  None = None
  TextBusy = TRUE
  Requests = {r1, r2}
  Super = Super
  Capacity = 1
  Faults = {}
  ClientOps = {"deploy"}
  Installed = {a}
  InitStates = {"Stopped"}
  InitHealth = {TRUE}
  InitPolicies = {"OnFailure"}
  Library = {}
  MaxCrashes = 0
INVARIANTS
  DeployedBinaryOnDisk
