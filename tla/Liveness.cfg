SPECIFICATION FairSpec
CONSTANTS
  Names = {a}
  LastPort = 8002
  Hashes = {h1}
  Overrides = {}
  MaxIds = 2
  MaxSpawns = 2
  DefaultMax = 1
  None = None
  TextBusy = TRUE
  Requests = {r1}
  Super = Super
  Capacity = 2
  Faults = {"crash"}
  ClientOps = {"stop", "restart"}
  Installed = {a}
  InitStates = {"Running", "Stopped"}
  InitHealth = {TRUE}
  InitPolicies = {"OnFailure"}
  Library = {"Start"}
  MaxCrashes = 1
PROPERTIES
  StopTakesEffect
  RestartTakesEffect
  ExitIsNoticed
  SenderServed
