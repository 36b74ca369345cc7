SPECIFICATION ProxySpec
CONSTANTS
  Names = {a, b}
  LastPort = 8002
  Hashes = {h1}
  Overrides = {9000}
  MaxIds = 2
  MaxSpawns = 2
  DefaultMax = 1
  None = None
  TextBusy = TRUE
  Requests = {r1}
  Super = Super
  Capacity = 1
  Faults = {"crash", "orphans"}
  ClientOps = {"create", "deploy", "restart"}
  Installed = {a}
  InitStates = {"Running"}
  InitHealth = {FALSE}
  InitPolicies = {"OnFailure"}
  Library = {}
  MaxCrashes = 1
  Visitors = {v1}
INVARIANTS
  ProxyTypeOK
  UniquePorts
  VisitorReachesApp
  TailAgrees
PROPERTIES
  StrayStaysStray
