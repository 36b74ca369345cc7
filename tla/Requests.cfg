SPECIFICATION Spec
CONSTANTS
  Names = {a, b}
  LastPort = 8002
  Hashes = {h1}
  Overrides = {}
  MaxIds = 2
  MaxSpawns = 2
  DefaultMax = 1
  None = None
  TextBusy = TRUE
  Requests = {r1}
  Super = Super
  Capacity = 1
  Faults = {}
  ClientOps = {"create", "delete", "deploy", "env", "start"}
  Installed = {a}
  InitStates = {"Running"}
  InitHealth = {FALSE}
  InitPolicies = {"OnFailure"}
  Library = {}
  MaxCrashes = 0
INVARIANTS
  Inv
  RunClosedOnce
PROPERTIES
  HandleNeverOverwritten
  SavesStayHome
