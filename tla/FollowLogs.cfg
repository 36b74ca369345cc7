SPECIFICATION FairSpec
CONSTANTS
  MaxBytes = 4
PROPERTIES
  LogReachesClient
