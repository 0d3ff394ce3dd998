SPECIFICATION Spec
CONSTANTS
  Degree = 1000
  Files <- MCFiles
  Spots <- MCSpots
  MaxBuild = 1
  MaxNodes = 3
  MaxRoads = 2
INVARIANTS
  IngestIsFileOrder
  ServedIsWhole
  IndexResolves
  MockAgreesWithOsm
CHECK_DEADLOCK FALSE
