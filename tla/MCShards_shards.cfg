SPECIFICATION Spec
CONSTANTS
  HalfX = 64
  HalfY = 64
  PadX = 2
  PadY = 1
  Sources <- MCSources
  Strategies <- MCStrategies
  Strategy <- MCStrategy
  Points <- MCPoints
INVARIANTS
  CellsTile
  RoadsSurviveSharding
  CompositeRoutesLikeWhole
  WindowIsFilled
  ServedShardIsItsOwn
CHECK_DEADLOCK FALSE
