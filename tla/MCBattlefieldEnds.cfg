CONSTANTS
  N = 1
  XWIN = 8
  YWIN = 12
  WALL_THICKNESS = 2
  GOAL_START_Y = 9
  MISSILE_RADIUS = 1
  StartX = {1, 3, 5, 7}
  Drift <- Both
  Fall <- ByTwo
  Climb <- Up
  LAUNCHES = 2
SPECIFICATION FairSpec
INVARIANTS
  TypeOK
  CellOwner
  FieldIntact
PROPERTY
  MissilesEnd
CHECK_DEADLOCK FALSE
