CONSTANTS
  N = 2
  XWIN = 2
  YWIN = 9
  WALL_THICKNESS = 0
  GOAL_START_Y = 7
  MISSILE_RADIUS = 1
  StartX = {0, 1}
  Drift <- Straight
  Fall <- ByTwo
  Climb <- Up
  LAUNCHES = 2
SPECIFICATION Spec
INVARIANT
  CellOwner
PROPERTIES
  ImplementsScore
  OneCollision
CHECK_DEADLOCK FALSE
