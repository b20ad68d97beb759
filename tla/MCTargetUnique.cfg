CONSTANTS
  N = 2
  XWIN = 8
  YWIN = 10
  WALL_THICKNESS = 2
  GOAL_START_Y = 7
  MISSILE_RADIUS = 1
  StartX = {3, 4}
  Drift <- Straight
  Fall <- ByOne
  Climb <- Up
  Legend = {}
  Label = {}
  LAUNCHES = 2
SPECIFICATION DisplaySpec
INVARIANT
  TargetUnique
CHECK_DEADLOCK FALSE
