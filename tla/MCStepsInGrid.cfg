CONSTANTS
  N = 1
  XWIN = 8
  YWIN = 9
  WALL_THICKNESS = 2
  GOAL_START_Y = 6
  MISSILE_RADIUS = 1
  StartX = {3}
  Drift <- Straight
  Fall <- ByOne
  Climb <- Up
  Legend = {}
  Label = {}
  LAUNCHES = 1
SPECIFICATION DisplaySpec
INVARIANT
  StepsInGrid
CHECK_DEADLOCK FALSE
