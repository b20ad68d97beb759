CONSTANTS
  N = 2
  XWIN = 8
  YWIN = 11
  WALL_THICKNESS = 2
  GOAL_START_Y = 8
  MISSILE_RADIUS = 1
  StartX = {3}
  Drift <- Straight
  Fall <- ByOne
  Climb <- Up
  Legend <- LegendPixel
  Label = {}
  LAUNCHES = 2
SPECIFICATION DisplaySpec
INVARIANT
  TargetIsAttacker
CHECK_DEADLOCK FALSE
