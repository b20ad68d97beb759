CONSTANTS
  N = 1
  XWIN = 5
  YWIN = 8
  WALL_THICKNESS = 1
  GOAL_START_Y = 6
  MISSILE_RADIUS = 1
  StartX = {2}
  Drift <- Both
  Fall <- ByOneOrNone
  Climb <- Up
  Legend = {}
  Label <- LabelPixel
  LAUNCHES = 1
SPECIFICATION FairDisplaySpec
PROPERTY
  AttackerIsTracked
CHECK_DEADLOCK FALSE
