CONSTANTS
  Velocity <- Straight
  StartX = {320}
  Delay = {35}
SPECIFICATION Spec
INVARIANT
  StopsWhenPrecise
CHECK_DEADLOCK FALSE
