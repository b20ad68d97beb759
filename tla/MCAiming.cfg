CONSTANTS
  Velocity <- Velocities
  StartX = {0, 7, 139, 320, 480, 632, 639}
  Delay = {35, 100, 205}
SPECIFICATION Spec
INVARIANTS
  TypeOK
  Intercepts
  BisectionFindsIntercept
  FullSamplingSaves
PROPERTY
  FullSamplingHits
CHECK_DEADLOCK FALSE
