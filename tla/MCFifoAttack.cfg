CONSTANTS
  main = main
  atk_launcher = atk_launcher
  def_launcher = def_launcher
  N = 4
  Main = {main}
  AtkLauncher = {atk_launcher}
  DefLauncher = {}
SPECIFICATION FairSpec
CHECK_DEADLOCK FALSE
INVARIANTS
  TypeOK
  OneOwner
  WokenFindsIndex
  NoLostWakeup
  Conserved
PROPERTIES
  ImplementsPool
  AcceptedFlies
