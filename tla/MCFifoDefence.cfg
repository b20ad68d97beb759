CONSTANTS
  main = main
  atk_launcher = atk_launcher
  def_launcher = def_launcher
  N = 4
  Main = {}
  AtkLauncher = {}
  DefLauncher = {def_launcher}
SPECIFICATION FairSpec
CHECK_DEADLOCK FALSE
INVARIANTS
  TypeOK
  OneOwner
  WokenFindsIndex
  NoLostWakeup
  Conserved
PROPERTIES
  ImplementsPool
  WaitingServed
