CONSTANTS
  main = main
  atk_launcher = atk_launcher
  def_launcher = def_launcher
  N = 4
  Main = {main}
  AtkLauncher = {atk_launcher}
  DefLauncher = {}
SPECIFICATION Spec
CHECK_DEADLOCK FALSE
INVARIANT
  SpaceLaunches
