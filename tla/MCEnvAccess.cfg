CONSTANTS
  display = display
  atk1 = atk1
  atk2 = atk2
  def1 = def1
  launcher = launcher
  Task <- MCTask
  ENV_PRIOS = 3
  Uses <- MCUses
SPECIFICATION FairHistSpec
INVARIANTS
  TypeOK
  MutualExclusion
  OneOwner
  BlkCounts
  NoLostWakeup
PROPERTIES
  ImplementsLock
  BlockedServed
  NoSecondPass
