SPECIFICATION Spec
CONSTANTS
  NULL = NULL
  s1 = s1
  s2 = s2
  Socks <- MCSocks
  MaxOpens = 4
  MaxIds = 5
  MaxLoops = 2
  MaxPrograms = 3
  MaxTimers = 3
CHECK_DEADLOCK FALSE
INVARIANTS
  ButtonsShowLive
  HandlePerConnection
  OutputGoesHome
  OneLoop
PROPERTIES
  ArmageddonDisables
  TimersStop
  TracedIsServed
