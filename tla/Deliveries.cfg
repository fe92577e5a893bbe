SPECIFICATION DeliverySpec
CONSTANTS
  pilot = pilot
  finale = finale
  again = again
  season = season
  upgrade = upgrade
  first = first
  last = last
  Jobs <- MCTwice
  RunOf <- MCTwiceRun
  PathOf <- MCTwicePath
VIEW MCView
INVARIANTS
  TypeOK
  OneJobPerPath
  DiskFollowsMemory
  NoIdleRuns
CHECK_DEADLOCK FALSE
