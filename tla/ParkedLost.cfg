SPECIFICATION Spec
CONSTANTS
  pilot = pilot
  finale = finale
  again = again
  season = season
  upgrade = upgrade
  first = first
  last = last
  Jobs <- MCTwice
  RunOf <- MCTwiceRun
  PathOf <- MCTwicePath
INVARIANTS
  ParkedNeverStranded
CHECK_DEADLOCK FALSE
