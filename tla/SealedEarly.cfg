SPECIFICATION Spec
CONSTANTS
  pilot = pilot
  finale = finale
  again = again
  season = season
  upgrade = upgrade
  first = first
  last = last
  Jobs <- MCSeason
  RunOf <- MCSeasonRun
  PathOf <- MCSeasonPath
INVARIANTS
  DeliveryAdmittedWhole
CHECK_DEADLOCK FALSE
