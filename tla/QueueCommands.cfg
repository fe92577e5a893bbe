SPECIFICATION QueueSpec
CONSTANTS
  sweep = sweep
  delivery = delivery
  film = film
  show = show
  pauser = pauser
  second = second
  Runs <- MCRuns
  Imports <- MCImports
  Paths <- MCPaths
  Keys <- MCKeys
  Commands = {pauser, second}
  Limit <- MCLimit
  MaxSequence = 3
  MaxFront = 2
SYMMETRY MCSymmetry
INVARIANTS
  OneWorkerPerFile
  EveryWaiterIsReachable
  IndexesAgree
  RanksDistinct
  ReservedFilesWait
PROPERTIES
  ClaimsFirstInOrder
CHECK_DEADLOCK FALSE
