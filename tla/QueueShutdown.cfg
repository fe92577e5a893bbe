SPECIFICATION ShutdownSpec
CONSTANTS
  sweep = sweep
  delivery = delivery
  film = film
  show = show
  Runs <- MCRuns
  Imports <- MCImports
  Paths <- MCPaths
  Keys <- MCKeys
  Commands = {}
  Limit <- MCLimit
  MaxSequence = 2
  MaxFront = 0
INVARIANTS
  TypeOK
  EveryAdmissionConcludesOnce
  DrainCoversCallbacks
  RunsOutliveTheirFiles
  DrainedGroupIsEmpty
PROPERTIES
  QuietIsFinal
  DecidedByItsHolder
CHECK_DEADLOCK FALSE
