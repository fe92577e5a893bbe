SPECIFICATION FairSpec
CONSTANTS
  sweep = sweep
  delivery = delivery
  film = film
  show = show
  Runs <- MCRuns
  Imports <- MCImports
  Paths <- MCPaths
  Keys <- MCSweepKeys
  Commands = {}
  Limit <- MCLimit
  MaxSequence = 2
  MaxFront = 0
PROPERTIES
  SkippedNeedsNoResume
CHECK_DEADLOCK FALSE
