SPECIFICATION FairSpec
CONSTANTS
  sweep = sweep
  delivery = delivery
  film = film
  show = show
  pauser = pauser
  Runs <- MCRuns
  Imports <- MCImports
  Paths <- MCPaths
  Keys <- MCSharedKeys
  Commands = {pauser}
  Limit <- MCLimit
  MaxSequence = 2
  MaxFront = 0
PROPERTIES
  StoppedQueueDrains
  WaitersAreTaken
CHECK_DEADLOCK FALSE
