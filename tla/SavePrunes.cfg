SPECIFICATION PruneSpec
CONSTANTS
  film = film
  remux = remux
  old = old
  Path <- MCPaths
  Observer = {one, two}
  Walk = {sweep, recheck}
  Policy = {old, new}
  None = None
  MaxWrites = 2
  MaxRules = 1
PROPERTY PrunesOnlyUnvisited
CHECK_DEADLOCK FALSE
