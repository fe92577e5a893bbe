SPECIFICATION FencesSpec
CONSTANTS
  film = film
  remux = remux
  old = old
  Path <- MCPaths
  Observer = {one, two}
  Walk = {sweep, recheck}
  Policy = {old, new}
  None = None
  MaxWrites = 2
  MaxRules = 1
SYMMETRY MCSymmetry
INVARIANTS
  TypeOK
  WalksAgree
  HitsAreTrue
PROPERTY OnlyChangesShow
CHECK_DEADLOCK FALSE
