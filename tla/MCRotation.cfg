SPECIFICATION Spec
CONSTANTS
  Manifests <- MCManifests
  manifestScope <- MCScope
  NumFields = 17
  Shapes = {"scalar"}
  Lives <- MCLives
  Seeds = {1, 2}
  Shuffle <- MCShuffle
  MaxSticky = 1
  Missing = Missing
  Torn = Torn
  NoState = NoState
INVARIANTS
  EveryMemberInTurn
  StickyIsChosen
CHECK_DEADLOCK FALSE
