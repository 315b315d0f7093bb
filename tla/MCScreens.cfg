SPECIFICATION FairScreens
CONSTANTS
  Parts = {"lru", "tiles", "tiles_appear", "field", "field_cleared", "list", "wizard", "intake", "wishes", "grid_streamed", "grid", "grid_levels", "filters", "filters_again"}
  Keys = {"k1", "k2", "k3"}
  Callers = {"c1", "c2"}
  Versions = {0, 1}
  Max = 2
  TTL = 2
  MaxNow = 2
  MaxLookups = 3
INVARIANTS AnswersFit FormsKeep
PROPERTIES Refines NothingIsLost LoadingEnds
CHECK_DEADLOCK FALSE
