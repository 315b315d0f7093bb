SPECIFICATION FairMatching
CONSTANTS
  Parts = {"stored", "pairs", "edits", "edits_pools", "resync", "announced", "settling"}
INVARIANTS NothingLostNorTwice
PROPERTIES MatchingEnds
CHECK_DEADLOCK FALSE
