SPECIFICATION FairBoard
CONSTANTS
  Parts = {"pipeline", "pipeline_gated", "pipeline_cards", "board", "board_shared", "watched", "watched_again", "rules", "rules_feeds", "rules_tabs", "scores", "panels", "form", "form_places"}
INVARIANTS   RowsAreTrue FormIsMatchable
PROPERTIES  CallsEnd
CHECK_DEADLOCK FALSE
