SPECIFICATION FairCandidates
CONSTANTS
  Parts = {"runs", "runs_warned", "runs_injected", "profile", "profile_pushed", "profile_reviews", "profile_panel", "edit", "edit_ends", "pool", "pool_owned", "create", "create_settles", "cv", "cv_ends", "skills"}
INVARIANTS RunsAreSafe ProfileIsKept IntakeIsTrue
PROPERTIES StepsKeep WaitsEnd
CHECK_DEADLOCK FALSE
