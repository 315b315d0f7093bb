SPECIFICATION FairServices
CONSTANTS
  Parts = {"limiter", "limiter_shared", "limiter_queue", "limiter_local", "tokens", "tokens_shared", "geocoder", "geocoder_points", "travel", "travel_near", "travel_dialects"}
  Users = {"f", "u"}
  Orgs = {"home", "o", "p"}
  Founder = "f"
  Home = "home"
  NoOrg = "none"
  Requests = {"r1", "r2"}
  Kinds = {"visit", "signup", "invite", "remove", "candidate", "delete"}
  MaxOps = 4
INVARIANTS GrantsArePaced TokensAreGood PlacesAreTrue
PROPERTIES LessonsAreKept CallsEnd
CHECK_DEADLOCK FALSE
