SPECIFICATION FairAccounts
CONSTANTS
  Parts = {"teams", "teams_serial", "login", "login_store", "checkout", "onboarding", "onboarding_legacy"}
  Users = {"f", "u"}
  Orgs = {"home", "o", "p"}
  Founder = "f"
  Home = "home"
  NoOrg = "none"
  Requests = {"r1", "r2"}
  Kinds = {"visit", "signup", "invite", "remove", "candidate", "delete"}
  MaxOps = 4
INVARIANTS Belongs LoginsAreFair OneOfEach 
PROPERTIES AccountsAreKept EventuallyLinked
CHECK_DEADLOCK FALSE
