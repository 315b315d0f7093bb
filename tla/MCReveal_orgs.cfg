CONSTANTS
  u1 = u1  u2 = u2  u3 = u3  p1 = p1  p2 = p2
  Users = {u1, u3}
  Projects = {p1, p2}
  Tenants = {pool1}
  Talents = {t1}
  Requests = {q1, q2}
  Ingesters = {}
  Cleaners = {}
  BillingStates = {"active", "past_due"}
  Owner <- MCOwner
  Org <- MCOrg
  Keys = {}
  Casts = {{q1, q2}}
  NoKey = NoKey
  OpeningBalances = {1}
  MaxCredits = 1
  TTL = 1
  FreeTTL = 2
  MatchTTL = 1
  Grace = 0
  MaxTime = 1
  MaxReveals = 2
  NoLock = NoLock
  NoReveal = NoReveal
  Idle = Idle
SPECIFICATION CastSpec
SYMMETRY MCSymmetry
INVARIANTS NoStrandedLock
PROPERTIES ImplementsExclusiveAccess
\* Everybody may delete their account before the clock of the model ends.
CHECK_DEADLOCK FALSE
