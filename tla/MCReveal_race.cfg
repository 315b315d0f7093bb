CONSTANTS
  u1 = u1  u2 = u2  u3 = u3  p1 = p1  p2 = p2
  Users = {u1, u2}
  Projects = {p1}
  Tenants = {pool1}
  Talents = {t1}
  Requests = {q1, q2}
  Ingesters = {i1}
  Cleaners = {c1}
  BillingStates = {"active"}
  Owner <- MCOwner
  Org <- MCOrg
  Keys = {}
  Casts = {{q1, q2}, {q1, c1}, {q2, c1}, {q1, i1}, {q2, i1}}
  NoKey = NoKey
  OpeningBalances = {1}
  MaxCredits = 1
  TTL = 1
  FreeTTL = 2
  MatchTTL = 1
  Grace = 0
  MaxTime = 2
  MaxReveals = 2
  NoLock = NoLock
  NoReveal = NoReveal
  Idle = Idle
SPECIFICATION CastSpec
SYMMETRY MCSymmetry
INVARIANTS SoldOnce RevealHoldsLock
PROPERTIES LockIsKept
\* Everybody may delete their account before the clock of the model ends.
CHECK_DEADLOCK FALSE
