CONSTANTS
  Users = {u1, u2}
  Keys = {s1}
  NoKey = NoKey
  OpeningBalances = {0, 1}
  MaxCredits = 2
SPECIFICATION CreditSpec
INVARIANTS LedgerReconciles
PROPERTIES PackCreditsKept
\* The model stops when every account has been deleted.
CHECK_DEADLOCK FALSE
