CONSTANTS
  u1 = u1  u2 = u2  c1 = c1  c2 = c2  pro = pro  s1 = s1
  Story = "first"
  Users = {u1}
  Keys = {s1}
  NoKey = NoKey
  OpeningBalances = {1}
  MaxCredits = 4
  Events <- MCEvents
  Body <- MCBody
  Emission <- MCEmission
  Effect <- MCEffect
  Deliveries = {d1}
  Customers = {c1, c2}
  CustomersOf <- MCCustomersOf
  Plans = {pro}
  CreditsPerPeriod <- MCCredits
  MaxPeriod = 2
  MaxFaults = 1
  MaxApplied = 2
  None = None
  Idle = Idle
SPECIFICATION FairWebhookSpec
PROPERTIES EventuallyCompleted
\* The story ends when every event has been handled.
CHECK_DEADLOCK FALSE
