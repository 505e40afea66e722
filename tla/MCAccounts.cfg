CONSTANTS
  a1 = a1
  a2 = a2
  b1 = b1
  b2 = b2
  d1 = d1
  d2 = d2
  u1 = u1
  c1 = c1
  c2 = c2
  k1 = k1
  k2 = k2
  k3 = k3
  g1 = g1
  g2 = g2
  g3 = g3
  x1 = x1
  x2 = x2
  theAccount = theAccount
  nothing = nothing
  Account = theAccount
  None = nothing
  Nil = nothing
  Requests <- MCRequests
  Ids <- MCIds
  Uids <- MCUids
  Verifications <- MCVerifications
  SlidingTtl = 1
  AbsoluteTtl = 2
  Tolerance = 1
  MaxTime = 3
  Interactions <- MCIds
  Players <- MCVerifications
  Visits <- MCRequests
  Codes <- MCCodes
  Claims <- MCClaims
  Grants <- MCGrants
  Transactions <- MCTransactions
  Methods <- MCMethods
  Asks <- MCAsks
  MaxVisits = 3
  MaxMishaps = 1
SPECIFICATION MCSpec
SYMMETRY Symmetry
INVARIANTS ErasureEndsSessions SessionsStand NewestNameStands AnswersInOrder
PROPERTIES EndsInSevenDays GrantsAreKept
CHECK_DEADLOCK FALSE
