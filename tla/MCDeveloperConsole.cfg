SPECIFICATION MCSpec
CONSTANTS
  Users = {u1, u2}
  Requests = {r1, r2}
  Sids = {s1, s2, s3}
  Apps = {a1}
  MaxAttempts = 2
  SlidingTtl = 2
  AbsoluteTtl = 3
  None = None
  MaxRequests = 3
  Workloads <- MCWorkloads
  Browsers = {u1, u2}
  People = {r1, r2}
  Transactions = {t1, t2}
  Callbacks = {s1, s2, s3}
  Nothing = Nothing
  Arrivals = {s1, s2, s3}
  Addresses = {u1, u2}
  Uids = {i1}
  Window = 2
  MaxEntries = 1
  Maximum <- MCMaximum
SYMMETRY Symmetry
INVARIANTS SessionsInOrder ActsWithHeldRole LoginIsItsOwn LimitsHold
PROPERTIES RolesRemain AppsAreManaged
CHECK_DEADLOCK FALSE
