\* One grant, two codes and a rotation, two requests at the same time.
SPECIFICATION MCSpec
CONSTANTS
  GrantIds = {g1}
  AuthCodes = {c1, c2}
  AccessTokens = {a1}
  RefreshTokens = {t1, t2}
  Requests = {r1, r2}
  None = None
  Callers = {s1, s2, s3}
  Origins = {o1}
  OriginsTtl = 2
  HealthyFor = 1
  HealthTimeout = 2
  MaxScan = 1
  NoCaller = None
SYMMETRY Symmetry
INVARIANTS RedeemedOnce OneLivingHeir EndedIsRefused ReuseLeavesNothing
PROPERTY SharedReadsHold
