\* One grant, an account that is erased and verified again.
SPECIFICATION MCSpec
CONSTANTS
  GrantIds = {g1}
  AuthCodes = {c1}
  AccessTokens = {a1}
  RefreshTokens = {t1}
  Requests = {r1, r2}
  None = None
  Callers = {}
  Origins = {}
  OriginsTtl = 0
  HealthyFor = 0
  HealthTimeout = 0
  MaxScan = 0
  NoCaller = None
SYMMETRY Symmetry
INVARIANT TombstoneStands
