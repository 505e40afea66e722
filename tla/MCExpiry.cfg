\* One interaction and its whole life: a tab beside another request, two players
\* and time, without symmetry.
SPECIFICATION MCLiveSpec
CONSTANTS
  Interactions = {i1}
  Codes = {c1}
  Players = {p1, p2}
  Claims = {d1, d2, d3}
  Callers = {k1}
  Tabs = {t1}
  Checks = {s1, s2}
  None = None
  VerificationTTL = 3
  ProcessingTTL = 2
  ResolvedTTL = 2
  MaxConfirmationAttempts = 3
  MaxCodeAllocationAttempts = 1
  ChallengeTTL = 3
  CheckInterval = 1
  Entropies <- MCEntropies
  Skins <- MCOpaque
  Tones <- MCTones
  Parts = {"challenges"}
INVARIANT BoundByItsClaimant
PROPERTIES IdentityIsFinal EverythingExpires
