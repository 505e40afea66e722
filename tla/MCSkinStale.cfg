\* Two players in two tabs of one interaction.
SPECIFICATION MCSpec
CONSTANTS
  Interactions = {i1}
  Codes = {c1}
  Players = {p1}
  Claims = {d1, d2, d3}
  Callers = {k1}
  Tabs = {t1, t2}
  Checks = {s1, s2}
  None = None
  VerificationTTL = 1
  ProcessingTTL = 1
  ResolvedTTL = 1
  MaxConfirmationAttempts = 1
  MaxCodeAllocationAttempts = 1
  ChallengeTTL = 2
  CheckInterval = 1
  Entropies <- MCEntropies
  Skins <- MCOpaque
  Tones <- MCTones
  Parts = {"challenges"}
SYMMETRY Symmetry
INVARIANT NoChallengeFromBefore
