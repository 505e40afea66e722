\* One interaction over two codes.
SPECIFICATION Spec
CONSTANTS
  Interactions = {i1}
  Codes = {c1, c2}
  Players = {p1}
  Claims = {d1, d2, d3}
  Callers = {k1, k2}
  None = None
  VerificationTTL = 1
  ProcessingTTL = 1
  ResolvedTTL = 1
  MaxConfirmationAttempts = 2
  MaxCodeAllocationAttempts = 2
SYMMETRY Symmetry
INVARIANT ResolvedHasNoCodeKey
