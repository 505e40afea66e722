\* Two interactions over two codes and two calls in flight.
SPECIFICATION Spec
CONSTANTS
  Interactions = {i1, i2}
  Codes = {c1, c2}
  Players = {p1}
  Claims = {d1, d2, d3, d4}
  Callers = {k1, k2}
  None = None
  VerificationTTL = 2
  ProcessingTTL = 1
  ResolvedTTL = 1
  MaxConfirmationAttempts = 2
  MaxCodeAllocationAttempts = 2
SYMMETRY Symmetry
INVARIANTS TypeOK PendingIsJoinable FinalizedOnce
PROPERTY KeepsPromise
