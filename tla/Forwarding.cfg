\* Two requests, two backends, two attempts.
CONSTANTS
  Backends = {b1, b2}
  Requests = {r1, r2}
  RetryAttempts = 2
  Kinds <- MCKinds
SPECIFICATION Spec
SYMMETRY Symmetric
INVARIANTS
  TypeOK
  BodyIntact
  ChargedJustly
  AnswerHonest
  MetricsBalance
CHECK_DEADLOCK FALSE
