\* Three requests of an address against a bucket of three tokens that is kept for
\* three ticks, and may be dropped before it has filled, and goroutines that are up
\* to one tick late.
CONSTANTS
  Requests = {r1, r2, r3}
  Limiters = {l1, l2, l3, l4}
  None = None
  Burst = 3
  Refill = 1
  Cost = 1
  TTL = 3
  Period = 2
  MaxDelay = 1
  MaxTime = 10
SPECIFICATION Spec
SYMMETRY Symmetric
CHECK_DEADLOCK FALSE
INVARIANTS
  TypeOK
  HeldIsCurrent
  ForgetsIdle
PROPERTY ImplementsForgetfulBucket
