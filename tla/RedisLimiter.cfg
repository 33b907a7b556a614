\* Four requests of a client around three windows, up to three seconds late.
CONSTANTS
  Requests = {r1, r2, r3, r4}
  Limit = 2
  Window = 1
  MaxDelay = 3
  MaxTime = 4
SPECIFICATION Spec
SYMMETRY Symmetric
CHECK_DEADLOCK FALSE
INVARIANTS
  TypeOK
  PromptWithinLimit
  DenialJustified
  UnexpiringKeyExplained
