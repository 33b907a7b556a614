\* Two requests and the probes of two backends that go up and down at will, round robin.
CONSTANTS
  N = 2
  Requests = {r1, r2}
  Policy = "round_robin"
  RetryAttempts = 2
  Threshold = 2
  MaxFaults = 0
SPECIFICATION Spec
SYMMETRY Symmetric
VIEW ViewWithoutLastError
INVARIANTS
  TypeOK
  InflightExact
  BreakerHolds
