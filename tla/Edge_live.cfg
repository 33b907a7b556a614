\* One request, retried, and the probes of two backends, least connections: recovery, removal and termination.
CONSTANTS
  N = 2
  Requests = {r1}
  Policy = "least_conn"
  RetryAttempts = 2
  Threshold = 2
  MaxFaults = 1
SPECIFICATION FairSpec
PROPERTIES
  BackendRecovers
  DeadBackendRemoved
  RequestAnswered
