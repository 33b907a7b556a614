\* Two runs of the command and two requests that share one connection.
CONSTANTS
  Runs = {j1, j2}
  c1 = c1
  c2 = c2
  Ranges <- MCRanges
  Requests = {r1, r2}
  MaxConns = 1
  Absent = Absent
  Clusters = {c1, c2}
  Asked <- MCAsked
  DefaultLimit <- MCDefaultLimit
  MaxLimit <- MCMaxLimit
  Watermarks <- MCWatermarks
SPECIFICATION Spec
SYMMETRY Symmetric
INVARIANTS
  TypeOK
  PoolExact
  JobsAccounted
  ListingComplete
