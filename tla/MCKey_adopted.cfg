CONSTANTS
  Names = {k1}
  RepoName = repo
  JobIds = {j1, j2}
  KeyIds = {i1, i2}
  Passwords = {p1, p2}
  None = None
  Policies = {"background"}
  RepoPolicies = {}
  Backoff = 0
  PodsVanish = FALSE
  MaxUid = 2
  MaxRepoUid = 1
  MaxTouch = 0
  MaxFaults = 0
  MaxLag = 1
SPECIFICATION Spec
INVARIANT CreatedKeyAlwaysOpens
SYMMETRY Symmetry
CHECK_DEADLOCK FALSE
