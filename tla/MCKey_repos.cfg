CONSTANTS
  Names = {k1}
  RepoName = repo
  JobIds = {j1, j2}
  KeyIds = {i1}
  Passwords = {p1}
  None = None
  Policies = {"background"}
  RepoPolicies = {"background"}
  Backoff = 1
  PodsVanish = FALSE
  MaxUid = 1
  MaxRepoUid = 2
  MaxTouch = 0
  MaxFaults = 0
  MaxLag = 1
SPECIFICATION Spec
INVARIANTS TypeOK CreatedKeyOpens
PROPERTY FinalizerHonoured
SYMMETRY Symmetry
CHECK_DEADLOCK FALSE
