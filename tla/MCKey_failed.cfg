CONSTANTS
  Names = {k1}
  RepoName = repo
  JobIds = {j1, j2}
  KeyIds = {i1}
  Passwords = {p1}
  None = None
  Policies = {"background"}
  RepoPolicies = {}
  Backoff = 0
  PodsVanish = FALSE
  MaxUid = 1
  MaxRepoUid = 1
  MaxTouch = 0
  MaxFaults = 0
  MaxLag = 1
SPECIFICATION FairSpec
PROPERTY FailureIsRecorded
CHECK_DEADLOCK FALSE
