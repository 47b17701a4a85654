CONSTANTS
  Names = {k1}
  RepoName = repo
  JobIds = {j1, j2}
  KeyIds = {i1, i2}
  Passwords = {p1}
  None = None
  Policies = {"background", "foreground"}
  RepoPolicies = {"background", "foreground"}
  Backoff = 0
  PodsVanish = TRUE
  MaxUid = 1
  MaxRepoUid = 1
  MaxTouch = 0
  MaxFaults = 0
  MaxLag = 1
SPECIFICATION Spec
INVARIANT ForgottenOnlyWhenStuck
PROPERTIES FinalizerHonoured KeyLives
SYMMETRY Symmetry
CHECK_DEADLOCK FALSE
