CONSTANTS
  HalfRange = 4
  r1 = r1
  r2 = r2
  Names = {s1}
  RepoNames = {r1, r2}
  Editions = {e1, e2}
  Specs <- MCSpecs
  None = None
  MaxUid = 2
  MaxRepoUid = 1
  MaxTouch = 1
  MaxFaults = 1
  MaxRemade = 1
  MaxLag = 1
SPECIFICATION FairSpec
INVARIANTS TypeOK CreatedHasCronJob EveryRunKeeps EditsHeeded
PROPERTIES Lifecycle Converges
CHECK_DEADLOCK FALSE
