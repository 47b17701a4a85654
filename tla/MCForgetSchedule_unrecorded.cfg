CONSTANTS
  HalfRange = 4
  r1 = r1
  r2 = r2
  Names = {s1}
  RepoNames = {r1, r2}
  Editions = {e1, e2}
  Specs <- MCSpecs
  None = None
  MaxUid = 1
  MaxRepoUid = 2
  MaxTouch = 1
  MaxFaults = 0
  MaxRemade = 0
  MaxLag = 1
SPECIFICATION FairSpec
PROPERTY CreatedIsRecorded
CHECK_DEADLOCK FALSE
