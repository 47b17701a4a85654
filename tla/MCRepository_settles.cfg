CONSTANTS
  Names = {r1}
  Urls = {u1, u2}
  Passwords = {p1, p2}
  None = None
  Policies = {"Background", "Foreground"}
  MaxUid = 1
  MaxTouch = 1
  MaxFaults = 1
  MaxLag = 1
SPECIFICATION FairSpec
INVARIANT CreatedIsUsable
PROPERTY Settles
CHECK_DEADLOCK FALSE
