CONSTANTS
  Names = {r1}
  Urls = {u1}
  Passwords = {p1, p2, p3}
  None = None
  Policies = {"Background", "Foreground"}
  MaxUid = 2
  MaxTouch = 0
  MaxFaults = 0
  MaxLag = 1
SPECIFICATION Spec
INVARIANT CreatedAlwaysUsable
SYMMETRY Symmetry
CHECK_DEADLOCK FALSE
