CONSTANTS
  Names = {r1}
  Urls = {u1}
  Passwords = {p1, p2, p3}
  None = None
  Policies = {"Background", "Foreground"}
  MaxUid = 2
  MaxTouch = 1
  MaxFaults = 1
  MaxLag = 1
SPECIFICATION Spec
INVARIANTS TypeOK NeverForgotten InitJobHasItsSecret CreatedIsUsable
PROPERTY Lifecycle
SYMMETRY Symmetry
CHECK_DEADLOCK FALSE
