CONSTANTS
  Others = {"Available", "Degraded"}
SPECIFICATION Spec
INVARIANTS UniqueTypes PhaseIsFaithful
CHECK_DEADLOCK FALSE
