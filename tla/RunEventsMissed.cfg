SPECIFICATION Spec
CONSTANTS
  Viewer = {v1}
  v1 = v1
  Kind = {"draft"}
  Cases = 2
INVARIANTS
  StoredIsNeverMissed
CHECK_DEADLOCK FALSE
