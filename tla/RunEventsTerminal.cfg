SPECIFICATION Spec
CONSTANTS
  Viewer = {v1}
  v1 = v1
  Kind = {"draft"}
  Cases = 2
INVARIANTS
  TerminalIsLast
CHECK_DEADLOCK FALSE
