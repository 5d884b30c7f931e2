SPECIFICATION FairSpec
CONSTANTS
  Viewer = {v1}
  v1 = v1
  Kind = {"triage", "draft", "eval"}
  Cases = 3
INVARIANTS
  TypeOK
  SeamIsExact
  ReplayIsWhole
PROPERTIES
  ListenersHearTheEnd
CHECK_DEADLOCK FALSE
