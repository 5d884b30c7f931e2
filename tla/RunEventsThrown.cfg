SPECIFICATION FairSpec
CONSTANTS
  Viewer = {v1}
  v1 = v1
  Kind = {"eval"}
  Cases = 2
PROPERTIES
  ThrownCaseEndsStreams
CHECK_DEADLOCK FALSE
