SPECIFICATION Spec
CONSTANTS
  Customer = {c1}
  Socket = {s1}
  Frame = {f1, f2}
  c1 = c1
  s1 = s1
  f1 = f1
  f2 = f2
  MaxReplies = 1
PROPERTIES
  AutoSendIsHeard
CHECK_DEADLOCK FALSE
