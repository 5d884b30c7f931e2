SPECIFICATION Spec
CONSTANTS
  Customer = {c1, c2}
  Socket = {s1, s2}
  Frame = {f1, f2}
  c1 = c1
  c2 = c2
  s1 = s1
  s2 = s2
  f1 = f1
  f2 = f2
  MaxReplies = 1
INVARIANTS
  TypeOK
  CustomersStayApart
  PushedOnce
PROPERTIES
  OpenChatHears
  AnswerComesBack
SYMMETRY Interchangeable
CHECK_DEADLOCK FALSE
