SPECIFICATION Spec
CONSTANTS
  ann = ann
  annElsewhere = annElsewhere
  here = here
  there = there
  mailA = mailA
  o1 = o1
  t1 = t1
  t2 = t2
  Customer = {ann, annElsewhere}
  Org = {here, there}
  Email = {mailA}
  Order = {o1}
  Ticket = {t1, t2}
  HomeOf <- MCHomeOf
  MailOf <- MCMailOf
  BuyerOf <- MCBuyerOf
  OpenedBy <- MCOpenedBy
  Proc = {p1, p2}
  p1 = p1
  p2 = p2
  None = None
  Ttl = 2
  Drift <- Behind
  Window = 2
  Threshold = 1
  MaxTime = 2
  MaxLinks = 2
  MaxSessions = 2
INVARIANTS
  SingleUse
  SessionIsOwn
  GuardHolds
SYMMETRY Interchangeable
CHECK_DEADLOCK FALSE
