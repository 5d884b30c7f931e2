\* Two executions of one action overlap.
SPECIFICATION Spec
CONSTANTS
  t1 = t1  t2 = t2  org1 = org1  org2 = org2
  replace = replace  coupon = coupon  escalate = escalate
  refund = refund  security = security
  Org = {org1}
  Ticket = {t1}
  Category = {refund}
  Tool = {escalate}
  Eligible <- MCEligible
  Null = Null
  Key = {k1}
  ActionId = {a1}
  Proc = {p1, p2}
  MaxEffects = 1
  TicketOrg <- MCTicketOrg
  AllowedCategories <- MCAllowedCategories
  NeedsApproval <- MCNeedsApproval
  EligibilityGated <- MCEligibilityGated
PROPERTY
  ResultIsKept
