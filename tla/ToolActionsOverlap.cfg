\* Two orgs whose callers pick the same keys; the ticket of org2 is past its return window and warranty.
SPECIFICATION Spec
CONSTANTS
  t1 = t1  t2 = t2  org1 = org1  org2 = org2
  replace = replace  coupon = coupon  escalate = escalate
  refund = refund  security = security
  Org = {org1, org2}
  Ticket = {t1, t2}
  Category = {refund}
  Tool = {replace, escalate}
  Eligible <- MCEligible
  Null = Null
  Key = {k1, k2}
  ActionId = {a1, a2}
  Proc = {p1, p2}
  MaxEffects = 1
  TicketOrg <- MCTicketOrg
  AllowedCategories <- MCAllowedCategories
  NeedsApproval <- MCNeedsApproval
  EligibilityGated <- MCEligibilityGated
SYMMETRY Symmetry
INVARIANTS
  ApprovalPrecedesEffect
  StatusIsLogged
  SameKeySameAction
  ErrorOnlyForForeignKey
  OrgIsolation
  OneActivePerTicket
PROPERTIES
  FollowsLifecycle
