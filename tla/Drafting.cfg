SPECIFICATION FairSpec
CONSTANTS
  Run = {r1, r2}
  KindsOf <- Kinds
  Doc = {d1}
  Text = {t1}
  Category <- Categories
  Tool = {refund, note, rumour}
  Catalog = {refund, note}
  Gated = {refund}
  AllowedIn <- Allowed
  TriageAnswers <- SomeTriage
  DraftAnswers <- SomeDrafts
  Invalid = Invalid
  MaxRetries = 1
  MaxChanges = 1
  d1 = d1
  refund = refund
  note = note
  rumour = rumour
  r1 = r1
  r2 = r2
  t1 = t1
INVARIANTS
  TypeOK
  OnlyVettedIsKept
  QuotesNoInternalText
  ActionsFitTicket
  AutoSentIsSafe
  FlaggedIsScoredEscalated
PROPERTIES
  RunsEnd
CHECK_DEADLOCK FALSE
