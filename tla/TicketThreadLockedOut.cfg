\* The model fails while it drafts; nothing overlaps and the database answers.
\* No request has to arrive, so the server may come to rest.
CHECK_DEADLOCK FALSE
SPECIFICATION ReliableSpec
CONSTANTS
  Proc = {p1}
  Outcome <- MCTwoOutcomes
  MaxMessages = 5
  MaxDrafts = 1
  MaxFailures = 0
INVARIANTS
  FallbackLetsCustomerReply
