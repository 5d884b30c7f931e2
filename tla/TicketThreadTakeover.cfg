\* The eval runner drafts a ticket a person owns, even when handlers take turns.
\* No request has to arrive, so the server may come to rest.
CHECK_DEADLOCK FALSE
SPECIFICATION TurnSpec
CONSTANTS
  Proc = {p1, p2}
  Outcome <- MCTwoOutcomes
  MaxMessages = 5
  MaxDrafts = 1
  MaxFailures = 0
PROPERTIES
  NoDraftAfterTakeover
