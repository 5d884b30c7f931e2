\* Handlers of the ticket take turns; queries fail and the server goes down.
\* No request has to arrive, so the server may come to rest.
CHECK_DEADLOCK FALSE
SPECIFICATION TurnSpec
CONSTANTS
  Proc = {p1, p2}
  Outcome <- MCTwoOutcomes
  MaxMessages = 5
  MaxDrafts = 2
  MaxFailures = 2
SYMMETRY Symmetry
INVARIANTS
  OneAnswerPerMessage
