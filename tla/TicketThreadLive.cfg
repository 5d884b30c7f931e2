\* Two handlers overlap, the database answers and started handlers go on.
\* No request has to arrive, so the server may come to rest.
CHECK_DEADLOCK FALSE
SPECIFICATION LiveSpec
CONSTANTS
  Proc = {p1, p2}
  Outcome <- MCTwoOutcomes
  MaxMessages = 4
  MaxDrafts = 1
  MaxFailures = 0
PROPERTIES
  NoSilence
