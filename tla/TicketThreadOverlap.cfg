\* Two handlers of one ticket overlap in every way, queries fail and the server goes down.
\* No request has to arrive, so the server may come to rest.
CHECK_DEADLOCK FALSE
SPECIFICATION Spec
CONSTANTS
  Proc = {p1, p2}
  Outcome <- MCOutcome
  MaxMessages = 4
  MaxDrafts = 1
  MaxFailures = 1
SYMMETRY Symmetry
INVARIANTS
  ThreadComesFirst
  AutoSendIsSafe
PROPERTIES
  FollowsLifecycle
