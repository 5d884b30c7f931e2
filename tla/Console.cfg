SPECIFICATION Spec
CONSTANTS
  agent = agent
  chief = chief
  boss = boss
  b1 = b1
  b2 = b2
  Visits <- Tours
  t1 = t1
  t2 = t2
  Logins <- People
  Tab = {b1, b2}
  User = {agent, chief, boss}
  RoleOf <- Roles
  Default = {agent, chief}
  Ticket = {t1, t2}
  NoOne = NoOne
  MaxCalls = 2
INVARIANTS
  TypeOK
  ShowsOneTicket
  BusyMeansInFlight
  ActsForWhomItShows
PROPERTIES
  OffersOnlyPermitted
SYMMETRY Alike
CHECK_DEADLOCK FALSE
