SPECIFICATION Spec
CONSTANTS
  Name = {acme}
  DefaultName = dflt
  Unprefixed = none_slug
  Doc = {d1, d2}
  Username = {admin1, ann}
  SeedUsers <- MCSeedUsers
  SeedDocs <- MCSeedDocs
  d1 = d1
  d2 = d2
  admin1 = admin1
  Role = {"agent", "admin"}
  Flag = {"support", "metrics"}
  Proc = {p1, p2}
  None = None
  SeedTickets = 1
  DemoCustomers = 1
  MaxSuffix = 2
  MaxOrgs = 3
  Ingestible <- MCIngestible
  MaxChanges = 2
INVARIANT
  ServingIsSeeded
