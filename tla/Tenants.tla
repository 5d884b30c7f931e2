------------------------------ MODULE Tenants -------------------------------
(***************************************************************************)
(* How the tables get their first rows and the orgs their people: the      *)
(* container start (docker-entrypoint.sh, seedIfEmpty, runSeed), an org    *)
(* that is created (POST /signup, POST /orgs, createOrg), users that are   *)
(* invited, documents that are ingested, and the consent an org gives to   *)
(* be looked at by the platform (PUT /orgs/consent, GET /platform/...).    *)
(*                                                                         *)
(* One step is one query with the synchronous code after it.  The server   *)
(* may go down between any two; it comes back through the entrypoint.      *)
(***************************************************************************)
EXTENDS Integers, Sequences, FiniteSets

CONSTANTS
  Name,         \* org names, told apart by what slugify makes of them
  DefaultName,  \* the one the default org takes its slug from
  Unprefixed,   \* stands for the missing slug in the ids of seed documents
  Doc,          \* the documents of a policy pack, and those of the seed
  SeedDocs,     \* the latter in the order they are read
  Username,
  Role,
  SeedUsers,    \* the demo accounts in their order, each with a name and a role
  Flag,         \* allow_platform_support, allow_platform_metrics
  Proc,         \* requests in flight
  None,
  SeedTickets,  \* how many tickets the seed has
  DemoCustomers,\* how many customers a new org gets
  MaxSuffix,    \* the last suffix deriveUniqueSlug tries
  MaxOrgs,      \* bound: no org is begun beyond so many
  Ingestible,   \* bound: the ids of the documents that are ingested by hand
  MaxChanges    \* bound on ingested documents and consent changes together

SlugOf == {Unprefixed} \cup ((Name \cup {DefaultName}) \X (1 .. MaxSuffix))

ASSUME RowsAssumption ==
  /\ Unprefixed \notin (Name \cup {DefaultName}) \X (1 .. MaxSuffix)
  /\ SeedDocs \in Seq(Doc)
  /\ SeedUsers \in Seq([name : Username, role : Role]) /\ "admin" \in Role
  /\ None \notin Name \cup Username \cup Doc \cup [org : Nat, role : Role]
ASSUME NumbersAssumption ==
  /\ SeedTickets \in Nat \ {0} /\ DemoCustomers \in Nat /\ MaxSuffix \in Nat \ {0}
  /\ MaxOrgs \in Nat /\ MaxChanges \in Nat
  /\ Ingestible \subseteq [slug : SlugOf, doc : Doc]

VARIABLES
  server,    \* "down", "seeding" or "up"
  seed,      \* the row of SeedRows that is written next
  tickets,   \* the seeded tickets: "absent", "open", or "worked" on since
  greeted,   \* those with their first message
  tools,     \* is the tool catalog there?
  orgs,      \* the slug of each org; org 1 is org_default
  customers, \* how many demo customers each org has
  consents,  \* the flags each org has set
  docs,      \* the kb_documents rows
  users,     \* the user of each name, or None
  ingested,  \* history: the documents stored by hand, each with its org
  changes,   \* how many such, and consent changes, there were
  answered,  \* the orgs that were reported as created, each with its admin
  overtaken, \* requests in flight while an org withdrew a flag
  pc,        \* pc[p]: the query request p issues next
  job        \* job[p]: its local variables

seeded == <<tickets, greeted, tools>>
vars == <<server, seed, seeded, orgs, customers, consents, docs, users, ingested,
          changes, answered, overtaken, pc, job>>

Default == 1
Slug(name, n) == <<name, n>>
SlugExists(slug) == \E o \in 1 .. Len(orgs) : orgs[o] = slug
User(org, role) == [org |-> org, role |-> role]
Admin(u) == users[u] # None /\ users[u].role = "admin"

\* ----- kb_documents ------------------------------------------------------
Row(slug, d, org, text) == [slug |-> slug, doc |-> d, org |-> org, text |-> text]
SameId(r, s) == r.slug = s.slug /\ r.doc = s.doc

\* upsertKbDocument is two queries.  The SELECT: a row of the same checksum stays
\* as it is, and where it is.
SameChecksum(table, row) == \E r \in table : SameId(r, row) /\ r.text = row.text

\* The INSERT: the id alone conflicts, and the row's org is the last writer's.
Stored(table, row) == {r \in table : ~SameId(r, row)} \cup {row}

\* ----- the container start -----------------------------------------------
\* The rows runSeed writes, in its order: the customers come with the org, the
\* expected labels with the ticket; the orders are left out.
SeedRows ==
  <<[kind |-> "org", id |-> 1]>>
    \o [i \in 1 .. 2 * SeedTickets |->
          [kind |-> IF i % 2 = 1 THEN "ticket" ELSE "message", id |-> (i + 1) \div 2]]
    \o [i \in 1 .. Len(SeedDocs) |-> [kind |-> "doc", id |-> i]]
    \o <<[kind |-> "tools", id |-> 1]>>
    \o [i \in 1 .. Len(SeedUsers) |-> [kind |-> "user", id |-> i]]

\* Mutant: seed on every start.
SeedNeededMutant == TRUE
\* seedIfEmpty: the tickets decide.
SeedNeeded == \A t \in 1 .. SeedTickets : tickets[t] = "absent"

Boot ==
  /\ server = "down"
  /\ IF SeedNeeded
     THEN server' = "seeding" /\ seed' = 1
     ELSE server' = "up" /\ UNCHANGED seed
  /\ UNCHANGED <<seeded, orgs, customers, consents, docs, users, ingested, changes,
                 answered, overtaken, pc, job>>

\* upsertSeedOrg, whose conflict is on the id.
SeedOrg ==
  IF Len(orgs) = 0
  THEN /\ orgs' = <<Slug(DefaultName, 1)>>
       /\ customers' = <<DemoCustomers>>
       /\ consents' = <<{}>>
  ELSE UNCHANGED <<orgs, customers, consents>>

\* Every row is an upsert; a ticket goes back to "open".  Nothing runs beside the
\* seed, so that a document's two queries are one step.
SeedRow ==
  /\ server = "seeding"
  /\ LET r == SeedRows[seed] IN
       /\ IF r.kind = "org" THEN SeedOrg ELSE UNCHANGED <<orgs, customers, consents>>
       /\ tickets' = IF r.kind = "ticket" THEN [tickets EXCEPT ![r.id] = "open"] ELSE tickets
       /\ greeted' = IF r.kind = "message" THEN greeted \cup {r.id} ELSE greeted
       /\ docs' = IF r.kind = "doc"
                  THEN LET row == Row(Unprefixed, SeedDocs[r.id], Default, "pack")
                       IN IF SameChecksum(docs, row) THEN docs ELSE Stored(docs, row)
                  ELSE docs
       /\ tools' = (tools \/ r.kind = "tools")
       /\ users' = IF r.kind = "user"
                   THEN LET u == SeedUsers[r.id]
                        IN [users EXCEPT ![u.name] = User(Default, u.role)]
                   ELSE users
  /\ IF seed = Len(SeedRows)
     THEN server' = "up" /\ seed' = 1
     ELSE seed' = seed + 1 /\ UNCHANGED server
  /\ UNCHANGED <<ingested, changes, answered, overtaken, pc, job>>

\* The container stops, or the seed throws: set -e ends the start.
Job(user, name, org, flag) ==
  [user |-> user, name |-> name, n |-> 1, org |-> org, docs |-> Doc, row |-> None, flag |-> flag]
NoJob == Job(None, None, Default, None)
GoDown ==
  /\ server # "down"
  /\ server' = "down"
  /\ pc' = [p \in Proc |-> "idle"] /\ job' = [p \in Proc |-> NoJob]
  /\ overtaken' = {} /\ seed' = 1
  /\ UNCHANGED <<seeded, orgs, customers, consents, docs, users, ingested, changes, answered>>

\* A pipeline or a person works on a seeded ticket.
Work(t) ==
  /\ server = "up" /\ tickets[t] = "open"
  /\ tickets' = [tickets EXCEPT ![t] = "worked"]
  /\ UNCHANGED <<server, seed, greeted, tools, orgs, customers, consents, docs, users,
                 ingested, changes, answered, overtaken, pc, job>>

\* ----- requests ----------------------------------------------------------
Rows == <<seeded, orgs, customers, consents, docs, users, ingested, changes, answered>>
Idle(p) == server = "up" /\ pc[p] = "idle"
Goto(p, step) == pc' = [pc EXCEPT ![p] = step]
Keep(p, j) == job' = [job EXCEPT ![p] = j]
Done(p) ==
  /\ Goto(p, "idle") /\ Keep(p, NoJob) /\ overtaken' = overtaken \ {p}

\* createOrg, for anyone (signup) or an admin of the default org.
StartOrg(p) ==
  /\ Idle(p) /\ Len(orgs) < MaxOrgs
  /\ \E name \in Name, u \in Username :
       /\ users[u] = None
       /\ Keep(p, Job(u, name, Default, None))
  /\ Goto(p, "slug")
  /\ UNCHANGED <<server, seed, overtaken, Rows>>

\* One round of deriveUniqueSlug.
TrySlug(p) ==
  /\ pc[p] = "slug"
  /\ LET j == job[p] IN
     \/ /\ ~SlugExists(Slug(j.name, j.n))
        /\ Goto(p, "org") /\ UNCHANGED <<job, overtaken>>
     \/ /\ SlugExists(Slug(j.name, j.n)) /\ j.n < MaxSuffix
        /\ Keep(p, [j EXCEPT !.n = j.n + 1]) /\ UNCHANGED <<pc, overtaken>>
     \/ SlugExists(Slug(j.name, j.n)) /\ j.n = MaxSuffix /\ Done(p)
  /\ UNCHANGED <<server, seed, Rows>>

\* Mutant: no UNIQUE constraint on orgs.slug.
SlugFreeMutant(slug) == TRUE
\* orgs_slug_unique: somebody may have taken the slug since it was looked for.
SlugFree(slug) == ~SlugExists(slug)

\* insertOrg; a unique violation is a 500.
InsertOrg(p) ==
  /\ pc[p] = "org"
  /\ LET slug == Slug(job[p].name, job[p].n) IN
     \/ /\ SlugFree(slug)
        /\ orgs' = Append(orgs, slug)
        /\ customers' = Append(customers, 0)
        /\ consents' = Append(consents, {})
        /\ Keep(p, [job[p] EXCEPT !.org = Len(orgs) + 1])
        /\ Goto(p, "stamp") /\ UNCHANGED overtaken
     \/ /\ ~SlugFree(slug)
        /\ Done(p) /\ UNCHANGED <<orgs, customers, consents>>
  /\ UNCHANGED <<server, seed, seeded, docs, users, ingested, changes, answered>>

\* One document of stampPolicyPack, its id prefixed with the slug: the SELECT.
Stamped(p, d) ==
  /\ Keep(p, [job[p] EXCEPT !.docs = @ \ {d}, !.row = None])
  /\ Goto(p, IF job[p].docs = {d} THEN "customers" ELSE "stamp")

Stamp(p) ==
  /\ pc[p] = "stamp"
  /\ \E d \in job[p].docs :
       LET row == Row(orgs[job[p].org], d, job[p].org, "pack") IN
       \/ SameChecksum(docs, row) /\ Stamped(p, d)
       \/ /\ ~SameChecksum(docs, row)
          /\ Keep(p, [job[p] EXCEPT !.row = row]) /\ Goto(p, "store")
  /\ UNCHANGED <<server, seed, overtaken, Rows>>

\* The INSERT.
StoreStamped(p) ==
  /\ pc[p] = "store"
  /\ docs' = Stored(docs, job[p].row)
  /\ Stamped(p, job[p].row.doc)
  /\ UNCHANGED <<server, seed, seeded, orgs, customers, consents, users, ingested, changes,
                 answered, overtaken>>

\* One customer of seedDemoCustomers.
InsertCustomer(p) ==
  /\ pc[p] = "customers"
  /\ LET o == job[p].org IN
     \/ /\ customers[o] < DemoCustomers
        /\ customers' = [customers EXCEPT ![o] = @ + 1] /\ UNCHANGED pc
     \/ customers[o] = DemoCustomers /\ Goto(p, "admin") /\ UNCHANGED customers
  /\ UNCHANGED <<server, seed, seeded, orgs, consents, docs, users, ingested, changes,
                 answered, overtaken, job>>

\* Mutant: the first admin is upserted, as the seed does it.
NameFreeMutant(u) == TRUE
\* UNIQUE on users.username.
NameFree(u) == users[u] = None

\* insertUser for the first admin, and the 201.  A unique violation is a 500;
\* the org stays, with nobody in it.
InsertAdmin(p) ==
  /\ pc[p] = "admin"
  /\ LET j == job[p] IN
     \/ /\ NameFree(j.user)
        /\ users' = [users EXCEPT ![j.user] = User(j.org, "admin")]
        /\ answered' = answered \cup {<<j.org, j.user>>}
     \/ ~NameFree(j.user) /\ UNCHANGED <<users, answered>>
  /\ Done(p)
  /\ UNCHANGED <<server, seed, seeded, orgs, customers, consents, docs, ingested, changes>>

\* POST /users/invite: by an admin, into his own org.
StartInvite(p) ==
  /\ Idle(p)
  /\ \E a, u \in Username, r \in Role :
       /\ Admin(a) /\ users[u] = None
       /\ Keep(p, Job(u, r, users[a].org, None))
  /\ Goto(p, "invite")
  /\ UNCHANGED <<server, seed, overtaken, Rows>>

InsertInvited(p) ==
  /\ pc[p] = "invite"
  /\ LET j == job[p] IN
       users' = IF NameFree(j.user) THEN [users EXCEPT ![j.user] = User(j.org, j.name)]
                ELSE users
  /\ Done(p)
  /\ UNCHANGED <<server, seed, seeded, orgs, customers, consents, docs, ingested, changes,
                 answered>>

\* POST /documents/ingest by an admin, one document of it: any id, be it another
\* org's or one that an org yet to come will stamp, and any text.  The SELECT; with
\* the same checksum there is no more to it.
StartIngest(p) ==
  /\ Idle(p) /\ changes < MaxChanges
  /\ \E a \in Username, i \in Ingestible, text \in {"pack", "own"} :
       LET row == Row(i.slug, i.doc, users[a].org, text) IN
       /\ Admin(a) /\ ~SameChecksum(docs, row)
       /\ Keep(p, [NoJob EXCEPT !.row = row])
  /\ Goto(p, "ingest")
  /\ changes' = changes + 1
  /\ UNCHANGED <<server, seed, seeded, orgs, customers, consents, docs, users, ingested,
                 answered, overtaken>>

Hand(slug, d, org) == [slug |-> slug, doc |-> d, org |-> org]

\* The INSERT.
StoreIngested(p) ==
  /\ pc[p] = "ingest"
  /\ LET row == job[p].row IN
       /\ docs' = Stored(docs, row)
       /\ ingested' = ingested \cup {Hand(row.slug, row.doc, row.org)}
  /\ Done(p)
  /\ UNCHANGED <<server, seed, seeded, orgs, customers, consents, users, changes, answered>>

\* PUT /orgs/consent by an admin, for his own org; a flag left out stays.
Consent ==
  /\ server = "up" /\ changes < MaxChanges
  /\ \E a \in Username, on, off \in SUBSET Flag :
       /\ Admin(a) /\ on \cap off = {}
       /\ consents' = [consents EXCEPT ![users[a].org] = (@ \cup on) \ off]
       /\ overtaken' = overtaken \cup
            {p \in Proc : pc[p] = "view" /\ job[p].org = users[a].org /\ job[p].flag \in off}
  /\ changes' = changes + 1
  /\ UNCHANGED <<server, seed, seeded, orgs, customers, docs, users, ingested, answered, pc, job>>

\* Mutant: any consent opens any view.
AllowsMutant(o, f) == consents[o] # {}
\* resolveConsentingTarget.
Allows(o, f) == f \in consents[o]

\* GET /platform/...: somebody of the default org names a target.
StartView(p) ==
  /\ Idle(p)
  /\ \E a \in Username, o \in 1 .. Len(orgs), f \in Flag :
       /\ users[a] # None /\ users[a].org = Default
       /\ Allows(o, f)
       /\ Keep(p, Job(None, None, o, f))
  /\ Goto(p, "view")
  /\ UNCHANGED <<server, seed, overtaken, Rows>>

\* The rows of the target are read, and shown.
View(p) ==
  /\ pc[p] = "view"
  /\ Done(p)
  /\ UNCHANGED <<server, seed, Rows>>

\* A query throws.
Fail(p) ==
  /\ pc[p] # "idle"
  /\ Done(p)
  /\ UNCHANGED <<server, seed, Rows>>

Init ==
  /\ server = "down" /\ seed = 1
  /\ tickets = [t \in 1 .. SeedTickets |-> "absent"] /\ greeted = {} /\ tools = FALSE
  /\ orgs = << >> /\ customers = << >> /\ consents = << >> /\ docs = {}
  /\ users = [u \in Username |-> None]
  /\ ingested = {} /\ changes = 0 /\ answered = {} /\ overtaken = {}
  /\ pc = [p \in Proc |-> "idle"] /\ job = [p \in Proc |-> NoJob]

CreateOrg(p) ==
  \/ TrySlug(p) \/ InsertOrg(p) \/ Stamp(p) \/ StoreStamped(p)
  \/ InsertCustomer(p) \/ InsertAdmin(p)
Next ==
  \/ Boot \/ SeedRow \/ GoDown \/ Consent
  \/ \E t \in 1 .. SeedTickets : Work(t)
  \/ \E p \in Proc :
       \/ StartOrg(p) \/ CreateOrg(p) \/ StartInvite(p) \/ InsertInvited(p)
       \/ StartIngest(p) \/ StoreIngested(p)
       \/ StartView(p) \/ View(p) \/ Fail(p)

Spec == Init /\ [][Next]_vars

-----------------------------------------------------------------------------
\* ----- properties --------------------------------------------------------
\* Every row points to an org that exists, and a request works on an org that
\* was stored before anything of it.
TypeOK ==
  /\ server \in {"down", "seeding", "up"} /\ seed \in 1 .. Len(SeedRows)
  /\ tickets \in [1 .. SeedTickets -> {"absent", "open", "worked"}]
  /\ greeted \subseteq 1 .. SeedTickets /\ tools \in BOOLEAN
  /\ Len(customers) = Len(orgs) /\ Len(consents) = Len(orgs)
  /\ \A o \in 1 .. Len(orgs) :
       orgs[o] \in SlugOf /\ customers[o] \in 0 .. DemoCustomers /\ consents[o] \subseteq Flag
  /\ docs \subseteq [slug : SlugOf, doc : Doc, org : 1 .. Len(orgs), text : {"pack", "own"}]
  /\ \A u \in Username :
       users[u] # None => users[u].org \in 1 .. Len(orgs) /\ users[u].role \in Role
  /\ overtaken \subseteq Proc
  /\ \A p \in Proc :
       /\ pc[p] \in {"stamp", "store", "customers", "admin", "invite", "view"}
            => job[p].org \in 1 .. Len(orgs)
       /\ pc[p] \in {"store", "ingest"} => job[p].row.org \in 1 .. Len(orgs)

\* An org that was reported as created is whole, whatever raced or failed before:
\* its customers are there, and each document of its policy pack is a row of the
\* org under its own slug, with the pack's text or one somebody stored by hand.
\* Only an admin of another org, who stored a document of that id, before or
\* after, may have the row instead.
Whole(o, d) ==
  \/ \E i \in ingested : i.slug = orgs[o] /\ i.doc = d /\ i.org # o
  \/ \E r \in docs : /\ r.slug = orgs[o] /\ r.doc = d /\ r.org = o
                      /\ (r.text = "pack" \/ Hand(orgs[o], d, o) \in ingested)
AnsweredOrgIsWhole ==
  \A a \in answered : customers[a[1]] = DemoCustomers /\ \A d \in Doc : Whole(a[1], d)

\* Whoever created an org gets into it: nobody takes his name over, and no seed
\* moves it to the default org.
AdminGetsIn == \A a \in answered : users[a[2]] = User(a[1], "admin")

\* What was worked on survives every restart, however often the server goes
\* down, the first boot included.
RestartLosesNothing ==
  [][\A t \in 1 .. SeedTickets : tickets[t] = "worked" => tickets'[t] = "worked"]_tickets

\* The platform is shown nothing an org does not allow, except to a request
\* that was let in before the org changed its mind.
ViewsAreAllowed ==
  \A p \in Proc :
    pc[p] = "view" => job[p].flag \in consents[job[p].org] \/ p \in overtaken

\* The entrypoint's claim: seeding "is safe on first boot AND safe on every
\* subsequent restart", so a server that is up has its demo accounts and data.
ServingIsSeeded ==
  server = "up" =>
    /\ greeted = 1 .. SeedTickets /\ tools
    /\ \A i \in 1 .. Len(SeedUsers) : users[SeedUsers[i].name] # None
=============================================================================
