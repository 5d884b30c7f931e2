---------------------------- MODULE TenantsProofs ----------------------------
(***************************************************************************)
(* Proofs about Tenants, for any seed with a ticket, any number of orgs,   *)
(* users and requests in flight.                                           *)
(***************************************************************************)
EXTENDS Tenants, SequenceTheorems, TLAPS

USE RowsAssumption, NumbersAssumption

\* ----- the rows of the seed ----------------------------------------------
RowKind == {"org", "ticket", "message", "doc", "tools", "user"}
SeedRowSet == [kind : RowKind, id : Nat]

\* A row of the seed names a ticket, a document or an account that exists, the
\* first one is the org's, the second one a ticket's.
GoodRow(r) ==
  /\ r.kind \in RowKind
  /\ r.kind \in {"ticket", "message"} => r.id \in 1 .. SeedTickets
  /\ r.kind = "doc" => r.id \in 1 .. Len(SeedDocs)
  /\ r.kind = "user" => r.id \in 1 .. Len(SeedUsers)

LEMMA SeedRowsGood ==
  /\ Len(SeedRows) \in Nat /\ Len(SeedRows) > 2
  /\ SeedRows[1].kind = "org"
  /\ SeedRows[2].kind = "ticket"
  /\ \A i \in 1 .. Len(SeedRows) : GoodRow(SeedRows[i])
<1> DEFINE a == <<[kind |-> "org", id |-> 1]>>
           b == [i \in 1 .. 2 * SeedTickets |->
                  [kind |-> IF i % 2 = 1 THEN "ticket" ELSE "message", id |-> (i + 1) \div 2]]
           c == [i \in 1 .. Len(SeedDocs) |-> [kind |-> "doc", id |-> i]]
           d == <<[kind |-> "tools", id |-> 1]>>
           e == [i \in 1 .. Len(SeedUsers) |-> [kind |-> "user", id |-> i]]
<1>1. /\ a \in Seq(SeedRowSet) /\ Len(a) = 1 /\ a[1].kind = "org"
      /\ \A i \in 1 .. Len(a) : GoodRow(a[i])
  BY DEF SeedRowSet, RowKind, GoodRow
<1>2. /\ b \in Seq(SeedRowSet) /\ Len(b) = 2 * SeedTickets /\ Len(b) \in Nat
      /\ b[1].kind = "ticket"
      /\ \A i \in 1 .. Len(b) : GoodRow(b[i])
  <2>1. \A i \in 1 .. 2 * SeedTickets :
          b[i] \in SeedRowSet /\ GoodRow(b[i])
    BY DEF SeedRowSet, RowKind, GoodRow
  <2>2. b \in [1 .. 2 * SeedTickets -> SeedRowSet] /\ 2 * SeedTickets \in Nat
    BY <2>1
  <2>3. b \in Seq(SeedRowSet) /\ Len(b) = 2 * SeedTickets
    BY <2>2
  <2>4. b[1].kind = "ticket"
    OBVIOUS
  <2>5. QED
    BY <2>1, <2>2, <2>3, <2>4
<1>3. /\ c \in Seq(SeedRowSet) /\ Len(c) \in Nat
      /\ \A i \in 1 .. Len(c) : GoodRow(c[i])
  <2>1. \A i \in 1 .. Len(SeedDocs) : c[i] \in SeedRowSet /\ GoodRow(c[i])
    BY DEF SeedRowSet, RowKind, GoodRow
  <2>2. c \in [1 .. Len(SeedDocs) -> SeedRowSet] /\ Len(SeedDocs) \in Nat
    BY <2>1
  <2>3. QED
    BY <2>1, <2>2
<1>4. /\ d \in Seq(SeedRowSet) /\ Len(d) = 1
      /\ \A i \in 1 .. Len(d) : GoodRow(d[i])
  BY DEF SeedRowSet, RowKind, GoodRow
<1>5. /\ e \in Seq(SeedRowSet) /\ Len(e) \in Nat
      /\ \A i \in 1 .. Len(e) : GoodRow(e[i])
  <2>1. \A i \in 1 .. Len(SeedUsers) : e[i] \in SeedRowSet /\ GoodRow(e[i])
    BY DEF SeedRowSet, RowKind, GoodRow
  <2>2. e \in [1 .. Len(SeedUsers) -> SeedRowSet] /\ Len(SeedUsers) \in Nat
    BY <2>1
  <2>3. QED
    BY <2>1, <2>2
<1> DEFINE Good(s) == s \in Seq(SeedRowSet) /\ \A i \in 1 .. Len(s) : GoodRow(s[i])
<1>6. ASSUME NEW s, NEW t, Good(s), Good(t)
      PROVE  /\ Good(s \o t) /\ Len(s \o t) = Len(s) + Len(t)
             /\ \A i \in 1 .. Len(s) : (s \o t)[i] = s[i]
  <2>1. /\ s \o t \in Seq(SeedRowSet) /\ Len(s \o t) = Len(s) + Len(t)
        /\ \A i \in 1 .. Len(s) : (s \o t)[i] = s[i]
        /\ \A i \in 1 .. Len(t) : (s \o t)[Len(s) + i] = t[i]
    BY <1>6, ConcatProperties
  <2>2. Len(s) \in Nat /\ Len(t) \in Nat
    BY <1>6
  <2>3. ASSUME NEW i \in 1 .. Len(s) + Len(t)
        PROVE  GoodRow((s \o t)[i])
    <3>1. CASE i \in 1 .. Len(s)
      BY <3>1, <2>1, <1>6
    <3>2. CASE i \notin 1 .. Len(s)
      <4>1. i - Len(s) \in 1 .. Len(t) /\ i = Len(s) + (i - Len(s))
        BY <3>2, <2>2
      <4>2. (s \o t)[i] = t[i - Len(s)]
        BY <4>1, <2>1
      <4>3. QED
        BY <4>1, <4>2, <1>6
    <3>3. QED
      BY <3>1, <3>2
  <2>4. QED
    BY <2>1, <2>3
<1> HIDE DEF a, b, c, d, e
<1>7. Good(a) /\ Good(b) /\ Good(c) /\ Good(d) /\ Good(e)
  BY <1>1, <1>2, <1>3, <1>4, <1>5
<1> HIDE DEF Good
<1>8. /\ Good(a \o b) /\ Len(a \o b) = Len(a) + Len(b)
      /\ \A i \in 1 .. Len(a) : (a \o b)[i] = a[i]
  BY ONLY <1>6, <1>7
<1>9. /\ Len(a \o b) \in Nat /\ Len(a \o b) >= 3
      /\ (a \o b)[1] = a[1] /\ (a \o b)[2] = b[1]
  <2>1. a \in Seq(SeedRowSet) /\ b \in Seq(SeedRowSet)
    BY <1>1, <1>2
  <2>2. \A i \in 1 .. Len(b) : (a \o b)[Len(a) + i] = b[i]
    BY ONLY <2>1, ConcatProperties
  <2>3. Len(a) = 1 /\ Len(b) \in Nat /\ Len(b) >= 2
    BY <1>1, <1>2
  <2>4. (a \o b)[Len(a) + 1] = b[1]
    BY ONLY <2>2, <2>3
  <2>5. QED
    BY ONLY <1>8, <2>3, <2>4
\* What is appended leaves the first two rows where they are.
<1>10. ASSUME NEW s, NEW t, Good(s), Good(t), Len(s) \in Nat, Len(t) \in Nat, Len(s) >= 3,
              s[1] = a[1], s[2] = b[1]
       PROVE  /\ Good(s \o t) /\ Len(s \o t) \in Nat /\ Len(s \o t) >= 3
              /\ (s \o t)[1] = a[1] /\ (s \o t)[2] = b[1]
  <2>1. /\ Good(s \o t) /\ Len(s \o t) = Len(s) + Len(t)
        /\ \A i \in 1 .. Len(s) : (s \o t)[i] = s[i]
    BY ONLY <1>6, <1>10
  <2>2. QED
    BY ONLY <2>1, <1>10
<1>11. Len(c) \in Nat /\ Len(d) \in Nat /\ Len(e) \in Nat
  BY <1>3, <1>4, <1>5
<1> DEFINE abc == (a \o b) \o c
           abcd == abc \o d
           rows == abcd \o e
<1>12. Good(abc) /\ Len(abc) \in Nat /\ Len(abc) >= 3 /\ abc[1] = a[1] /\ abc[2] = b[1]
  BY ONLY <1>7, <1>8, <1>9, <1>10, <1>11
<1>13. SeedRows = rows
  BY DEF SeedRows, a, b, c, d, e
<1> HIDE DEF abc
<1>14. Good(abcd) /\ Len(abcd) \in Nat /\ Len(abcd) >= 3 /\ abcd[1] = a[1] /\ abcd[2] = b[1]
  BY ONLY <1>7, <1>10, <1>11, <1>12
<1> HIDE DEF abcd
<1>15. Good(rows) /\ Len(rows) \in Nat /\ Len(rows) >= 3 /\ rows[1] = a[1] /\ rows[2] = b[1]
  BY ONLY <1>7, <1>10, <1>11, <1>14
<1> HIDE DEF rows
<1>16. QED
  BY <1>1, <1>2, <1>13, <1>15 DEF Good

\* ----- the invariant -----------------------------------------------------
PcSet == {"idle", "slug", "org", "stamp", "store", "customers", "admin", "invite", "ingest", "view"}
RowSet == [slug : SlugOf, doc : Doc, org : Nat, text : {"pack", "own"}]
JobSet == [user : Username \cup {None}, name : Name \cup Role \cup {None}, n : Nat \ {0},
           org : Nat, docs : SUBSET Doc, row : RowSet \cup {None}, flag : Flag \cup {None}]
UserRow == [org : 1 .. Len(orgs), role : Role]

\* While it seeds, no ticket was worked on; once it is up, or was, the tickets
\* are there, so that it never seeds again.
ServerOK ==
  /\ server \in {"down", "seeding", "up"} /\ seed \in 1 .. Len(SeedRows)
  /\ tickets \in [1 .. SeedTickets -> {"absent", "open", "worked"}]
  /\ greeted \subseteq 1 .. SeedTickets /\ tools \in BOOLEAN
  /\ server = "seeding" => \A t \in 1 .. SeedTickets : tickets[t] # "worked"
  /\ server = "seeding" /\ seed > 1 => Len(orgs) > 0
  /\ server = "seeding" /\ seed > 2 => ~SeedNeeded
  /\ server = "seeding" => answered = {}
  /\ server = "up" => ~SeedNeeded
  /\ answered # {} => ~SeedNeeded

OrgsOK ==
  /\ orgs \in Seq(SlugOf)
  /\ customers \in Seq(0 .. DemoCustomers) /\ Len(customers) = Len(orgs)
  /\ consents \in Seq(SUBSET Flag) /\ Len(consents) = Len(orgs)

DocsOK == docs \subseteq [slug : SlugOf, doc : Doc, org : 1 .. Len(orgs), text : {"pack", "own"}]

\* Every org that was answered has its admin.
UsersOK ==
  /\ users \in [Username -> {None} \cup UserRow]
  /\ answered \subseteq (1 .. Len(orgs)) \X Username
  /\ AdminGetsIn

\* Requests are in flight only while the server is up, and work on what exists.
JobOK(p) ==
  /\ pc[p] # "idle" => server = "up"
  /\ pc[p] \in {"slug", "org", "stamp", "store", "customers", "admin", "invite"}
       => job[p].user \in Username
  /\ pc[p] \in {"slug", "org"} => job[p].name \in Name /\ job[p].n \in 1 .. MaxSuffix
  /\ pc[p] = "invite" => job[p].name \in Role
  /\ pc[p] \in {"stamp", "store", "customers", "admin", "invite", "view"}
       => job[p].org \in 1 .. Len(orgs)
  /\ pc[p] \in {"store", "ingest"} => job[p].row \in RowSet /\ job[p].row.org \in 1 .. Len(orgs)
  /\ pc[p] = "view" => job[p].flag \in consents[job[p].org] \/ p \in overtaken

ProcsOK ==
  /\ pc \in [Proc -> PcSet] /\ job \in [Proc -> JobSet] /\ overtaken \subseteq Proc
  /\ \A p \in Proc : JobOK(p)

IInv == ServerOK /\ OrgsOK /\ DocsOK /\ UsersOK /\ ProcsOK

LEMMA InvariantTyped == IInv => TypeOK
<1> SUFFICES ASSUME IInv PROVE TypeOK
  OBVIOUS
<1>1. \A o \in 1 .. Len(orgs) :
        orgs[o] \in SlugOf /\ customers[o] \in 0 .. DemoCustomers /\ consents[o] \subseteq Flag
  BY DEF IInv, OrgsOK
<1>2. \A u \in Username :
        users[u] # None => users[u].org \in 1 .. Len(orgs) /\ users[u].role \in Role
  BY DEF IInv, UsersOK, UserRow
<1>3. QED
  BY <1>1, <1>2 DEF IInv, TypeOK, ServerOK, OrgsOK, DocsOK, ProcsOK, JobOK

\* A job is its fields.
LEMMA JobFields ==
  ASSUME NEW j \in JobSet, NEW n, NEW org, NEW ds \in SUBSET Doc, NEW row
  PROVE  /\ [j EXCEPT !.n = n] =
              [user |-> j.user, name |-> j.name, n |-> n, org |-> j.org, docs |-> j.docs,
               row |-> j.row, flag |-> j.flag]
         /\ [j EXCEPT !.org = org] =
              [user |-> j.user, name |-> j.name, n |-> j.n, org |-> org, docs |-> j.docs,
               row |-> j.row, flag |-> j.flag]
         /\ [j EXCEPT !.row = row] =
              [user |-> j.user, name |-> j.name, n |-> j.n, org |-> j.org, docs |-> j.docs,
               row |-> row, flag |-> j.flag]
         /\ [j EXCEPT !.docs = ds, !.row = None] \in JobSet
<1> DEFINE U == Username \cup {None}
           N == Name \cup Role \cup {None}
           D == SUBSET Doc
           R == RowSet \cup {None}
           F == Flag \cup {None}
           P == Nat \ {0}
<1>1. j \in [user : U, name : N, n : P, org : Nat, docs : D, row : R, flag : F]
  BY DEF JobSet
<1> HIDE DEF U, N, D, R, F, P
<1>2. [j EXCEPT !.n = n] =
        [user |-> j.user, name |-> j.name, n |-> n, org |-> j.org, docs |-> j.docs,
         row |-> j.row, flag |-> j.flag]
  BY ONLY <1>1
<1>3. [j EXCEPT !.org = org] =
        [user |-> j.user, name |-> j.name, n |-> j.n, org |-> org, docs |-> j.docs,
         row |-> j.row, flag |-> j.flag]
  BY ONLY <1>1
<1>4. [j EXCEPT !.row = row] =
        [user |-> j.user, name |-> j.name, n |-> j.n, org |-> j.org, docs |-> j.docs,
         row |-> row, flag |-> j.flag]
  BY ONLY <1>1
<1>5. [j EXCEPT !.docs = ds, !.row = None] \in
        [user : U, name : N, n : P, org : Nat, docs : D, row : R, flag : F]
  <2>1. ds \in D /\ None \in R
    BY DEF D, R
  <2>2. QED
    BY ONLY <1>1, <2>1
<1>6. [j EXCEPT !.docs = ds, !.row = None] \in JobSet
  BY <1>5 DEF JobSet, U, N, D, R, F, P
<1>7. QED
  BY <1>2, <1>3, <1>4, <1>6

LEMMA NoJobTyped == NoJob \in JobSet /\ "idle" \in PcSet
BY DEF NoJob, Job, Default, JobSet, PcSet

LEMMA InitIInv == Init => IInv
<1> SUFFICES ASSUME Init PROVE IInv
  OBVIOUS
<1>1. ServerOK
  <2>1. 1 \in 1 .. Len(SeedRows)
    BY SeedRowsGood
  <2>2. QED
    BY <2>1 DEF Init, ServerOK
<1>2. OrgsOK /\ DocsOK /\ UsersOK
  BY DEF Init, OrgsOK, DocsOK, UsersOK, AdminGetsIn
<1>3. ProcsOK
  BY NoJobTyped DEF Init, ProcsOK, JobOK
<1>4. QED
  BY <1>1, <1>2, <1>3 DEF IInv

\* ----- what is kept when orgs are only added -----------------------------
LEMMA ServerKept ==
  ASSUME IInv, UNCHANGED <<server, seed, seeded>>, Len(orgs') \in Nat, Len(orgs') >= Len(orgs),
         answered' = answered \/ server = "up"
  PROVE  ServerOK'
<1>1. Len(orgs) \in Nat
  BY DEF IInv, OrgsOK
<1>2. QED
  BY <1>1 DEF IInv, ServerOK, seeded, SeedNeeded

LEMMA DocsKept ==
  ASSUME IInv, UNCHANGED docs, Len(orgs') \in Nat, Len(orgs') >= Len(orgs)
  PROVE  DocsOK'
<1>1. Len(orgs) \in Nat /\ 1 .. Len(orgs) \subseteq 1 .. Len(orgs')
  BY DEF IInv, OrgsOK
<1>2. QED
  BY <1>1 DEF IInv, DocsOK

LEMMA UsersKept ==
  ASSUME IInv, UNCHANGED <<users, answered>>, Len(orgs') \in Nat, Len(orgs') >= Len(orgs)
  PROVE  UsersOK'
<1>1. Len(orgs) \in Nat /\ 1 .. Len(orgs) \subseteq 1 .. Len(orgs')
  BY DEF IInv, OrgsOK
<1>2. UserRow \subseteq UserRow'
  BY <1>1 DEF UserRow
<1>3. users' \in [Username -> {None} \cup UserRow']
  BY <1>2 DEF IInv, UsersOK
<1>4. AdminGetsIn'
  BY DEF IInv, UsersOK, AdminGetsIn
<1>5. QED
  BY <1>1, <1>3, <1>4 DEF IInv, UsersOK

LEMMA OrgsKept ==
  ASSUME IInv, UNCHANGED <<orgs, customers, consents>>
  PROVE  OrgsOK' /\ Len(orgs') \in Nat /\ Len(orgs') >= Len(orgs)
BY DEF IInv, OrgsOK

\* A request that moves on to a job that is in order.
LEMMA GoesOn ==
  ASSUME IInv, NEW p \in Proc, NEW step \in PcSet, NEW j \in JobSet,
         pc' = [pc EXCEPT ![p] = step], job' = [job EXCEPT ![p] = j],
         UNCHANGED server, overtaken' \in {overtaken, overtaken \ {p}},
         Len(orgs') \in Nat, Len(orgs') >= Len(orgs),
         \A o \in 1 .. Len(orgs) : consents'[o] = consents[o],
         JobOK(p)'
  PROVE  ProcsOK'
<1>1. /\ pc' \in [Proc -> PcSet] /\ job' \in [Proc -> JobSet] /\ overtaken' \subseteq Proc
      /\ \A q \in Proc \ {p} : pc'[q] = pc[q] /\ job'[q] = job[q]
  BY DEF IInv, ProcsOK
<1>2. Len(orgs) \in Nat /\ 1 .. Len(orgs) \subseteq 1 .. Len(orgs')
  BY DEF IInv, OrgsOK
<1>3. \A q \in Proc \ {p} : JobOK(q)'
  BY <1>1, <1>2 DEF IInv, ProcsOK, JobOK
<1>4. QED
  BY <1>1, <1>3 DEF ProcsOK

LEMMA DoneProcs ==
  ASSUME IInv, NEW p \in Proc, Done(p), UNCHANGED <<server, consents>>,
         Len(orgs') \in Nat, Len(orgs') >= Len(orgs)
  PROVE  ProcsOK'
<1>1. pc'[p] = "idle"
  BY DEF IInv, ProcsOK, Done, Goto
<1>2. JobOK(p)'
  BY <1>1 DEF JobOK
<1>3. QED
  BY <1>2, NoJobTyped, GoesOn DEF Done, Goto, Keep

\* ----- the container -----------------------------------------------------
LEMMA BootKeeps == ASSUME IInv, Boot PROVE IInv'
<1>1. UNCHANGED <<tickets, greeted, tools, orgs, customers, consents, docs, users, answered,
                  overtaken, pc, job>> /\ server = "down"
  BY DEF Boot, seeded
<1>2. ServerOK'
  <2>1. CASE SeedNeeded /\ server' = "seeding" /\ seed' = 1
    <3>1. 1 \in 1 .. Len(SeedRows)
      BY SeedRowsGood
    <3>2. QED
      BY <1>1, <2>1, <3>1 DEF IInv, ServerOK, SeedNeeded
  <2>2. CASE ~SeedNeeded /\ server' = "up" /\ UNCHANGED seed
    BY <1>1, <2>2 DEF IInv, ServerOK, SeedNeeded
  <2>3. QED
    BY <2>1, <2>2 DEF Boot
<1>3. ProcsOK'
  <2>1. \A p \in Proc : pc[p] = "idle"
    BY <1>1 DEF IInv, ProcsOK, JobOK
  <2>2. QED
    BY <1>1, <2>1 DEF IInv, ProcsOK, JobOK
<1>4. DocsOK' /\ UsersOK' /\ OrgsOK'
  BY <1>1, OrgsKept, DocsKept, UsersKept
<1>5. QED
  BY <1>2, <1>3, <1>4 DEF IInv

LEMMA GoDownKeeps == ASSUME IInv, GoDown PROVE IInv'
<1>1. UNCHANGED <<tickets, greeted, tools, orgs, customers, consents, docs, users, answered>>
      /\ server' = "down" /\ seed' = 1
  BY DEF GoDown, seeded
<1>2. ServerOK'
  <2>1. 1 \in 1 .. Len(SeedRows)
    BY SeedRowsGood
  <2>2. QED
    BY <1>1, <2>1 DEF IInv, ServerOK, SeedNeeded
<1>3. ProcsOK'
  BY NoJobTyped DEF GoDown, ProcsOK, JobOK
<1>4. DocsOK' /\ UsersOK' /\ OrgsOK'
  BY <1>1, OrgsKept, DocsKept, UsersKept
<1>5. QED
  BY <1>2, <1>3, <1>4 DEF IInv

LEMMA StoredTyped ==
  ASSUME DocsOK, NEW row \in RowSet, row.org \in 1 .. Len(orgs)
  PROVE  Stored(docs, row) \subseteq
           [slug : SlugOf, doc : Doc, org : 1 .. Len(orgs), text : {"pack", "own"}]
<1>1. row \in [slug : SlugOf, doc : Doc, org : 1 .. Len(orgs), text : {"pack", "own"}]
  BY DEF RowSet
<1>2. QED
  BY <1>1 DEF DocsOK, Stored

\* Nothing that anyone has worked on is seeded over, nobody's account either:
\* while the seed is written there is no answered org and no worked ticket.
LEMMA SeedRowKeeps == ASSUME IInv, SeedRow PROVE IInv'
<1> DEFINE r == SeedRows[seed]
<1>1. seed \in 1 .. Len(SeedRows) /\ Len(SeedRows) \in Nat /\ GoodRow(r) /\ server = "seeding"
  BY SeedRowsGood DEF IInv, ServerOK, SeedRow
<1>2. /\ IF r.kind = "org" THEN SeedOrg ELSE UNCHANGED <<orgs, customers, consents>>
      /\ tickets' = IF r.kind = "ticket" THEN [tickets EXCEPT ![r.id] = "open"] ELSE tickets
      /\ greeted' = IF r.kind = "message" THEN greeted \cup {r.id} ELSE greeted
      /\ docs' \in IF r.kind = "doc"
                   THEN {docs, Stored(docs, Row(Unprefixed, SeedDocs[r.id], Default, "pack"))}
                   ELSE {docs}
      /\ tools' = (tools \/ r.kind = "tools")
      /\ users' = IF r.kind = "user"
                  THEN [users EXCEPT ![SeedUsers[r.id].name] = User(Default, SeedUsers[r.id].role)]
                  ELSE users
      /\ UNCHANGED <<answered, overtaken, pc, job>>
  BY DEF SeedRow
<1>3. \/ seed = Len(SeedRows) /\ server' = "up" /\ seed' = 1
      \/ seed # Len(SeedRows) /\ server' = "seeding" /\ seed' = seed + 1
  BY <1>1 DEF SeedRow
<1>4. seed' \in 1 .. Len(SeedRows) /\ server' \in {"seeding", "up"}
  BY <1>1, <1>3
<1>5. OrgsOK' /\ Len(orgs') \in Nat /\ Len(orgs') >= Len(orgs) /\ Len(orgs') > 0
  <2>1. CASE r.kind = "org" /\ Len(orgs) = 0
    <3>1. Slug(DefaultName, 1) \in SlugOf
      <4>1. DefaultName \in Name \cup {DefaultName} /\ 1 \in 1 .. MaxSuffix
        OBVIOUS
      <4>2. QED
        BY <4>1 DEF SlugOf, Slug
    <3>2. orgs' = <<Slug(DefaultName, 1)>> /\ customers' = <<DemoCustomers>> /\ consents' = <<{}>>
      BY <2>1, <1>2 DEF SeedOrg
    <3>3. orgs' \in Seq(SlugOf) /\ Len(orgs') = 1
      BY <3>1, <3>2
    <3>4. /\ customers' \in Seq(0 .. DemoCustomers) /\ Len(customers') = 1
          /\ consents' \in Seq(SUBSET Flag) /\ Len(consents') = 1
      BY <3>2
    <3>5. QED
      BY <2>1, <3>3, <3>4 DEF OrgsOK
  <2>2. CASE ~(r.kind = "org" /\ Len(orgs) = 0)
    <3>1. UNCHANGED <<orgs, customers, consents>>
      BY <2>2, <1>2 DEF SeedOrg
    <3>2. Len(orgs) > 0
      <4>1. seed > 1 \/ r.kind = "org"
        BY <1>1, SeedRowsGood
      <4>2. Len(orgs) \in Nat
        BY DEF IInv, OrgsOK
      <4>3. QED
        BY <1>1, <2>2, <4>1, <4>2 DEF IInv, ServerOK
    <3>3. QED
      BY <3>1, <3>2, OrgsKept
  <2>3. QED
    BY <2>1, <2>2
<1>6. \A t \in 1 .. SeedTickets : tickets[t] # "worked"
  BY <1>1 DEF IInv, ServerOK
<1>7. answered = {} /\ answered' = {}
  BY <1>1, <1>2 DEF IInv, ServerOK
<1>8. ServerOK'
  <2>1. tickets' \in [1 .. SeedTickets -> {"absent", "open", "worked"}]
        /\ (\A t \in 1 .. SeedTickets : tickets'[t] # "worked")
    BY <1>2, <1>6 DEF IInv, ServerOK
  <2>2. greeted' \subseteq 1 .. SeedTickets /\ tools' \in BOOLEAN
    <3>1. r.kind = "message" => r.id \in 1 .. SeedTickets
      BY <1>1 DEF GoodRow
    <3>2. QED
      BY <1>2, <3>1 DEF IInv, ServerOK
  <2>3. seed > 1 => ~SeedNeeded'
    <3>1. CASE r.kind = "ticket"
      <4>1. r.id \in 1 .. SeedTickets
        BY <3>1, <1>1 DEF GoodRow
      <4>2. tickets'[r.id] = "open"
        BY <3>1, <4>1, <1>2 DEF IInv, ServerOK
      <4>3. QED
        BY <4>1, <4>2 DEF SeedNeeded
    <3>2. CASE r.kind # "ticket" /\ seed > 1
      <4>1. seed # 2
        BY <3>2, SeedRowsGood
      <4>2. seed > 2
        BY <3>2, <4>1, <1>1
      <4>3. QED
        BY <3>2, <4>2, <1>1, <1>2 DEF IInv, ServerOK, SeedNeeded
    <3>3. QED
      BY <3>1, <3>2
  <2>4. server' = "up" => seed > 1
    BY <1>1, <1>3, SeedRowsGood
  <2>5. server' = "seeding" /\ seed' > 2 => seed > 1
    BY <1>1, <1>3
  <2>6. QED
    BY <1>4, <1>5, <1>7, <2>1, <2>2, <2>3, <2>4, <2>5 DEF ServerOK
<1>9. DocsOK'
  <2>1. CASE r.kind = "doc"
    <3>1. r.id \in 1 .. Len(SeedDocs)
      BY <2>1, <1>1 DEF GoodRow
    <3>2. SeedDocs[r.id] \in Doc
      BY <3>1
    <3>3. UNCHANGED orgs /\ Len(orgs) \in Nat /\ Len(orgs) > 0
      BY <2>1, <1>2, <1>5
    <3>4. PICK row \in RowSet : /\ row = Row(Unprefixed, SeedDocs[r.id], Default, "pack")
                                /\ row.org \in 1 .. Len(orgs)
      <4>1. Unprefixed \in SlugOf
        BY DEF SlugOf
      <4>2. /\ Row(Unprefixed, SeedDocs[r.id], Default, "pack") \in RowSet
            /\ Row(Unprefixed, SeedDocs[r.id], Default, "pack").org = 1
        BY <3>2, <4>1 DEF Row, RowSet, Default
      <4>3. QED
        BY <3>3, <4>2
    <3>5. docs' \in {docs, Stored(docs, row)}
      BY <2>1, <1>2, <3>4
    <3>6. QED
      BY <3>3, <3>4, <3>5, StoredTyped DEF IInv, DocsOK
  <2>2. CASE r.kind # "doc"
    BY <2>2, <1>2, <1>5, DocsKept
  <2>3. QED
    BY <2>1, <2>2
<1>10. UsersOK'
  <2>1. CASE r.kind = "user"
    <3>1. r.id \in 1 .. Len(SeedUsers)
      BY <2>1, <1>1 DEF GoodRow
    <3>2. SeedUsers[r.id].name \in Username /\ SeedUsers[r.id].role \in Role
      <4>1. SeedUsers[r.id] \in [name : Username, role : Role]
        BY <3>1, ElementOfSeq
      <4>2. QED
        BY <4>1
    <3>3. UNCHANGED orgs /\ Len(orgs) \in Nat /\ Len(orgs) > 0
      BY <2>1, <1>2, <1>5
    <3>4. User(Default, SeedUsers[r.id].role) \in UserRow
      BY <3>2, <3>3 DEF User, UserRow, Default
    <3>5. users' \in [Username -> {None} \cup UserRow]
      BY <2>1, <1>2, <3>2, <3>4 DEF IInv, UsersOK
    <3>6. QED
      BY <1>7, <3>3, <3>5 DEF UsersOK, UserRow, AdminGetsIn
  <2>2. CASE r.kind # "user"
    BY <2>2, <1>2, <1>5, UsersKept
  <2>3. QED
    BY <2>1, <2>2
<1>11. ProcsOK'
  <2>1. \A p \in Proc : pc[p] = "idle"
    BY <1>1 DEF IInv, ProcsOK, JobOK
  <2>2. QED
    BY <1>2, <2>1 DEF IInv, ProcsOK, JobOK
<1>12. QED
  BY <1>5, <1>8, <1>9, <1>10, <1>11 DEF IInv

LEMMA WorkKeeps ==
  ASSUME IInv, NEW t \in 1 .. SeedTickets, Work(t)
  PROVE  IInv'
<1>1. UNCHANGED <<server, seed, greeted, tools, orgs, customers, consents, docs, users, answered,
                  overtaken, pc, job>>
      /\ tickets' = [tickets EXCEPT ![t] = "worked"] /\ server = "up"
  BY DEF Work
<1>2. ServerOK'
  BY <1>1 DEF IInv, ServerOK, SeedNeeded
<1>3. ProcsOK'
  BY <1>1 DEF IInv, ProcsOK, JobOK
<1>4. DocsOK' /\ UsersOK' /\ OrgsOK'
  BY <1>1, OrgsKept, DocsKept, UsersKept
<1>5. QED
  BY <1>2, <1>3, <1>4 DEF IInv

\* ----- the requests ------------------------------------------------------
\* A request that only reads: it moves on, or is done.
LEMMA ReadingKeeps ==
  ASSUME IInv, UNCHANGED <<server, seed, Rows>>, ProcsOK'
  PROVE  IInv'
<1>1. UNCHANGED <<server, seed, seeded, orgs, customers, consents, docs, users, answered>>
  BY DEF Rows
<1>2. DocsOK' /\ UsersOK' /\ OrgsOK' /\ ServerOK'
  BY <1>1, OrgsKept, DocsKept, UsersKept, ServerKept
<1>3. QED
  BY <1>2 DEF IInv

LEMMA StartOrgKeeps == ASSUME IInv, NEW p \in Proc, StartOrg(p) PROVE IInv'
<1>1. PICK name \in Name, u \in Username :
        job' = [job EXCEPT ![p] = Job(u, name, Default, None)]
  BY DEF StartOrg, Keep
<1> DEFINE j == Job(u, name, Default, None)
<1>2. /\ server = "up" /\ UNCHANGED <<server, seed, overtaken, Rows>>
      /\ pc' = [pc EXCEPT ![p] = "slug"]
  BY DEF StartOrg, Idle, Goto
<1>3. j \in JobSet /\ j.user = u /\ j.name = name /\ j.n = 1 /\ "slug" \in PcSet
  BY DEF Job, Default, JobSet, PcSet
<1>4. pc'[p] = "slug" /\ job'[p] = j
  BY <1>1, <1>2 DEF IInv, ProcsOK
<1>5. JobOK(p)'
  BY <1>2, <1>3, <1>4 DEF JobOK
<1>6. UNCHANGED <<orgs, consents>> /\ Len(orgs) \in Nat
  BY <1>2 DEF Rows, IInv, OrgsOK
<1>7. /\ job' = [job EXCEPT ![p] = j] /\ UNCHANGED <<server, overtaken>>
      /\ Len(orgs') \in Nat /\ Len(orgs') >= Len(orgs)
  BY <1>1, <1>2, <1>6
<1> HIDE DEF j
<1>8. ProcsOK'
  BY <1>2, <1>3, <1>5, <1>6, <1>7, GoesOn
<1>9. QED
  BY <1>2, <1>8, ReadingKeeps

LEMMA TrySlugKeeps == ASSUME IInv, NEW p \in Proc, TrySlug(p) PROVE IInv'
<1> DEFINE j == job[p]
<1>1. /\ pc[p] = "slug" /\ UNCHANGED <<server, seed, Rows>> /\ server = "up"
      /\ j \in JobSet /\ j.user \in Username /\ j.name \in Name /\ j.n \in 1 .. MaxSuffix
  BY DEF TrySlug, IInv, ProcsOK, JobOK
<1>2. UNCHANGED <<orgs, consents>> /\ Len(orgs) \in Nat /\ Len(orgs') \in Nat /\ Len(orgs') >= Len(orgs)
  BY <1>1 DEF Rows, IInv, OrgsOK
<1>3. CASE Goto(p, "org") /\ UNCHANGED <<job, overtaken>>
  <2>1. pc' = [pc EXCEPT ![p] = "org"] /\ job' = [job EXCEPT ![p] = j] /\ "org" \in PcSet
    BY <1>3 DEF Goto, PcSet, IInv, ProcsOK
  <2>2. pc'[p] = "org" /\ job'[p] = j
    BY <2>1 DEF IInv, ProcsOK
  <2>3. JobOK(p)'
    BY <1>1, <2>2 DEF JobOK
  <2>4. ProcsOK'
    BY <1>1, <1>2, <1>3, <2>1, <2>3, GoesOn
  <2>5. QED
    BY <1>1, <2>4, ReadingKeeps
<1>4. CASE j.n < MaxSuffix /\ Keep(p, [j EXCEPT !.n = j.n + 1]) /\ UNCHANGED <<pc, overtaken>>
  <2> DEFINE k == [j EXCEPT !.n = j.n + 1]
  <2>1. k \in JobSet /\ k.user = j.user /\ k.name = j.name /\ k.n \in 1 .. MaxSuffix
    <3>1. j.n + 1 \in 1 .. MaxSuffix /\ j.n + 1 \in Nat \ {0}
      BY <1>1, <1>4
    <3>2. k = [user |-> j.user, name |-> j.name, n |-> j.n + 1, org |-> j.org, docs |-> j.docs,
               row |-> j.row, flag |-> j.flag]
      BY <1>1, JobFields
    <3>3. QED
      BY <1>1, <3>1, <3>2 DEF JobSet
  <2>2. pc' = [pc EXCEPT ![p] = "slug"] /\ job' = [job EXCEPT ![p] = k] /\ "slug" \in PcSet
    BY <1>1, <1>4 DEF Keep, PcSet, IInv, ProcsOK
  <2>3. pc'[p] = "slug" /\ job'[p] = k
    BY <2>2 DEF IInv, ProcsOK
  <2> HIDE DEF k
  <2>4. JobOK(p)'
    BY <1>1, <2>1, <2>3 DEF JobOK
  <2>5. ProcsOK'
    BY <1>1, <1>2, <1>4, <2>1, <2>2, <2>4, GoesOn
  <2>6. QED
    BY <1>1, <2>5, ReadingKeeps
<1>5. CASE Done(p)
  BY <1>1, <1>2, <1>5, DoneProcs, ReadingKeeps
<1>6. QED
  BY <1>3, <1>4, <1>5 DEF TrySlug

\* The only step that adds an org: what was there keeps its place.
LEMMA InsertOrgKeeps == ASSUME IInv, NEW p \in Proc, InsertOrg(p) PROVE IInv'
<1> DEFINE j == job[p]
           slug == Slug(j.name, j.n)
<1>1. /\ pc[p] = "org" /\ UNCHANGED <<server, seed, seeded, docs, users, ingested, changes, answered>>
      /\ server = "up"
      /\ j \in JobSet /\ j.user \in Username /\ j.name \in Name /\ j.n \in 1 .. MaxSuffix
  BY DEF InsertOrg, IInv, ProcsOK, JobOK
<1>2. /\ orgs \in Seq(SlugOf) /\ customers \in Seq(0 .. DemoCustomers) /\ consents \in Seq(SUBSET Flag)
      /\ Len(orgs) \in Nat /\ Len(customers) = Len(orgs) /\ Len(consents) = Len(orgs)
  BY DEF IInv, OrgsOK
<1>3. CASE SlugFree(slug)
  <2> DEFINE k == [j EXCEPT !.org = Len(orgs) + 1]
  <2>1. /\ orgs' = Append(orgs, slug) /\ customers' = Append(customers, 0)
        /\ consents' = Append(consents, {})
        /\ job' = [job EXCEPT ![p] = k] /\ pc' = [pc EXCEPT ![p] = "stamp"]
        /\ UNCHANGED overtaken
    BY <1>3 DEF InsertOrg, Keep, Goto
  <2>2. slug \in SlugOf
    BY <1>1 DEF SlugOf, Slug
  <2>3. orgs' \in Seq(SlugOf) /\ Len(orgs') = Len(orgs) + 1
    BY <1>2, <2>1, <2>2
  <2>4. /\ customers' \in Seq(0 .. DemoCustomers) /\ Len(customers') = Len(orgs) + 1
        /\ consents' \in Seq(SUBSET Flag) /\ Len(consents') = Len(orgs) + 1
        /\ \A o \in 1 .. Len(orgs) : consents'[o] = consents[o]
    BY <1>2, <2>1
  <2>5. OrgsOK' /\ Len(orgs') \in Nat /\ Len(orgs') >= Len(orgs)
    BY <1>2, <2>3, <2>4 DEF OrgsOK
  <2>6. k \in JobSet /\ k.user = j.user /\ k.org \in 1 .. Len(orgs') /\ "stamp" \in PcSet
    <3>1. Len(orgs) + 1 \in 1 .. Len(orgs') /\ Len(orgs) + 1 \in Nat
      BY <1>2, <2>3
    <3>2. k = [user |-> j.user, name |-> j.name, n |-> j.n, org |-> Len(orgs) + 1, docs |-> j.docs,
               row |-> j.row, flag |-> j.flag]
      BY <1>1, JobFields
    <3>3. QED
      BY <1>1, <3>1, <3>2 DEF JobSet, PcSet
  <2>7. pc'[p] = "stamp" /\ job'[p] = k
    BY <2>1 DEF IInv, ProcsOK
  <2> HIDE DEF k
  <2>8. JobOK(p)'
    BY <1>1, <2>6, <2>7 DEF JobOK
  <2>9. ProcsOK'
    BY <1>1, <2>1, <2>4, <2>5, <2>6, <2>8, GoesOn
  <2>10. DocsOK' /\ UsersOK' /\ ServerOK'
    BY <1>1, <2>5, DocsKept, UsersKept, ServerKept
  <2>11. QED
    BY <2>5, <2>9, <2>10 DEF IInv
<1>4. CASE ~SlugFree(slug)
  <2>1. Done(p) /\ UNCHANGED <<orgs, customers, consents>>
    BY <1>4 DEF InsertOrg
  <2>2. UNCHANGED <<server, seed, Rows>>
    BY <1>1, <2>1 DEF Rows
  <2>3. QED
    BY <1>1, <1>2, <2>1, <2>2, DoneProcs, ReadingKeeps
<1>5. QED
  BY <1>3, <1>4

\* A document is dealt with: the next one, or the customers.
LEMMA StampedKeeps ==
  ASSUME IInv, NEW p \in Proc, pc[p] \in {"stamp", "store"}, NEW d, Stamped(p, d),
         UNCHANGED <<server, orgs, consents, overtaken>>
  PROVE  ProcsOK'
<1>1. PICK j \in JobSet : j = job[p] /\ j.user \in Username /\ j.org \in 1 .. Len(orgs)
  BY DEF IInv, ProcsOK, JobOK
<1> DEFINE k == [j EXCEPT !.docs = j.docs \ {d}, !.row = None]
           step == IF j.docs = {d} THEN "customers" ELSE "stamp"
<1>2. k \in JobSet /\ k.user = j.user /\ k.org = j.org
  <2>1. j.docs \ {d} \in SUBSET Doc
    BY DEF JobSet
  <2>2. QED
    BY <2>1, JobFields DEF JobSet
<1>3. pc' = [pc EXCEPT ![p] = step] /\ job' = [job EXCEPT ![p] = k]
  BY <1>1 DEF Stamped, Keep, Goto
<1>4. step \in PcSet /\ step \in {"stamp", "customers"}
  BY DEF PcSet
<1>5. pc'[p] = step /\ job'[p] = k
  BY <1>3 DEF IInv, ProcsOK
<1>6. server = "up" /\ Len(orgs') \in Nat /\ Len(orgs') >= Len(orgs)
  BY DEF IInv, ProcsOK, JobOK, OrgsOK
<1> HIDE DEF k, step
<1>7. JobOK(p)'
  BY <1>1, <1>2, <1>4, <1>5, <1>6 DEF JobOK
<1>8. QED
  BY <1>2, <1>3, <1>4, <1>6, <1>7, GoesOn

LEMMA StampKeeps == ASSUME IInv, NEW p \in Proc, Stamp(p) PROVE IInv'
<1>1. /\ UNCHANGED <<server, seed, overtaken, Rows>> /\ UNCHANGED <<orgs, consents>>
      /\ pc[p] = "stamp" /\ server = "up" /\ Len(orgs) \in Nat
  BY DEF Stamp, Rows, IInv, ProcsOK, JobOK, OrgsOK
<1>2. PICK j \in JobSet : j = job[p] /\ j.user \in Username /\ j.org \in 1 .. Len(orgs)
  BY <1>1 DEF IInv, ProcsOK, JobOK
<1>3. ASSUME NEW d \in j.docs, Stamped(p, d)
      PROVE  IInv'
  BY <1>1, <1>3, StampedKeeps, ReadingKeeps
<1>4. ASSUME NEW d \in j.docs,
             Keep(p, [j EXCEPT !.row = Row(orgs[j.org], d, j.org, "pack")]), Goto(p, "store")
      PROVE  IInv'
  <2> DEFINE row == Row(orgs[j.org], d, j.org, "pack")
             k == [user |-> j.user, name |-> j.name, n |-> j.n, org |-> j.org, docs |-> j.docs,
                   row |-> row, flag |-> j.flag]
  <2>1. row \in RowSet /\ row.org = j.org
    <3>1. d \in Doc /\ orgs[j.org] \in SlugOf /\ j.org \in Nat
      BY <1>1, <1>2 DEF JobSet, IInv, OrgsOK
    <3>2. QED
      BY <3>1 DEF Row, RowSet
  <2> HIDE DEF row
  <2>2. [j EXCEPT !.row = row] = k
    BY JobFields
  <2>3. pc' = [pc EXCEPT ![p] = "store"] /\ job' = [job EXCEPT ![p] = k]
    BY <1>4, <2>2 DEF Keep, Goto, row
  <2>4. k \in JobSet /\ k.user = j.user /\ k.org = j.org /\ k.row = row /\ "store" \in PcSet
    BY <2>1 DEF JobSet, PcSet
  <2>5. pc'[p] = "store" /\ job'[p] = k
    BY <2>3 DEF IInv, ProcsOK
  <2> HIDE DEF k
  <2>6. JobOK(p)'
    BY <1>1, <1>2, <2>1, <2>4, <2>5 DEF JobOK
  <2>7. /\ UNCHANGED <<server, overtaken>> /\ Len(orgs') \in Nat /\ Len(orgs') >= Len(orgs)
        /\ \A o \in 1 .. Len(orgs) : consents'[o] = consents[o]
    BY <1>1
  <2>8. ProcsOK'
    BY <2>3, <2>4, <2>6, <2>7, GoesOn
  <2>9. QED
    BY <1>1, <2>8, ReadingKeeps
<1>5. QED
  BY <1>2, <1>3, <1>4 DEF Stamp

LEMMA StoreStampedKeeps == ASSUME IInv, NEW p \in Proc, StoreStamped(p) PROVE IInv'
<1>1. /\ UNCHANGED <<server, seed, seeded, orgs, customers, consents, users, answered, overtaken>>
      /\ pc[p] = "store" /\ docs' = Stored(docs, job[p].row) /\ Stamped(p, job[p].row.doc)
      /\ job[p].row \in RowSet /\ job[p].row.org \in 1 .. Len(orgs) /\ server = "up"
  BY DEF StoreStamped, IInv, ProcsOK, JobOK
<1>2. OrgsOK' /\ Len(orgs') \in Nat /\ Len(orgs') >= Len(orgs)
  BY <1>1, OrgsKept
<1>3. ProcsOK'
  BY <1>1, StampedKeeps
<1>4. DocsOK'
  BY <1>1, StoredTyped DEF IInv, DocsOK
<1>5. UsersOK' /\ ServerOK'
  BY <1>1, <1>2, UsersKept, ServerKept
<1>6. QED
  BY <1>2, <1>3, <1>4, <1>5 DEF IInv

LEMMA InsertCustomerKeeps == ASSUME IInv, NEW p \in Proc, InsertCustomer(p) PROVE IInv'
<1> DEFINE o == job[p].org
<1>1. /\ UNCHANGED <<server, seed, seeded, orgs, consents, docs, users, answered, overtaken, job>>
      /\ job[p] \in JobSet /\ job[p].user \in Username /\ o \in 1 .. Len(orgs) /\ server = "up"
      /\ pc[p] = "customers"
  BY DEF InsertCustomer, IInv, ProcsOK, JobOK
<1>2. \/ /\ customers[o] < DemoCustomers /\ UNCHANGED pc
         /\ customers' = [customers EXCEPT ![o] = @ + 1]
      \/ pc' = [pc EXCEPT ![p] = "admin"] /\ UNCHANGED customers
  BY DEF InsertCustomer, Goto
<1>3. customers' \in Seq(0 .. DemoCustomers) /\ Len(customers') = Len(customers)
  <2>1. customers \in Seq(0 .. DemoCustomers) /\ o \in 1 .. Len(customers)
    BY <1>1 DEF IInv, OrgsOK
  <2>2. customers[o] \in 0 .. DemoCustomers
    BY <2>1
  <2>3. customers[o] < DemoCustomers => customers[o] + 1 \in 0 .. DemoCustomers
    BY <2>2
  <2>4. CASE customers[o] < DemoCustomers /\ customers' = [customers EXCEPT ![o] = @ + 1]
    BY <2>1, <2>3, <2>4, ExceptSeq
  <2>5. QED
    BY <1>2, <2>1, <2>4
<1>4. OrgsOK' /\ Len(orgs') \in Nat /\ Len(orgs') >= Len(orgs)
  BY <1>1, <1>3 DEF IInv, OrgsOK
<1>5. \E step \in {"customers", "admin"} : pc' = [pc EXCEPT ![p] = step]
  BY <1>1, <1>2 DEF IInv, ProcsOK
<1>6. PICK step \in {"customers", "admin"} : pc' = [pc EXCEPT ![p] = step]
  BY <1>5
<1>7. step \in PcSet /\ pc'[p] = step /\ job'[p] = job[p] /\ job' = [job EXCEPT ![p] = job[p]]
  BY <1>1, <1>6 DEF PcSet, IInv, ProcsOK
<1>8. JobOK(p)'
  BY <1>1, <1>7 DEF JobOK
<1>9. ProcsOK'
  BY <1>1, <1>4, <1>6, <1>7, <1>8, GoesOn
<1>10. DocsOK' /\ UsersOK' /\ ServerOK'
  BY <1>1, <1>4, DocsKept, UsersKept, ServerKept
<1>11. QED
  BY <1>4, <1>9, <1>10 DEF IInv

\* A name is given away once: the admins that were answered stay.
LEMMA NewUserKept ==
  ASSUME IInv, NEW u \in Username, NameFree(u), NEW row \in UserRow, UNCHANGED orgs,
         users' = [users EXCEPT ![u] = row]
  PROVE  /\ users' \in [Username -> {None} \cup UserRow']
         /\ \A a \in answered : users'[a[2]] = User(a[1], "admin")
         /\ users'[u] = row
<1>1. users' \in [Username -> {None} \cup UserRow'] /\ users'[u] = row
  BY DEF IInv, UsersOK, UserRow
<1>2. ASSUME NEW a \in answered
      PROVE  users'[a[2]] = User(a[1], "admin")
  <2>1. a[2] \in Username /\ a[1] \in Nat /\ users[a[2]] = User(a[1], "admin")
    BY DEF IInv, UsersOK, AdminGetsIn, OrgsOK
  <2>2. User(a[1], "admin") \in [org : Nat, role : Role]
    BY <2>1 DEF User
  <2>3. a[2] # u
    BY <2>1, <2>2 DEF NameFree
  <2>4. QED
    BY <2>1, <2>3 DEF IInv, UsersOK
<1>3. QED
  BY <1>1, <1>2

LEMMA InsertAdminKeeps == ASSUME IInv, NEW p \in Proc, InsertAdmin(p) PROVE IInv'
<1> DEFINE j == job[p]
<1>1. /\ UNCHANGED <<server, seed, seeded, orgs, customers, consents, docs>> /\ Done(p)
      /\ j.user \in Username /\ j.org \in 1 .. Len(orgs) /\ server = "up"
  BY DEF InsertAdmin, IInv, ProcsOK, JobOK
<1>2. OrgsOK' /\ Len(orgs') \in Nat /\ Len(orgs') >= Len(orgs)
  BY <1>1, OrgsKept
<1>3. ServerOK' /\ DocsOK' /\ ProcsOK'
  BY <1>1, <1>2, ServerKept, DocsKept, DoneProcs
<1>4. UsersOK'
  <2>1. CASE NameFree(j.user)
    <3>1. users' = [users EXCEPT ![j.user] = User(j.org, "admin")]
          /\ answered' = answered \cup {<<j.org, j.user>>}
      BY <2>1 DEF InsertAdmin
    <3>2. User(j.org, "admin") \in UserRow
      BY <1>1 DEF User, UserRow
    <3>3. /\ users' \in [Username -> {None} \cup UserRow']
          /\ \A a \in answered : users'[a[2]] = User(a[1], "admin")
          /\ users'[j.user] = User(j.org, "admin")
      BY <1>1, <2>1, <3>1, <3>2, NewUserKept
    <3>4. \A a \in answered' : users'[a[2]] = User(a[1], "admin")
      BY <3>1, <3>3
    <3>5. answered' \subseteq (1 .. Len(orgs')) \X Username
      BY <1>1, <3>1 DEF IInv, UsersOK
    <3>6. QED
      BY <3>3, <3>4, <3>5 DEF UsersOK, AdminGetsIn
  <2>2. CASE ~NameFree(j.user)
    BY <2>2, <1>2, UsersKept DEF InsertAdmin
  <2>3. QED
    BY <2>1, <2>2
<1>5. QED
  BY <1>2, <1>3, <1>4 DEF IInv

LEMMA StartInviteKeeps == ASSUME IInv, NEW p \in Proc, StartInvite(p) PROVE IInv'
<1>1. PICK a \in Username, u \in Username, r \in Role :
        /\ Admin(a)
        /\ job' = [job EXCEPT ![p] = Job(u, r, users[a].org, None)]
  BY DEF StartInvite, Keep
<1> DEFINE j == Job(u, r, users[a].org, None)
<1>2. /\ server = "up" /\ UNCHANGED <<server, seed, overtaken, Rows>>
      /\ pc' = [pc EXCEPT ![p] = "invite"]
  BY DEF StartInvite, Idle, Goto
<1>3. users[a].org \in 1 .. Len(orgs) /\ Len(orgs) \in Nat
  BY <1>1 DEF Admin, IInv, UsersOK, UserRow, OrgsOK
<1>4. j \in JobSet /\ j.user = u /\ j.name = r /\ j.org = users[a].org /\ "invite" \in PcSet
  <2>1. users[a].org \in Nat
    BY <1>3
  <2>2. QED
    BY <2>1 DEF Job, JobSet, PcSet
<1>5. pc'[p] = "invite" /\ job'[p] = j
  BY <1>1, <1>2 DEF IInv, ProcsOK
<1>6. UNCHANGED <<orgs, consents>>
  BY <1>2 DEF Rows
<1>7. job' = [job EXCEPT ![p] = j]
  BY <1>1
<1> HIDE DEF j
<1>8. JobOK(p)'
  BY <1>2, <1>3, <1>4, <1>5, <1>6 DEF JobOK
<1>9. UNCHANGED <<server, overtaken>> /\ Len(orgs') \in Nat /\ Len(orgs') >= Len(orgs)
  BY <1>2, <1>3, <1>6
<1>10. ProcsOK'
  BY <1>2, <1>4, <1>6, <1>7, <1>8, <1>9, GoesOn
<1>11. QED
  BY <1>2, <1>10, ReadingKeeps

LEMMA InsertInvitedKeeps == ASSUME IInv, NEW p \in Proc, InsertInvited(p) PROVE IInv'
<1> DEFINE j == job[p]
<1>1. /\ UNCHANGED <<server, seed, seeded, orgs, customers, consents, docs, answered>> /\ Done(p)
      /\ j.user \in Username /\ j.org \in 1 .. Len(orgs) /\ j.name \in Role
      /\ users' = IF NameFree(j.user) THEN [users EXCEPT ![j.user] = User(j.org, j.name)]
                  ELSE users
  BY DEF InsertInvited, IInv, ProcsOK, JobOK
<1>2. OrgsOK' /\ Len(orgs') \in Nat /\ Len(orgs') >= Len(orgs)
  BY <1>1, OrgsKept
<1>3. ServerOK' /\ DocsOK' /\ ProcsOK'
  BY <1>1, <1>2, ServerKept, DocsKept, DoneProcs
<1>4. UsersOK'
  <2>1. CASE NameFree(j.user)
    <3>1. User(j.org, j.name) \in UserRow
      BY <1>1 DEF User, UserRow
    <3>2. /\ users' \in [Username -> {None} \cup UserRow']
          /\ \A a \in answered : users'[a[2]] = User(a[1], "admin")
      BY <1>1, <2>1, <3>1, NewUserKept
    <3>3. QED
      BY <1>1, <3>2 DEF IInv, UsersOK, AdminGetsIn
  <2>2. CASE ~NameFree(j.user)
    BY <2>2, <1>1, <1>2, UsersKept
  <2>3. QED
    BY <2>1, <2>2
<1>5. QED
  BY <1>2, <1>3, <1>4 DEF IInv

LEMMA StartIngestKeeps == ASSUME IInv, NEW p \in Proc, StartIngest(p) PROVE IInv'
<1>1. PICK a \in Username, i \in Ingestible, text \in {"pack", "own"} :
        /\ Admin(a)
        /\ job' = [job EXCEPT ![p] = [NoJob EXCEPT !.row = Row(i.slug, i.doc, users[a].org, text)]]
  BY DEF StartIngest, Keep
<1>2. /\ UNCHANGED <<server, seed, seeded, orgs, customers, consents, docs, users, answered,
                     overtaken>>
      /\ server = "up" /\ pc' = [pc EXCEPT ![p] = "ingest"]
  BY DEF StartIngest, Idle, Goto
<1>3. users[a].org \in 1 .. Len(orgs) /\ Len(orgs) \in Nat
  BY <1>1 DEF Admin, IInv, UsersOK, UserRow, OrgsOK
<1> DEFINE row == Row(i.slug, i.doc, users[a].org, text)
           k == [NoJob EXCEPT !.row = row]
<1>4. row \in RowSet /\ row.org \in 1 .. Len(orgs)
  <2>1. i.slug \in SlugOf /\ i.doc \in Doc /\ users[a].org \in Nat
    BY <1>3
  <2>2. QED
    BY <1>3, <2>1 DEF Row, RowSet
<1>5. job' = [job EXCEPT ![p] = k]
  BY <1>1
<1> HIDE DEF row
<1>6. k \in JobSet /\ k.row = row /\ "ingest" \in PcSet
  BY <1>4 DEF NoJob, Job, Default, JobSet, PcSet
<1> HIDE DEF k
<1>7. pc'[p] = "ingest" /\ job'[p] = k
  BY <1>2, <1>5 DEF IInv, ProcsOK
<1>8. JobOK(p)'
  BY <1>2, <1>4, <1>6, <1>7 DEF JobOK
<1>9. OrgsOK' /\ Len(orgs') \in Nat /\ Len(orgs') >= Len(orgs)
  BY <1>2, OrgsKept
<1>10. ProcsOK'
  BY <1>2, <1>5, <1>6, <1>8, <1>9, GoesOn
<1>11. DocsOK' /\ UsersOK' /\ ServerOK'
  BY <1>2, <1>9, DocsKept, UsersKept, ServerKept
<1>12. QED
  BY <1>9, <1>10, <1>11 DEF IInv

LEMMA StoreIngestedKeeps == ASSUME IInv, NEW p \in Proc, StoreIngested(p) PROVE IInv'
<1>1. /\ UNCHANGED <<server, seed, seeded, orgs, customers, consents, users, answered>> /\ Done(p)
      /\ docs' = Stored(docs, job[p].row)
      /\ job[p].row \in RowSet /\ job[p].row.org \in 1 .. Len(orgs)
  BY DEF StoreIngested, IInv, ProcsOK, JobOK
<1>2. OrgsOK' /\ Len(orgs') \in Nat /\ Len(orgs') >= Len(orgs)
  BY <1>1, OrgsKept
<1>3. ServerOK' /\ UsersOK' /\ ProcsOK'
  BY <1>1, <1>2, ServerKept, UsersKept, DoneProcs
<1>4. DocsOK'
  BY <1>1, StoredTyped DEF IInv, DocsOK
<1>5. QED
  BY <1>2, <1>3, <1>4 DEF IInv

\* A withdrawn flag overtakes the views that were let in under it.
LEMMA ConsentKeeps == ASSUME IInv, Consent PROVE IInv'
<1>1. PICK a \in Username, on \in SUBSET Flag, off \in SUBSET Flag :
        /\ Admin(a) /\ on \cap off = {}
        /\ consents' = [consents EXCEPT ![users[a].org] = (@ \cup on) \ off]
        /\ overtaken' = overtaken \cup
             {p \in Proc : pc[p] = "view" /\ job[p].org = users[a].org /\ job[p].flag \in off}
  BY DEF Consent
<1> DEFINE o == users[a].org
<1>2. UNCHANGED <<server, seed, seeded, orgs, customers, docs, users, answered, pc, job>>
  BY DEF Consent
<1>3. o \in 1 .. Len(orgs) /\ Len(orgs) \in Nat
  BY <1>1 DEF Admin, IInv, UsersOK, UserRow, OrgsOK
<1>4. /\ consents' \in Seq(SUBSET Flag) /\ Len(consents') = Len(consents)
      /\ \A q \in 1 .. Len(orgs) : q # o => consents'[q] = consents[q]
      /\ consents'[o] = (consents[o] \cup on) \ off
  BY <1>1, <1>3 DEF IInv, OrgsOK
<1>5. OrgsOK'
  BY <1>2, <1>4 DEF IInv, OrgsOK
<1>6. ServerOK' /\ DocsOK' /\ UsersOK'
  BY <1>2, <1>3, ServerKept, DocsKept, UsersKept
<1>7. ASSUME NEW p \in Proc, pc[p] = "view"
      PROVE  job[p].flag \in consents'[job[p].org] \/ p \in overtaken'
  <2>1. /\ job[p].org \in 1 .. Len(orgs)
        /\ job[p].flag \in consents[job[p].org] \/ p \in overtaken
    BY <1>7 DEF IInv, ProcsOK, JobOK
  <2>2. CASE job[p].org = o /\ job[p].flag \in off
    BY <1>1, <1>7, <2>2
  <2>3. CASE job[p].org # o \/ job[p].flag \notin off
    BY <1>1, <1>4, <2>1, <2>3
  <2>4. QED
    BY <2>2, <2>3
<1>8. overtaken' \subseteq Proc
  BY <1>1 DEF IInv, ProcsOK
<1>9. ProcsOK'
  BY <1>2, <1>7, <1>8 DEF IInv, ProcsOK, JobOK
<1>10. QED
  BY <1>5, <1>6, <1>9 DEF IInv

LEMMA StartViewKeeps == ASSUME IInv, NEW p \in Proc, StartView(p) PROVE IInv'
<1>1. PICK o \in 1 .. Len(orgs), f \in Flag :
        Allows(o, f) /\ job' = [job EXCEPT ![p] = Job(None, None, o, f)]
  BY DEF StartView, Keep
<1> DEFINE j == Job(None, None, o, f)
<1>2. /\ server = "up" /\ UNCHANGED <<server, seed, overtaken, Rows>>
      /\ pc' = [pc EXCEPT ![p] = "view"]
  BY DEF StartView, Idle, Goto
<1>3. Len(orgs) \in Nat
  BY DEF IInv, OrgsOK
<1>4. j \in JobSet /\ j.org = o /\ j.flag = f /\ "view" \in PcSet
  <2>1. o \in Nat
    BY <1>3
  <2>2. QED
    BY <2>1 DEF Job, JobSet, PcSet
<1>5. pc'[p] = "view" /\ job'[p] = j
  BY <1>1, <1>2 DEF IInv, ProcsOK
<1>6. UNCHANGED <<orgs, consents>>
  BY <1>2 DEF Rows
<1>7. job' = [job EXCEPT ![p] = j]
  BY <1>1
<1> HIDE DEF j
<1>8. JobOK(p)'
  BY <1>1, <1>2, <1>4, <1>5, <1>6 DEF JobOK, Allows
<1>9. UNCHANGED <<server, overtaken>> /\ Len(orgs') \in Nat /\ Len(orgs') >= Len(orgs)
  BY <1>2, <1>3, <1>6
<1>10. ProcsOK'
  BY <1>2, <1>4, <1>6, <1>7, <1>8, <1>9, GoesOn
<1>11. QED
  BY <1>2, <1>10, ReadingKeeps

LEMMA EndKeeps == ASSUME IInv, NEW p \in Proc, View(p) \/ Fail(p) PROVE IInv'
<1>1. Done(p) /\ UNCHANGED <<server, seed, Rows>>
  BY DEF View, Fail
<1>2. UNCHANGED <<orgs, consents>> /\ Len(orgs) \in Nat
  BY <1>1 DEF Rows, IInv, OrgsOK
<1>3. ProcsOK'
  BY <1>1, <1>2, DoneProcs
<1>4. QED
  BY <1>1, <1>3, ReadingKeeps

\* ----- every step --------------------------------------------------------
LEMMA StepKeeps == IInv /\ [Next]_vars => IInv'
<1> SUFFICES ASSUME IInv, [Next]_vars PROVE IInv'
  OBVIOUS
<1>1. CASE Boot \/ SeedRow \/ GoDown \/ Consent
  BY <1>1, BootKeeps, SeedRowKeeps, GoDownKeeps, ConsentKeeps
<1>2. CASE \E t \in 1 .. SeedTickets : Work(t)
  BY <1>2, WorkKeeps
<1>3. ASSUME NEW p \in Proc, StartOrg(p) \/ CreateOrg(p) PROVE IInv'
  BY <1>3, StartOrgKeeps, TrySlugKeeps, InsertOrgKeeps, StampKeeps, StoreStampedKeeps,
     InsertCustomerKeeps, InsertAdminKeeps DEF CreateOrg
<1>4. ASSUME NEW p \in Proc,
             StartInvite(p) \/ InsertInvited(p) \/ StartIngest(p) \/ StoreIngested(p)
      PROVE  IInv'
  BY <1>4, StartInviteKeeps, InsertInvitedKeeps, StartIngestKeeps, StoreIngestedKeeps
<1>5. ASSUME NEW p \in Proc, StartView(p) \/ View(p) \/ Fail(p) PROVE IInv'
  BY <1>5, StartViewKeeps, EndKeeps
<1>6. CASE UNCHANGED vars
  <2>1. UNCHANGED <<server, seed, overtaken, pc, job, Rows, consents>>
    BY <1>6 DEF vars, Rows
  <2>2. ProcsOK'
    BY <1>6 DEF vars, IInv, ProcsOK, JobOK
  <2>3. QED
    BY <2>1, <2>2, ReadingKeeps
<1>7. QED
  BY <1>1, <1>2, <1>3, <1>4, <1>5, <1>6 DEF Next

LEMMA Invariant == Spec => []IInv
BY InitIInv, StepKeeps, PTL DEF Spec

\* Every stored row points to an org that exists and a request works on an org
\* that was stored before anything of it (TypeOK of Tenants), with any number
\* of orgs, users, documents and requests in flight.
THEOREM TypeCorrect == Spec => []TypeOK
BY Invariant, InvariantTyped, PTL

\* The admin of an org that was reported as created keeps his account and his
\* role: neither a name taken at the same time nor the seed of a later start
\* touches it (insertUser, upsertSeedUser, seedIfEmpty).
THEOREM AdminStays == Spec => []AdminGetsIn
<1>1. IInv => AdminGetsIn
  BY DEF IInv, UsersOK
<1>2. QED
  BY <1>1, Invariant, PTL

\* The platform shows nothing without the flag it needs, save to a request let
\* in before the org withdrew it (resolveConsentingTarget).
THEOREM ConsentedViews == Spec => []ViewsAreAllowed
<1>1. IInv => ViewsAreAllowed
  BY DEF IInv, ProcsOK, JobOK, ViewsAreAllowed
<1>2. QED
  BY <1>1, Invariant, PTL

\* A restart never puts a ticket back that was worked on, whenever the server
\* went down, in the middle of the seed included (seedIfEmpty, runSeed).
THEOREM WorkSurvives == Spec => RestartLosesNothing
<1> DEFINE Kept == \A t \in 1 .. SeedTickets : tickets[t] = "worked" => tickets'[t] = "worked"
<1>1. IInv /\ [Next]_vars => [Kept]_tickets
  <2> SUFFICES ASSUME IInv, [Next]_vars, tickets' # tickets PROVE Kept
    OBVIOUS
  <2>1. CASE SeedRow
    BY <2>1 DEF SeedRow, IInv, ServerOK
  <2>2. CASE \E t \in 1 .. SeedTickets : Work(t)
    BY <2>2 DEF Work, IInv, ServerOK
  <2>3. CASE ~SeedRow /\ ~(\E t \in 1 .. SeedTickets : Work(t))
    BY <2>3 DEF Next, CreateOrg, Boot, GoDown, Consent, StartOrg, TrySlug, InsertOrg, Stamp,
       StoreStamped, InsertCustomer, InsertAdmin, StartInvite, InsertInvited, StartIngest,
       StoreIngested, StartView, View, Fail, Rows, seeded, vars
  <2>4. QED
    BY <2>1, <2>2, <2>3
<1>2. QED
  BY <1>1, Invariant, PTL DEF Spec, RestartLosesNothing

\* ----- an answered org is whole -------------------------------------------
\* A slug is a name with a suffix, and it is one org's.
SlugsUnique ==
  /\ \A o \in 1 .. Len(orgs) : orgs[o] \in (Name \cup {DefaultName}) \X (1 .. MaxSuffix)
  /\ \A o1, o2 \in 1 .. Len(orgs) : orgs[o1] = orgs[o2] => o1 = o2

\* A row nobody stored by hand is of the seed, or of the pack of the org of its slug.
DocsTrue ==
  \A r \in docs :
    \/ Hand(r.slug, r.doc, r.org) \in ingested
    \/ r.slug = Unprefixed
    \/ r.slug = orgs[r.org] /\ r.text = "pack"

\* How far a request has come with the org it creates.
Progress(p) ==
  /\ pc[p] \in {"slug", "org"} => job[p].docs = Doc
  /\ pc[p] \in {"stamp", "store"} => \A d \in Doc \ job[p].docs : Whole(job[p].org, d)
  /\ pc[p] = "store" => \E d \in Doc : job[p].row = Row(orgs[job[p].org], d, job[p].org, "pack")
  /\ pc[p] \in {"customers", "admin"} => \A d \in Doc : Whole(job[p].org, d)
  /\ pc[p] = "admin" => customers[job[p].org] = DemoCustomers

WholeInv ==
  SlugsUnique /\ DocsTrue /\ (\A p \in Proc : Progress(p)) /\ AnsweredOrgIsWhole

\* An INSERT replaces the row of its id, and that one only.
LEMMA StoredReplaces ==
  ASSUME NEW table, NEW row
  PROVE  /\ \A r \in table : ~SameId(r, row) => r \in Stored(table, row)
         /\ \A r \in Stored(table, row) : r \in table \/ r = row
         /\ row \in Stored(table, row)
BY DEF Stored

\* What a step does to the orgs: none, the first one, or one more.
OrgsStay == \A o \in 1 .. Len(orgs) :
  /\ orgs'[o] = orgs[o]
  /\ customers[o] = DemoCustomers => customers'[o] = DemoCustomers

\* What a step does to the documents: none, or one INSERT, of an id somebody
\* stores by hand, of the seed, or of the pack of an org.
OneStore(slug, d, o, text) ==
  /\ docs' = Stored(docs, Row(slug, d, o, text))
  /\ \/ Hand(slug, d, o) \in ingested'
     \/ slug = Unprefixed
     \/ o \in 1 .. Len(orgs) /\ slug = orgs[o] /\ text = "pack"
DocsMove ==
  /\ ingested \subseteq ingested'
  /\ \/ UNCHANGED docs
     \/ \E slug \in SlugOf, d \in Doc, o \in Nat, text \in {"pack", "own"} :
          OneStore(slug, d, o, text)

LEMMA OrgsUnchanged ==
  ASSUME IInv, WholeInv, UNCHANGED <<orgs, customers>>
  PROVE  OrgsStay /\ SlugsUnique'
BY DEF OrgsStay, WholeInv, SlugsUnique

LEMMA DocsUnchanged ==
  ASSUME UNCHANGED <<docs, ingested>>
  PROVE  DocsMove
BY DEF DocsMove

\* The documents of every org that exists survive a step.
LEMMA WholeStays ==
  ASSUME IInv, WholeInv, OrgsStay, DocsMove, NEW o \in 1 .. Len(orgs), NEW d \in Doc, Whole(o, d)
  PROVE  Whole(o, d)'
<1>1. orgs'[o] = orgs[o] /\ ingested \subseteq ingested'
  BY DEF OrgsStay, DocsMove
<1>2. CASE \E i \in ingested : i.slug = orgs[o] /\ i.doc = d /\ i.org # o
  BY <1>1, <1>2 DEF Whole
<1>3. ASSUME NEW r \in docs, r.slug = orgs[o], r.doc = d, r.org = o,
             r.text = "pack" \/ Hand(orgs[o], d, o) \in ingested
      PROVE  Whole(o, d)'
  <2>1. CASE UNCHANGED docs
    BY <1>1, <1>3, <2>1 DEF Whole
  <2>2. ASSUME NEW slug \in SlugOf, NEW e \in Doc, NEW q \in Nat, NEW text \in {"pack", "own"},
               OneStore(slug, e, q, text)
        PROVE  Whole(o, d)'
    <3>1. PICK row : row = Row(slug, e, q, text)
      OBVIOUS
    <3>2. row.slug = slug /\ row.doc = e /\ row.org = q /\ row.text = text
      BY <3>1 DEF Row
    <3>3. docs' = Stored(docs, row)
      BY <2>2, <3>1 DEF OneStore
    <3>4. CASE slug # orgs[o] \/ e # d
      <4>1. ~SameId(r, row)
        BY <1>3, <3>2, <3>4 DEF SameId
      <4>2. r \in docs'
        BY <3>3, <4>1, StoredReplaces
      <4>3. QED
        BY <1>1, <1>3, <4>2 DEF Whole
    <3>5. CASE slug = orgs[o] /\ e = d
      <4>1. row \in docs'
        BY <3>3, StoredReplaces
      <4>2. CASE Hand(slug, e, q) \in ingested' /\ q # o
        <5>1. PICK i \in ingested' : i = Hand(slug, e, q)
          BY <4>2
        <5>2. i.slug = orgs[o] /\ i.doc = d /\ i.org # o
          BY <3>5, <4>2, <5>1 DEF Hand
        <5>3. QED
          BY <1>1, <5>2 DEF Whole
      <4>3. CASE Hand(slug, e, q) \in ingested' /\ q = o
        BY <1>1, <3>2, <3>5, <4>1, <4>3 DEF Whole
      <4>4. CASE q \in 1 .. Len(orgs) /\ slug = orgs[q] /\ text = "pack"
        <5>1. q = o
          BY <3>5, <4>4 DEF WholeInv, SlugsUnique
        <5>2. QED
          BY <1>1, <3>2, <3>5, <4>1, <4>4, <5>1 DEF Whole
      <4>5. slug # Unprefixed
        BY <3>5 DEF WholeInv, SlugsUnique
      <4>6. QED
        BY <2>2, <4>2, <4>3, <4>4, <4>5 DEF OneStore
    <3>6. QED
      BY <3>4, <3>5
  <2>3. QED
    BY <2>1, <2>2 DEF DocsMove
<1>4. QED
  BY <1>2, <1>3 DEF Whole

LEMMA DocsStayTrue ==
  ASSUME IInv, WholeInv, OrgsStay, DocsMove
  PROVE  DocsTrue'
<1>1. ASSUME NEW r \in docs'
      PROVE  \/ Hand(r.slug, r.doc, r.org) \in ingested'
             \/ r.slug = Unprefixed
             \/ r.slug = orgs'[r.org] /\ r.text = "pack"
  <2>1. CASE r \in docs
    <3>1. r.org \in 1 .. Len(orgs)
      BY <2>1 DEF IInv, DocsOK
    <3>2. QED
      BY <2>1, <3>1 DEF WholeInv, DocsTrue, OrgsStay, DocsMove
  <2>2. CASE r \notin docs
    <3>1. PICK slug \in SlugOf, e \in Doc, q \in Nat, text \in {"pack", "own"} :
            OneStore(slug, e, q, text)
      BY <2>2, <1>1 DEF DocsMove
    <3>2. r = Row(slug, e, q, text)
      BY <1>1, <2>2, <3>1, StoredReplaces DEF OneStore
    <3>3. r.slug = slug /\ r.doc = e /\ r.org = q /\ r.text = text
      BY <3>2 DEF Row
    <3>4. QED
      BY <3>1, <3>3 DEF OneStore, OrgsStay
  <2>3. QED
    BY <2>1, <2>2
<1>2. QED
  BY <1>1 DEF DocsTrue, Hand

\* Who waits where he was has come as far as before.
LEMMA OthersProgress ==
  ASSUME IInv, WholeInv, OrgsStay, DocsMove, NEW q \in Proc,
         pc'[q] = pc[q], job'[q] = job[q]
  PROVE  Progress(q)'
<1>1. pc[q] \in {"stamp", "store", "customers", "admin"} => job[q].org \in 1 .. Len(orgs)
  BY DEF IInv, ProcsOK, JobOK
<1>2. Progress(q)
  BY DEF WholeInv
<1>3. pc[q] \in {"stamp", "store"} => \A d \in Doc \ job[q].docs : Whole(job[q].org, d)'
  BY <1>1, <1>2, WholeStays DEF Progress
<1>4. pc[q] \in {"customers", "admin"} => \A d \in Doc : Whole(job[q].org, d)'
  BY <1>1, <1>2, WholeStays DEF Progress
<1>5. pc[q] = "admin" => customers'[job[q].org] = DemoCustomers
  BY <1>1, <1>2 DEF Progress, OrgsStay
<1>6. pc[q] = "store" =>
        \E d \in Doc : job[q].row = Row(orgs'[job[q].org], d, job[q].org, "pack")
  BY <1>1, <1>2 DEF Progress, OrgsStay
<1>7. QED
  BY <1>2, <1>3, <1>4, <1>5, <1>6 DEF Progress, Whole, Row

\* The orgs that were answered before stay whole.
LEMMA AnsweredStays ==
  ASSUME IInv, WholeInv, OrgsStay, DocsMove, UNCHANGED answered
  PROVE  AnsweredOrgIsWhole'
<1>1. ASSUME NEW a \in answered
      PROVE  customers'[a[1]] = DemoCustomers /\ \A d \in Doc : Whole(a[1], d)'
  <2>1. a[1] \in 1 .. Len(orgs)
    BY DEF IInv, UsersOK
  <2>2. customers[a[1]] = DemoCustomers /\ \A d \in Doc : Whole(a[1], d)
    BY DEF WholeInv, AnsweredOrgIsWhole
  <2>3. QED
    BY <2>1, <2>2, WholeStays DEF OrgsStay
<1>2. QED
  BY <1>1 DEF AnsweredOrgIsWhole, Whole

\* One request moves, or none.
LEMMA OneMoves ==
  ASSUME IInv, WholeInv, OrgsStay, SlugsUnique', DocsMove, UNCHANGED answered,
         NEW p \in Proc, \A q \in Proc \ {p} : pc'[q] = pc[q] /\ job'[q] = job[q],
         Progress(p)'
  PROVE  WholeInv'
BY OthersProgress, DocsStayTrue, AnsweredStays DEF WholeInv

\* A step that no request is part of.
LEMMA NoneMoves ==
  ASSUME IInv, WholeInv, OrgsStay, SlugsUnique', DocsMove, UNCHANGED <<answered, pc, job>>
  PROVE  WholeInv'
<1>1. \A q \in Proc : Progress(q)'
  BY OthersProgress
<1>2. QED
  BY <1>1, DocsStayTrue, AnsweredStays DEF WholeInv

LEMMA OthersWait ==
  ASSUME IInv, NEW p \in Proc, NEW step, NEW j,
         pc' = [pc EXCEPT ![p] = step], job' = [job EXCEPT ![p] = j]
  PROVE  /\ \A q \in Proc \ {p} : pc'[q] = pc[q] /\ job'[q] = job[q]
         /\ pc'[p] = step /\ job'[p] = j
BY DEF IInv, ProcsOK

LEMMA DoneWhole ==
  ASSUME IInv, WholeInv, OrgsStay, SlugsUnique', DocsMove, UNCHANGED answered,
         NEW p \in Proc, Done(p)
  PROVE  WholeInv'
<1>1. /\ \A q \in Proc \ {p} : pc'[q] = pc[q] /\ job'[q] = job[q]
      /\ pc'[p] = "idle"
  BY OthersWait DEF Done, Goto, Keep
<1>2. Progress(p)'
  BY <1>1 DEF Progress
<1>3. QED
  BY <1>1, <1>2, OneMoves

\* ----- the steps ---------------------------------------------------------
LEMMA InitWhole == Init => WholeInv
BY DEF Init, WholeInv, SlugsUnique, DocsTrue, Progress, AnsweredOrgIsWhole

LEMMA SeedRowWhole == ASSUME IInv, WholeInv, SeedRow PROVE WholeInv'
<1> DEFINE r == SeedRows[seed]
<1>1. /\ GoodRow(r) /\ server = "seeding"
      /\ IF r.kind = "org" THEN SeedOrg ELSE UNCHANGED <<orgs, customers, consents>>
      /\ docs' \in IF r.kind = "doc"
                   THEN {docs, Stored(docs, Row(Unprefixed, SeedDocs[r.id], Default, "pack"))}
                   ELSE {docs}
      /\ UNCHANGED <<ingested, answered, pc, job>>
  BY SeedRowsGood DEF SeedRow, IInv, ServerOK
<1>2. OrgsStay /\ SlugsUnique'
  <2>1. CASE r.kind = "org" /\ Len(orgs) = 0
    <3>1. orgs' = <<Slug(DefaultName, 1)>>
      BY <1>1, <2>1 DEF SeedOrg
    <3>2. /\ \A o \in 1 .. Len(orgs') : o = 1 /\ orgs'[o] = <<DefaultName, 1>>
      BY <3>1 DEF Slug
    <3>3. <<DefaultName, 1>> \in (Name \cup {DefaultName}) \X (1 .. MaxSuffix)
      OBVIOUS
    <3>4. QED
      BY <2>1, <3>2, <3>3 DEF OrgsStay, SlugsUnique
  <2>2. CASE ~(r.kind = "org" /\ Len(orgs) = 0)
    <3>1. UNCHANGED <<orgs, customers>>
      BY <1>1, <2>2 DEF SeedOrg
    <3>2. QED
      BY <3>1, OrgsUnchanged
  <2>3. QED
    BY <2>1, <2>2
<1>3. DocsMove
  <2>1. CASE r.kind = "doc"
    <3>1. SeedDocs[r.id] \in Doc
      BY <1>1, <2>1 DEF GoodRow
    <3>2. UNCHANGED docs \/ OneStore(Unprefixed, SeedDocs[r.id], 1, "pack")
      BY <1>1, <2>1 DEF OneStore, Default
    <3>3. Unprefixed \in SlugOf
      BY DEF SlugOf
    <3>4. QED
      BY <1>1, <3>1, <3>2, <3>3 DEF DocsMove
  <2>2. CASE r.kind # "doc"
    BY <1>1, <2>2 DEF DocsMove
  <2>3. QED
    BY <2>1, <2>2
<1>4. QED
  BY <1>1, <1>2, <1>3, NoneMoves

LEMMA GoDownWhole == ASSUME IInv, WholeInv, GoDown PROVE WholeInv'
<1>1. /\ UNCHANGED <<orgs, customers, docs, ingested, answered>>
      /\ \A p \in Proc : pc'[p] = "idle"
  BY DEF GoDown
<1>2. OrgsStay /\ SlugsUnique' /\ DocsMove
  BY <1>1, OrgsUnchanged, DocsUnchanged
<1>3. \A p \in Proc : Progress(p)'
  BY <1>1 DEF Progress
<1>4. QED
  BY <1>1, <1>2, <1>3, DocsStayTrue, AnsweredStays DEF WholeInv

LEMMA StoreIngestedWhole ==
  ASSUME IInv, WholeInv, NEW p \in Proc, StoreIngested(p)
  PROVE  WholeInv'
<1>1. UNCHANGED <<orgs, customers, answered>> /\ Done(p) /\ pc[p] = "ingest"
  BY DEF StoreIngested
<1>2. PICK row \in RowSet : row = job[p].row
  BY <1>1 DEF IInv, ProcsOK, JobOK
<1>3. /\ docs' = Stored(docs, row)
      /\ ingested' = ingested \cup {Hand(row.slug, row.doc, row.org)}
  BY <1>2 DEF StoreIngested
<1>4. row = Row(row.slug, row.doc, row.org, row.text)
  BY DEF RowSet, Row
<1>5. OneStore(row.slug, row.doc, row.org, row.text)
  BY <1>3, <1>4 DEF OneStore
<1>6. row.slug \in SlugOf /\ row.doc \in Doc /\ row.org \in Nat /\ row.text \in {"pack", "own"}
  BY DEF RowSet
<1>7. DocsMove
  BY <1>3, <1>5, <1>6 DEF DocsMove
<1>8. QED
  BY <1>1, <1>7, OrgsUnchanged, DoneWhole

LEMMA StartOrgWhole == ASSUME IInv, WholeInv, NEW p \in Proc, StartOrg(p) PROVE WholeInv'
<1>1. PICK name \in Name, u \in Username :
        job' = [job EXCEPT ![p] = Job(u, name, Default, None)]
  BY DEF StartOrg, Keep
<1>2. UNCHANGED <<orgs, customers, docs, ingested, answered>> /\ pc' = [pc EXCEPT ![p] = "slug"]
  BY DEF StartOrg, Goto, Rows
<1>3. /\ \A q \in Proc \ {p} : pc'[q] = pc[q] /\ job'[q] = job[q]
      /\ pc'[p] = "slug" /\ job'[p] = Job(u, name, Default, None)
  BY <1>1, <1>2, OthersWait
<1>4. Progress(p)'
  BY <1>3 DEF Progress, Job
<1>5. QED
  BY <1>2, <1>3, <1>4, OrgsUnchanged, DocsUnchanged, OneMoves

LEMMA TrySlugWhole == ASSUME IInv, WholeInv, NEW p \in Proc, TrySlug(p) PROVE WholeInv'
<1> DEFINE j == job[p]
<1>1. /\ pc[p] = "slug" /\ UNCHANGED <<orgs, customers, docs, ingested, answered>>
      /\ j \in JobSet /\ j.docs = Doc
  BY DEF TrySlug, Rows, IInv, ProcsOK, WholeInv, Progress
<1>2. OrgsStay /\ SlugsUnique' /\ DocsMove
  BY <1>1, OrgsUnchanged, DocsUnchanged
<1>3. CASE Goto(p, "org") /\ UNCHANGED job
  <2>1. pc' = [pc EXCEPT ![p] = "org"] /\ job' = [job EXCEPT ![p] = j]
    BY <1>3 DEF Goto, IInv, ProcsOK
  <2>2. /\ \A q \in Proc \ {p} : pc'[q] = pc[q] /\ job'[q] = job[q]
        /\ pc'[p] = "org" /\ job'[p] = j
    BY <2>1, OthersWait
  <2>3. Progress(p)'
    BY <1>1, <2>2 DEF Progress
  <2>4. QED
    BY <1>1, <1>2, <2>2, <2>3, OneMoves
<1>4. CASE Keep(p, [j EXCEPT !.n = j.n + 1]) /\ UNCHANGED pc
  <2>1. pc' = [pc EXCEPT ![p] = "slug"] /\ job' = [job EXCEPT ![p] = [j EXCEPT !.n = j.n + 1]]
    BY <1>1, <1>4 DEF Keep, IInv, ProcsOK
  <2>2. /\ \A q \in Proc \ {p} : pc'[q] = pc[q] /\ job'[q] = job[q]
        /\ pc'[p] = "slug" /\ job'[p] = [j EXCEPT !.n = j.n + 1]
    BY <2>1, OthersWait
  <2>3. job'[p].docs = Doc
    BY <1>1, <2>2 DEF JobSet
  <2>4. Progress(p)'
    BY <2>2, <2>3 DEF Progress
  <2>5. QED
    BY <1>1, <1>2, <2>2, <2>4, OneMoves
<1>5. CASE Done(p)
  BY <1>1, <1>2, <1>5, DoneWhole
<1>6. QED
  BY <1>3, <1>4, <1>5 DEF TrySlug

\* UNIQUE on the slug is what keeps two orgs from stamping over each other.
LEMMA InsertOrgWhole == ASSUME IInv, WholeInv, NEW p \in Proc, InsertOrg(p) PROVE WholeInv'
<1> DEFINE j == job[p]
           slug == Slug(j.name, j.n)
<1>1. /\ pc[p] = "org" /\ UNCHANGED <<docs, ingested, answered>>
      /\ j \in JobSet /\ j.docs = Doc /\ j.name \in Name /\ j.n \in 1 .. MaxSuffix
  BY DEF InsertOrg, IInv, ProcsOK, JobOK, WholeInv, Progress
<1>2. /\ orgs \in Seq(SlugOf) /\ customers \in Seq(0 .. DemoCustomers)
      /\ Len(orgs) \in Nat /\ Len(customers) = Len(orgs)
  BY DEF IInv, OrgsOK
<1>3. CASE SlugFree(slug)
  <2>1. /\ orgs' = Append(orgs, slug) /\ customers' = Append(customers, 0)
        /\ job' = [job EXCEPT ![p] = [j EXCEPT !.org = Len(orgs) + 1]]
        /\ pc' = [pc EXCEPT ![p] = "stamp"]
    BY <1>3 DEF InsertOrg, Keep, Goto
  <2>2. slug \in SlugOf /\ slug \in (Name \cup {DefaultName}) \X (1 .. MaxSuffix)
    BY <1>1 DEF SlugOf, Slug
  <2>3. \A o \in 1 .. Len(orgs) : orgs[o] # slug
    BY <1>3 DEF SlugFree, SlugExists
  <2> HIDE DEF slug
  <2>4. /\ Len(orgs') = Len(orgs) + 1 /\ orgs'[Len(orgs) + 1] = slug
        /\ \A o \in 1 .. Len(orgs) : orgs'[o] = orgs[o] /\ customers'[o] = customers[o]
    BY <1>2, <2>1, <2>2
  <2>5. \A o \in 1 .. Len(orgs') : o \in 1 .. Len(orgs) \/ o = Len(orgs) + 1
    BY <1>2, <2>4
  <2>6. SlugsUnique'
    <3>1. \A o \in 1 .. Len(orgs') : orgs'[o] \in (Name \cup {DefaultName}) \X (1 .. MaxSuffix)
      BY <2>2, <2>4, <2>5 DEF WholeInv, SlugsUnique
    <3>2. \A o1, o2 \in 1 .. Len(orgs') : orgs'[o1] = orgs'[o2] => o1 = o2
      BY <2>3, <2>4, <2>5 DEF WholeInv, SlugsUnique
    <3>3. QED
      BY <3>1, <3>2 DEF SlugsUnique
  <2>7. OrgsStay
    BY <2>4 DEF OrgsStay
  <2>8. /\ \A q \in Proc \ {p} : pc'[q] = pc[q] /\ job'[q] = job[q]
        /\ pc'[p] = "stamp" /\ job'[p] = [j EXCEPT !.org = Len(orgs) + 1]
    BY <2>1, OthersWait
  <2>9. job'[p].docs = Doc
    BY <1>1, <2>8 DEF JobSet
  <2>10. Progress(p)'
    BY <2>8, <2>9 DEF Progress
  <2>11. QED
    BY <1>1, <2>6, <2>7, <2>8, <2>10, DocsUnchanged, OneMoves
<1>4. CASE ~SlugFree(slug)
  <2>1. Done(p) /\ UNCHANGED <<orgs, customers>>
    BY <1>4 DEF InsertOrg
  <2>2. QED
    BY <1>1, <2>1, OrgsUnchanged, DocsUnchanged, DoneWhole
<1>5. QED
  BY <1>3, <1>4

\* A document is dealt with: what it needs is that it is there now.
LEMMA StampedWhole ==
  ASSUME IInv, WholeInv, NEW p \in Proc, pc[p] \in {"stamp", "store"}, NEW d \in Doc, Stamped(p, d),
         OrgsStay, SlugsUnique', DocsMove, UNCHANGED answered,
         NEW o \in 1 .. Len(orgs), o = job[p].org, Whole(o, d)'
  PROVE  WholeInv'
<1>1. PICK j \in JobSet : j = job[p] /\ o = j.org
  BY DEF IInv, ProcsOK
<1>2. \A e \in Doc \ j.docs : Whole(o, e)
  BY <1>1 DEF WholeInv, Progress
<1>3. ASSUME NEW e \in Doc, e \notin j.docs \/ e = d
      PROVE  Whole(o, e)'
  <2>1. CASE e = d
    BY <2>1
  <2>2. CASE e \notin j.docs
    BY <1>2, <2>2, WholeStays
  <2>3. QED
    BY <1>3, <2>1, <2>2
<1>4. /\ pc' = [pc EXCEPT ![p] = IF j.docs = {d} THEN "customers" ELSE "stamp"]
      /\ job' = [job EXCEPT ![p] = [j EXCEPT !.docs = j.docs \ {d}, !.row = None]]
  BY <1>1 DEF Stamped, Keep, Goto
<1>5. /\ \A q \in Proc \ {p} : pc'[q] = pc[q] /\ job'[q] = job[q]
      /\ pc'[p] = (IF j.docs = {d} THEN "customers" ELSE "stamp")
      /\ job'[p] = [j EXCEPT !.docs = j.docs \ {d}, !.row = None]
  BY <1>4 DEF IInv, ProcsOK
<1>6. job'[p].docs = j.docs \ {d} /\ job'[p].org = o
  BY <1>1, <1>5 DEF JobSet
<1>7. Progress(p)'
  <2>1. pc'[p] = "stamp" => \A e \in Doc \ job'[p].docs : Whole(o, e)'
    BY <1>3, <1>6
  <2>2. pc'[p] = "customers" => \A e \in Doc : Whole(o, e)'
    BY <1>3, <1>5
  <2>3. pc'[p] \in {"stamp", "customers"}
    BY <1>5
  <2>4. QED
    BY <1>6, <2>1, <2>2, <2>3 DEF Progress, Whole
<1>8. QED
  BY <1>5, <1>7, OneMoves

LEMMA StampWhole == ASSUME IInv, WholeInv, NEW p \in Proc, Stamp(p) PROVE WholeInv'
<1>1. PICK j \in JobSet, o \in 1 .. Len(orgs) : j = job[p] /\ o = j.org
  BY DEF Stamp, IInv, ProcsOK, JobOK
<1>2. UNCHANGED <<orgs, customers, docs, ingested, answered>> /\ pc[p] = "stamp"
  BY DEF Stamp, Rows
<1>3. OrgsStay /\ SlugsUnique' /\ DocsMove
  BY <1>2, OrgsUnchanged, DocsUnchanged
\* A row of the same id and text is the org's own, or another org stored it by hand.
<1>4. ASSUME NEW d \in j.docs, SameChecksum(docs, Row(orgs[o], d, o, "pack")), Stamped(p, d)
      PROVE  WholeInv'
  <2>1. d \in Doc
    BY DEF JobSet
  <2>2. PICK r \in docs : r.slug = orgs[o] /\ r.doc = d /\ r.text = "pack"
    BY <1>4 DEF SameChecksum, SameId, Row
  <2>3. Whole(o, d)
    <3>1. CASE r.org = o
      BY <2>2, <3>1 DEF Whole
    <3>2. CASE r.org # o
      <4>1. orgs[o] # Unprefixed
        BY DEF WholeInv, SlugsUnique
      <4>2. r.org \in 1 .. Len(orgs)
        BY DEF IInv, DocsOK
      <4>3. ~(r.slug = orgs[r.org])
        BY <2>2, <3>2, <4>2 DEF WholeInv, SlugsUnique
      <4>4. Hand(r.slug, r.doc, r.org) \in ingested
        BY <2>2, <4>1, <4>3 DEF WholeInv, DocsTrue
      <4>5. PICK i \in ingested : i = Hand(r.slug, r.doc, r.org)
        BY <4>4
      <4>6. i.slug = orgs[o] /\ i.doc = d /\ i.org # o
        BY <2>2, <3>2, <4>5 DEF Hand
      <4>7. QED
        BY <4>6 DEF Whole
    <3>3. QED
      BY <3>1, <3>2
  <2>4. Whole(o, d)'
    BY <1>3, <2>1, <2>3, WholeStays
  <2>5. QED
    BY <1>1, <1>2, <1>3, <1>4, <2>1, <2>4, StampedWhole
<1>5. ASSUME NEW d \in j.docs, Keep(p, [j EXCEPT !.row = Row(orgs[o], d, o, "pack")]), Goto(p, "store")
      PROVE  WholeInv'
  <2>1. PICK row : row = Row(orgs[o], d, o, "pack")
    OBVIOUS
  <2>2. pc' = [pc EXCEPT ![p] = "store"] /\ job' = [job EXCEPT ![p] = [j EXCEPT !.row = row]]
    BY <1>5, <2>1 DEF Keep, Goto
  <2>3. /\ \A q \in Proc \ {p} : pc'[q] = pc[q] /\ job'[q] = job[q]
        /\ pc'[p] = "store" /\ job'[p] = [j EXCEPT !.row = row]
    BY <2>2, OthersWait
  <2>4. job'[p].docs = j.docs /\ job'[p].org = o /\ job'[p].row = row
    BY <1>1, <2>3 DEF JobSet
  <2>5. \A e \in Doc \ j.docs : Whole(o, e)'
    BY <1>1, <1>2, <1>3, WholeStays DEF WholeInv, Progress
  <2>6. d \in Doc /\ orgs'[o] = orgs[o]
    BY <1>2 DEF JobSet
  <2>7. Progress(p)'
    BY <2>1, <2>3, <2>4, <2>5, <2>6 DEF Progress, Whole, Row
  <2>8. QED
    BY <1>2, <1>3, <2>3, <2>7, OneMoves
<1>6. QED
  BY <1>1, <1>4, <1>5 DEF Stamp

LEMMA StoreStampedWhole ==
  ASSUME IInv, WholeInv, NEW p \in Proc, StoreStamped(p)
  PROVE  WholeInv'
<1>1. PICK j \in JobSet, o \in 1 .. Len(orgs) : j = job[p] /\ o = j.org
  BY DEF StoreStamped, IInv, ProcsOK, JobOK
<1>2. /\ UNCHANGED <<orgs, customers, ingested, answered>> /\ pc[p] = "store"
      /\ orgs[o] \in SlugOf /\ o \in Nat
  BY DEF StoreStamped, IInv, OrgsOK
<1>3. PICK d \in Doc : j.row = Row(orgs[o], d, o, "pack")
  BY <1>1, <1>2 DEF WholeInv, Progress
<1>4. PICK row : row = j.row /\ row.slug = orgs[o] /\ row.doc = d /\ row.org = o /\ row.text = "pack"
  BY <1>3 DEF Row
<1>5. docs' = Stored(docs, row) /\ Stamped(p, d)
  BY <1>1, <1>4 DEF StoreStamped
<1>6. OneStore(orgs[o], d, o, "pack")
  BY <1>3, <1>4, <1>5 DEF OneStore
<1>7. DocsMove
  BY <1>2, <1>6 DEF DocsMove
<1>8. OrgsStay /\ SlugsUnique'
  BY <1>2, OrgsUnchanged
<1>9. Whole(o, d)'
  BY <1>2, <1>4, <1>5, StoredReplaces DEF Whole
<1>10. QED
  BY <1>1, <1>2, <1>5, <1>7, <1>8, <1>9, StampedWhole

LEMMA InsertCustomerWhole ==
  ASSUME IInv, WholeInv, NEW p \in Proc, InsertCustomer(p)
  PROVE  WholeInv'
<1> DEFINE o == job[p].org
<1>1. /\ UNCHANGED <<orgs, docs, ingested, answered, job>> /\ pc[p] = "customers"
      /\ o \in 1 .. Len(orgs) /\ customers \in Seq(0 .. DemoCustomers) /\ Len(customers) = Len(orgs)
      /\ \A d \in Doc : Whole(o, d)
  BY DEF InsertCustomer, IInv, ProcsOK, JobOK, OrgsOK, WholeInv, Progress
<1>2. job' = [job EXCEPT ![p] = job[p]]
  BY <1>1 DEF IInv, ProcsOK
<1>3. CASE customers[o] < DemoCustomers /\ customers' = [customers EXCEPT ![o] = @ + 1]
           /\ UNCHANGED pc
  <2>1. \A q \in 1 .. Len(orgs) : q # o => customers'[q] = customers[q]
    BY <1>1, <1>3
  <2>2. customers[o] # DemoCustomers
    BY <1>1, <1>3
  <2>3. OrgsStay
    BY <1>1, <2>1, <2>2 DEF OrgsStay
  <2>4. SlugsUnique'
    BY <1>1 DEF WholeInv, SlugsUnique
  <2>5. QED
    BY <1>1, <1>3, <2>3, <2>4, DocsUnchanged, NoneMoves
<1>4. CASE customers[o] = DemoCustomers /\ Goto(p, "admin") /\ UNCHANGED customers
  <2>1. /\ \A q \in Proc \ {p} : pc'[q] = pc[q] /\ job'[q] = job[q]
        /\ pc'[p] = "admin" /\ job'[p] = job[p]
    BY <1>2, <1>4, OthersWait DEF Goto
  <2>2. OrgsStay /\ SlugsUnique' /\ DocsMove
    BY <1>1, <1>4, OrgsUnchanged, DocsUnchanged
  <2>3. \A d \in Doc : Whole(o, d)'
    BY <1>1 DEF Whole
  <2>4. Progress(p)'
    BY <1>4, <2>1, <2>3 DEF Progress, Whole
  <2>5. QED
    BY <1>1, <2>1, <2>2, <2>4, OneMoves
<1>5. QED
  BY <1>3, <1>4 DEF InsertCustomer

\* What is answered has come through every stage before it.
LEMMA InsertAdminWhole == ASSUME IInv, WholeInv, NEW p \in Proc, InsertAdmin(p) PROVE WholeInv'
<1> DEFINE j == job[p]
<1>1. /\ UNCHANGED <<orgs, customers, docs, ingested>> /\ Done(p)
      /\ \A d \in Doc : Whole(j.org, d)
      /\ customers[j.org] = DemoCustomers
      /\ answered' \in {answered, answered \cup {<<j.org, j.user>>}}
  BY DEF InsertAdmin, WholeInv, Progress
<1>2. CASE UNCHANGED answered
  BY <1>1, <1>2, OrgsUnchanged, DocsUnchanged, DoneWhole
<1>3. CASE answered' = answered \cup {<<j.org, j.user>>}
  <2>1. AnsweredOrgIsWhole'
    BY <1>1, <1>3 DEF WholeInv, AnsweredOrgIsWhole, Whole
  <2>2. OrgsStay /\ SlugsUnique' /\ DocsMove
    BY <1>1, OrgsUnchanged, DocsUnchanged
  <2>3. /\ \A q \in Proc \ {p} : pc'[q] = pc[q] /\ job'[q] = job[q]
        /\ pc'[p] = "idle"
    BY <1>1, OthersWait DEF Done, Goto, Keep
  <2>4. Progress(p)'
    BY <2>3 DEF Progress
  <2>5. QED
    BY <2>1, <2>2, <2>3, <2>4, OthersProgress, DocsStayTrue DEF WholeInv
<1>4. QED
  BY <1>1, <1>2, <1>3

\* The requests that neither create an org nor write its rows.
LEMMA OtherRequestsWhole ==
  ASSUME IInv, WholeInv, NEW p \in Proc,
         StartInvite(p) \/ InsertInvited(p) \/ StartIngest(p) \/ StartView(p) \/ View(p) \/ Fail(p)
  PROVE  WholeInv'
<1>1. UNCHANGED <<orgs, customers, docs, ingested, answered>>
  BY DEF StartInvite, InsertInvited, StartIngest, StartView, View, Fail, Rows
<1>2. \E step \in {"idle", "invite", "ingest", "view"} :
        pc' = [pc EXCEPT ![p] = step] /\ \E j : job' = [job EXCEPT ![p] = j]
  BY DEF StartInvite, InsertInvited, StartIngest, StartView, View, Fail, Done, Goto, Keep
<1>3. PICK step \in {"idle", "invite", "ingest", "view"} :
        pc' = [pc EXCEPT ![p] = step] /\ \E j : job' = [job EXCEPT ![p] = j]
  BY <1>2
<1> PICK j : job' = [job EXCEPT ![p] = j]
  BY <1>3
<1>4. /\ \A q \in Proc \ {p} : pc'[q] = pc[q] /\ job'[q] = job[q]
      /\ pc'[p] = step
  BY <1>3, OthersWait
<1>5. Progress(p)'
  BY <1>4 DEF Progress
<1>6. QED
  BY <1>1, <1>4, <1>5, OrgsUnchanged, DocsUnchanged, OneMoves

LEMMA WholeStep == IInv /\ WholeInv /\ [Next]_vars => WholeInv'
<1> SUFFICES ASSUME IInv, WholeInv, [Next]_vars PROVE WholeInv'
  OBVIOUS
<1>1. CASE SeedRow \/ GoDown
  BY <1>1, SeedRowWhole, GoDownWhole
<1>2. CASE Boot \/ Consent \/ (\E t \in 1 .. SeedTickets : Work(t)) \/ UNCHANGED vars
  <2>1. UNCHANGED <<orgs, customers, docs, ingested, answered, pc, job>>
    BY <1>2 DEF Boot, Consent, Work, vars
  <2>2. QED
    BY <2>1, OrgsUnchanged, DocsUnchanged, NoneMoves
<1>3. ASSUME NEW p \in Proc, StartOrg(p) \/ CreateOrg(p) PROVE WholeInv'
  BY <1>3, StartOrgWhole, TrySlugWhole, InsertOrgWhole, StampWhole, StoreStampedWhole,
     InsertCustomerWhole, InsertAdminWhole DEF CreateOrg
<1>4. ASSUME NEW p \in Proc,
             StartInvite(p) \/ InsertInvited(p) \/ StartIngest(p) \/ StartView(p) \/ View(p) \/ Fail(p)
      PROVE  WholeInv'
  BY <1>4, OtherRequestsWhole
<1>5. ASSUME NEW p \in Proc, StoreIngested(p) PROVE WholeInv'
  BY <1>5, StoreIngestedWhole
<1>6. QED
  BY <1>1, <1>2, <1>3, <1>4, <1>5 DEF Next

\* An org that was reported as created has its customers and its whole policy
\* pack, save a document another org's admin stored by hand under its id,
\* whatever raced with it, failed or went down, for any pack and any number of
\* creations at a time (createOrg, stampPolicyPack, orgs_slug_unique).
THEOREM CreatedWhole == Spec => []AnsweredOrgIsWhole
<1>1. WholeInv => AnsweredOrgIsWhole
  BY DEF WholeInv
<1>2. QED
  BY <1>1, InitIInv, StepKeeps, InitWhole, WholeStep, PTL DEF Spec
=============================================================================
