----------------------------- MODULE MagicLinks -----------------------------
(***************************************************************************)
(* How a customer gets a portal session: by naming an order or a ticket of *)
(* his own (POST /customer-auth/verify), or by a link that is mailed to    *)
(* him and works once, for a while (POST /customer-auth/magic-link/request *)
(* and /consume; customerMagicLinksRepo, tokens).                          *)
(*                                                                         *)
(* One step is one query with the synchronous code after it.  Lookups of   *)
(* orgs, customers, orders and tickets read rows that nothing here         *)
(* changes, so they belong to the step that uses them.                     *)
(***************************************************************************)
EXTENDS Integers, Sequences, FiniteSets

CONSTANTS
  Customer, Org, Email, Order, Ticket,
  HomeOf,     \* HomeOf[c]: the org of customer c
  MailOf,     \* MailOf[c]: the address of customer c
  BuyerOf,    \* BuyerOf[o]: the customer of order o
  OpenedBy,   \* OpenedBy[t]: the customer of ticket t
  Proc,       \* requests in flight
  None,       \* no ticket, no link
  Ttl,        \* how long a link is valid
  Drift,      \* how far the server's clock is ahead of the database's
  Window,     \* how far back the abuse guard looks
  Threshold,  \* how many links it lets pass
  MaxTime,    \* bound: the clock stops here
  MaxLinks,   \* bound: no request starts beyond so many links
  MaxSessions \* bound: nor beyond so many sessions

ASSUME RowsAssumption ==
  /\ HomeOf \in [Customer -> Org] /\ MailOf \in [Customer -> Email]
  /\ BuyerOf \in [Order -> Customer] /\ OpenedBy \in [Ticket -> Customer]
  /\ None \notin Ticket
ASSUME NumbersAssumption ==
  /\ Ttl \in Nat \ {0} /\ Window \in Nat \ {0} /\ Threshold \in Nat \ {0}
  /\ Drift \in Int
  /\ MaxTime \in Nat /\ MaxLinks \in Nat /\ MaxSessions \in Nat
ASSUME ProcAssumption == IsFiniteSet(Proc)

VARIABLES
  now,      \* the database's clock
  links,    \* the customer_magic_links rows in the order of their insertion
  mailed,   \* the links whose mail went out
  sessions, \* the customer tokens that were signed, oldest first
  pc,       \* pc[p]: the query request p issues next
  job       \* job[p]: its local variables

vars == <<now, links, mailed, sessions, pc, job>>

\* Of a request in flight: for whom, with which ticket, which link.
NoJob == [customer |-> None, ticket |-> None, link |-> 0]

Goto(p, step) == pc' = [pc EXCEPT ![p] = step]
Done(p) == Goto(p, "idle") /\ job' = [job EXCEPT ![p] = NoJob]

\* getCustomerByEmail, inside the org of the slug.
Found(org, email) == {c \in Customer : HomeOf[c] = org /\ MailOf[c] = email}

Session(c, org, t, l) == [customer |-> c, org |-> org, ticket |-> t, link |-> l]

\* ----- POST /verify ------------------------------------------------------
\* The identifier must be the customer's; only a ticket goes into the token.
\* Mutant: any ticket will do.
VerifyMutant(p) ==
  /\ pc[p] = "idle" /\ Len(sessions) < MaxSessions
  /\ \E org \in Org, email \in Email : \E c \in Found(org, email) :
       \/ \E o \in Order : BuyerOf[o] = c /\ sessions' = Append(sessions, Session(c, org, None, 0))
       \/ \E t \in Ticket : sessions' = Append(sessions, Session(c, org, t, 0))
  /\ UNCHANGED <<now, links, mailed, pc, job>>

Verify(p) ==
  /\ pc[p] = "idle" /\ Len(sessions) < MaxSessions
  /\ \E org \in Org, email \in Email : \E c \in Found(org, email) :
       \/ \E o \in Order :
            /\ BuyerOf[o] = c
            /\ sessions' = Append(sessions, Session(c, org, None, 0))
       \/ \E t \in Ticket :
            /\ OpenedBy[t] = c
            /\ sessions' = Append(sessions, Session(c, org, t, 0))
  /\ UNCHANGED <<now, links, mailed, pc, job>>

\* ----- POST /magic-link/request ------------------------------------------
\* The ticket is kept if it is his, and dropped in silence if it is not.
OwnTicket(t, c) == IF t # None /\ OpenedBy[t] = c THEN t ELSE None

\* Whoever is not found is answered like everybody else, and nothing happens.
AskForLink(p) ==
  /\ pc[p] = "idle" /\ Len(links) < MaxLinks
  /\ \E org \in Org, email \in Email, t \in Ticket \cup {None} : \E c \in Found(org, email) :
       job' = [job EXCEPT ![p] = [NoJob EXCEPT !.customer = c, !.ticket = OwnTicket(t, c)]]
  /\ Goto(p, "count")
  /\ UNCHANGED <<now, links, mailed, sessions>>

\* Mutant: as the route's comment has it, only links that can still be used.
RecentMutant(c) ==
  {l \in 1 .. Len(links) :
     links[l].customer = c /\ ~links[l].consumed /\ links[l].expires > now}

\* countRecentLinksForCustomer: used and expired ones count as well.
Recent(c) ==
  {l \in 1 .. Len(links) : links[l].customer = c /\ links[l].created + Window > now}

Count(p) ==
  /\ pc[p] = "count"
  /\ IF Cardinality(Recent(job[p].customer)) < Threshold
     THEN Goto(p, "insert") /\ UNCHANGED job
     ELSE Done(p)
  /\ UNCHANGED <<now, links, mailed, sessions>>

\* insertMagicLink: created by the database's clock, expiring by the server's.
Insert(p) ==
  /\ pc[p] = "insert"
  /\ LET c == job[p].customer
     IN links' = Append(links, [customer |-> c, org |-> HomeOf[c], ticket |-> job[p].ticket,
                  created |-> now, expires |-> now + Drift + Ttl, consumed |-> FALSE])
  /\ job' = [job EXCEPT ![p].link = Len(links) + 1]
  /\ Goto(p, "send")
  /\ UNCHANGED <<now, mailed, sessions>>

\* The mail goes to the address that was asked for; a failing send is swallowed.
Send(p) ==
  /\ pc[p] = "send"
  /\ mailed' \in {mailed, mailed \cup {job[p].link}}
  /\ Done(p)
  /\ UNCHANGED <<now, links, sessions>>

\* ----- POST /magic-link/consume ------------------------------------------
\* findValidMagicLinkByTokenHash.  Whoever has the token has read the mail.
FindLink(p) ==
  /\ pc[p] = "idle" /\ Len(sessions) < MaxSessions
  /\ \E l \in mailed :
       /\ ~links[l].consumed /\ links[l].expires > now
       /\ job' = [job EXCEPT ![p] = [NoJob EXCEPT !.link = l]]
  /\ Goto(p, "mark")
  /\ UNCHANGED <<now, links, mailed, sessions>>

\* Mutant: an UPDATE without AND consumed_at IS NULL.
WinsMutant(p) == TRUE
Wins(p) == ~links[job[p].link].consumed

\* markMagicLinkConsumed: the loser of a race is refused.
Mark(p) ==
  /\ pc[p] = "mark"
  /\ \/ /\ Wins(p)
        /\ links' = [links EXCEPT ![job[p].link].consumed = TRUE]
        /\ Goto(p, "sign") /\ UNCHANGED job
     \/ ~Wins(p) /\ Done(p) /\ UNCHANGED links
  /\ UNCHANGED <<now, mailed, sessions>>

\* signCustomerToken.
Sign(p) ==
  /\ pc[p] = "sign"
  /\ LET l == job[p].link
     IN sessions' = Append(sessions,
          Session(links[l].customer, links[l].org, links[l].ticket, l))
  /\ Done(p)
  /\ UNCHANGED <<now, links, mailed>>

\* A query throws, or the server goes down: what was stored stays, a link that
\* was marked is used up without a session.
Fail(p) ==
  /\ pc[p] # "idle"
  /\ Done(p)
  /\ UNCHANGED <<now, links, mailed, sessions>>

Tick ==
  /\ now < MaxTime
  /\ now' = now + 1
  /\ UNCHANGED <<links, mailed, sessions, pc, job>>

Init ==
  /\ now = 0
  /\ links = << >> /\ mailed = {} /\ sessions = << >>
  /\ pc = [p \in Proc |-> "idle"]
  /\ job = [p \in Proc |-> NoJob]

Serve(p) == Count(p) \/ Insert(p) \/ Send(p) \/ Mark(p) \/ Sign(p)
Next ==
  \/ \E p \in Proc : AskForLink(p) \/ FindLink(p) \/ Verify(p) \/ Serve(p) \/ Fail(p)
  \/ Tick

Spec == Init /\ [][Next]_vars

-----------------------------------------------------------------------------
\* ----- properties --------------------------------------------------------
Link == [customer : Customer, org : Org, ticket : Ticket \cup {None},
         created : Nat, expires : Int, consumed : BOOLEAN]

\* Rows, tokens and requests in flight are well formed, and a request works on
\* the customer and the link its next query needs.
TypeOK ==
  /\ now \in Nat
  /\ links \in Seq(Link)
  /\ mailed \subseteq 1 .. Len(links)
  /\ sessions \in Seq([customer : Customer, org : Org, ticket : Ticket \cup {None},
                       link : 0 .. Len(links)])
  /\ pc \in [Proc -> {"idle", "count", "insert", "send", "mark", "sign"}]
  /\ job \in [Proc -> [customer : Customer \cup {None}, ticket : Ticket \cup {None},
                       link : 0 .. Len(links)]]
  /\ \A p \in Proc :
       /\ pc[p] \in {"count", "insert"} => job[p].customer \in Customer
       /\ pc[p] \in {"send", "mark", "sign"} => job[p].link # 0

\* A link opens at most one session, however many requests consume it at once
\* ("the actual single-winner boundary").
SingleUse ==
  \A i, j \in 1 .. Len(sessions) :
    sessions[i].link = sessions[j].link /\ sessions[i].link # 0 => i = j

\* A session never reaches beyond its customer: its org is his org, its ticket,
\* if any, is one of his, and a link of his opened it, if a link did.
SessionIsOwn ==
  \A i \in 1 .. Len(sessions) : LET s == sessions[i] IN
    /\ s.org = HomeOf[s.customer]
    /\ s.ticket # None => OpenedBy[s.ticket] = s.customer
    /\ s.link # 0 => links[s.link].customer = s.customer /\ links[s.link].consumed

IssuedLately(c) ==
  {l \in 1 .. Len(links) : links[l].customer = c /\ now - links[l].created < Window}

\* The abuse guard can be overrun only by requests that counted together: in
\* any window a customer is issued the threshold and at most one more for every
\* other request in flight.
GuardHolds ==
  \A c \in Customer : Cardinality(IssuedLately(c)) <= Threshold + Cardinality(Proc) - 1
=============================================================================
