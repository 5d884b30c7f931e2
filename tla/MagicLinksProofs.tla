-------------------------- MODULE MagicLinksProofs ---------------------------
(***************************************************************************)
(* Proofs about MagicLinks, for any number of customers, links, sessions   *)
(* and requests in flight, any validity and any threshold.                 *)
(***************************************************************************)
EXTENDS MagicLinks, SequenceTheorems, FiniteSetTheorems, TLAPS

SessionSet == [customer : Customer, org : Org, ticket : Ticket \cup {None},
               link : 0 .. Len(links)]
JobSet == [customer : Customer \cup {None}, ticket : Ticket \cup {None},
           link : 0 .. Len(links)]

\* A stored link is its customer's: his org, a ticket of his.
LinksOwn ==
  \A l \in 1 .. Len(links) :
    /\ links[l].org = HomeOf[links[l].customer]
    /\ links[l].ticket # None => OpenedBy[links[l].ticket] = links[l].customer

\* So is the ticket a request for a link carries.
JobsOwn ==
  \A p \in Proc :
    pc[p] \in {"count", "insert"} /\ job[p].ticket # None
      => OpenedBy[job[p].ticket] = job[p].customer

\* A request about to sign has consumed its link, alone, and no session has
\* it yet.
SignsAlone ==
  \A p \in Proc : pc[p] = "sign" =>
    /\ links[job[p].link].consumed
    /\ \A i \in 1 .. Len(sessions) : sessions[i].link # job[p].link
    /\ \A q \in Proc : pc[q] = "sign" /\ job[q].link = job[p].link => q = p

Safe == LinksOwn /\ JobsOwn /\ SignsAlone /\ SingleUse /\ SessionIsOwn
IInv == TypeOK /\ Safe

USE RowsAssumption, NumbersAssumption

LEMMA FoundIsHome ==
  ASSUME NEW org \in Org, NEW email \in Email, NEW c \in Found(org, email)
  PROVE  c \in Customer /\ HomeOf[c] = org
BY DEF Found

\* What the sequences and the jobs hold, element by element.
LEMMA Elements ==
  ASSUME TypeOK
  PROVE  /\ Len(links) \in Nat /\ Len(sessions) \in Nat
         /\ \A l \in 1 .. Len(links) : links[l] \in Link
         /\ \A i \in 1 .. Len(sessions) : sessions[i] \in SessionSet
         /\ \A p \in Proc : job[p] \in JobSet
         /\ links \in [1 .. Len(links) -> Link]
<1>1. links \in Seq(Link) /\ sessions \in Seq(SessionSet) /\ job \in [Proc -> JobSet]
  BY DEF TypeOK, SessionSet, JobSet
<1>2. links \in [1 .. Len(links) -> Link] /\ Len(links) \in Nat
  BY <1>1, LenProperties
<1>3. sessions \in [1 .. Len(sessions) -> SessionSet] /\ Len(sessions) \in Nat
  BY <1>1, LenProperties
<1>4. QED
  BY <1>1, <1>2, <1>3

LEMMA InitIInv == Init => IInv
BY DEF Init, IInv, Safe, TypeOK, LinksOwn, JobsOwn, SignsAlone, SingleUse, SessionIsOwn,
       Link, NoJob

\* Ending a request disturbs nothing.
LEMMA DoneKeeps ==
  ASSUME IInv, NEW p \in Proc, Done(p), UNCHANGED <<now, links, sessions>>,
         mailed' \subseteq 1 .. Len(links)
  PROVE  IInv'
<1>1. TypeOK'
  BY DEF IInv, TypeOK, Done, Goto, NoJob
<1>2. \A q \in Proc : pc'[q] # "idle" => pc'[q] = pc[q] /\ job'[q] = job[q]
  BY DEF IInv, TypeOK, Done, Goto
<1>3. JobsOwn' /\ SignsAlone'
  BY <1>2 DEF IInv, Safe, JobsOwn, SignsAlone
<1>4. QED
  BY <1>1, <1>3 DEF IInv, Safe, LinksOwn, SingleUse, SessionIsOwn

LEMMA AskForLinkKeeps ==
  ASSUME IInv, NEW p \in Proc, AskForLink(p)
  PROVE  IInv'
<1>1. PICK org \in Org, email \in Email, t \in Ticket \cup {None} : \E c \in Found(org, email) :
        job' = [job EXCEPT ![p] = [NoJob EXCEPT !.customer = c, !.ticket = OwnTicket(t, c)]]
  BY DEF AskForLink
<1>2. PICK c \in Found(org, email) :
        job' = [job EXCEPT ![p] = [NoJob EXCEPT !.customer = c, !.ticket = OwnTicket(t, c)]]
  BY <1>1
<1>3. c \in Customer /\ OwnTicket(t, c) \in Ticket \cup {None}
      /\ (OwnTicket(t, c) # None => OpenedBy[OwnTicket(t, c)] = c)
  BY FoundIsHome DEF OwnTicket
<1>4. job'[p] = [customer |-> c, ticket |-> OwnTicket(t, c), link |-> 0]
  BY <1>2 DEF IInv, TypeOK, NoJob
<1>5. pc'[p] = "count" /\ \A q \in Proc \ {p} : pc'[q] = pc[q] /\ job'[q] = job[q]
  BY <1>2 DEF IInv, TypeOK, AskForLink, Goto
<1>6. UNCHANGED <<now, links, mailed, sessions>>
  BY DEF AskForLink
<1>7. [customer |-> c, ticket |-> OwnTicket(t, c), link |-> 0] \in JobSet
  BY <1>3 DEF IInv, TypeOK, JobSet
<1>11. job' \in [Proc -> JobSet]
  BY <1>2, <1>4, <1>5, <1>7 DEF IInv, TypeOK, JobSet
<1>12. pc' \in [Proc -> {"idle", "count", "insert", "send", "mark", "sign"}]
  BY DEF IInv, TypeOK, AskForLink, Goto
<1>8. TypeOK'
  BY <1>3, <1>4, <1>5, <1>6, <1>11, <1>12 DEF IInv, TypeOK, JobSet
<1>9. JobsOwn' /\ SignsAlone'
  BY <1>3, <1>4, <1>5, <1>6 DEF IInv, Safe, JobsOwn, SignsAlone
<1>10. QED
  BY <1>6, <1>8, <1>9 DEF IInv, Safe, LinksOwn, SingleUse, SessionIsOwn

\* A new session that has no link, or one that only its request signs with.
LEMMA SessionKeeps ==
  ASSUME IInv, NEW s \in SessionSet, sessions' = Append(sessions, s), UNCHANGED <<now, links, mailed>>,
         s.org = HomeOf[s.customer],
         s.ticket # None => OpenedBy[s.ticket] = s.customer,
         s.link # 0 => /\ links[s.link].customer = s.customer /\ links[s.link].consumed
                       /\ \A i \in 1 .. Len(sessions) : sessions[i].link # s.link
  PROVE  /\ sessions' \in Seq(SessionSet)
         /\ SingleUse' /\ SessionIsOwn'
         /\ \A i \in 1 .. Len(sessions') :
              sessions'[i] = s \/ (i \in 1 .. Len(sessions) /\ sessions'[i] = sessions[i])
<1>1. sessions \in Seq(SessionSet)
  BY DEF IInv, TypeOK, SessionSet
<1>2. sessions' \in Seq(SessionSet) /\ Len(sessions') = Len(sessions) + 1
  BY <1>1
<1>3. \A i \in 1 .. Len(sessions') :
        \/ i = Len(sessions) + 1 /\ sessions'[i] = s
        \/ i # Len(sessions) + 1 /\ i \in 1 .. Len(sessions) /\ sessions'[i] = sessions[i]
  BY <1>1
<1>4. SingleUse'
  <2> SUFFICES ASSUME NEW i \in 1 .. Len(sessions'), NEW j \in 1 .. Len(sessions'),
                      sessions'[i].link = sessions'[j].link, sessions'[i].link # 0
               PROVE  i = j
    BY DEF SingleUse
  <2>1. CASE i = Len(sessions) + 1 \/ j = Len(sessions) + 1
    BY <2>1, <1>3
  <2>2. CASE i # Len(sessions) + 1 /\ j # Len(sessions) + 1
    BY <2>2, <1>3 DEF IInv, Safe, SingleUse
  <2>3. QED
    BY <2>1, <2>2
<1>5. SessionIsOwn'
  <2> DEFINE Own(x) == /\ x.org = HomeOf[x.customer]
                       /\ x.ticket # None => OpenedBy[x.ticket] = x.customer
                       /\ x.link # 0 => links[x.link].customer = x.customer
                                        /\ links[x.link].consumed
  <2>1. Own(s) /\ \A i \in 1 .. Len(sessions) : Own(sessions[i])
    BY DEF IInv, Safe, SessionIsOwn
  <2>2. \A i \in 1 .. Len(sessions') : Own(sessions'[i])
    BY <2>1, <1>3
  <2>3. QED
    BY <2>2 DEF SessionIsOwn
<1>6. \A i \in 1 .. Len(sessions') :
        sessions'[i] = s \/ (i \in 1 .. Len(sessions) /\ sessions'[i] = sessions[i])
  BY <1>3
<1>7. QED
  BY <1>2, <1>4, <1>5, <1>6

LEMMA VerifyKeeps ==
  ASSUME IInv, NEW p \in Proc, Verify(p)
  PROVE  IInv'
<1>1. PICK org \in Org, email \in Email : \E c \in Found(org, email) :
        \/ \E o \in Order :
             BuyerOf[o] = c /\ sessions' = Append(sessions, Session(c, org, None, 0))
        \/ \E t \in Ticket :
             OpenedBy[t] = c /\ sessions' = Append(sessions, Session(c, org, t, 0))
  BY DEF Verify
<1>2. PICK c \in Found(org, email), t \in Ticket \cup {None} :
        /\ t # None => OpenedBy[t] = c
        /\ sessions' = Append(sessions, Session(c, org, t, 0))
  BY <1>1
<1>3. c \in Customer /\ HomeOf[c] = org
  BY FoundIsHome
<1> DEFINE s == Session(c, org, t, 0)
<1>4. s \in SessionSet /\ s.org = HomeOf[s.customer] /\ s.link = 0
      /\ (s.ticket # None => OpenedBy[s.ticket] = s.customer)
  BY <1>2, <1>3 DEF Session, SessionSet, IInv, TypeOK
<1>5. UNCHANGED <<now, links, mailed, pc, job>> /\ sessions' = Append(sessions, s)
  BY <1>2 DEF Verify
<1> HIDE DEF s
<1>6. /\ sessions' \in Seq(SessionSet) /\ SingleUse' /\ SessionIsOwn'
      /\ \A i \in 1 .. Len(sessions') :
           sessions'[i] = s \/ (i \in 1 .. Len(sessions) /\ sessions'[i] = sessions[i])
  BY <1>4, <1>5, SessionKeeps
<1>7. TypeOK'
  BY <1>5, <1>6 DEF IInv, TypeOK, SessionSet
<1>8. SignsAlone'
  BY <1>4, <1>5, <1>6 DEF IInv, Safe, SignsAlone, TypeOK
<1>9. QED
  BY <1>5, <1>6, <1>7, <1>8 DEF IInv, Safe, LinksOwn, JobsOwn

LEMMA CountKeeps ==
  ASSUME IInv, NEW p \in Proc, Count(p)
  PROVE  IInv'
<1>1. CASE Done(p)
  BY <1>1, DoneKeeps DEF Count, IInv, TypeOK
<1>2. CASE Goto(p, "insert") /\ UNCHANGED job
  <2>1. pc[p] = "count" /\ pc'[p] = "insert" /\ UNCHANGED <<now, links, mailed, sessions, job>>
        /\ \A q \in Proc \ {p} : pc'[q] = pc[q]
    BY <1>2 DEF IInv, TypeOK, Count, Goto
  <2>2. TypeOK'
    BY <1>2, <2>1 DEF IInv, TypeOK, Goto
  <2>3. JobsOwn' /\ SignsAlone'
    BY <2>1 DEF IInv, Safe, JobsOwn, SignsAlone
  <2>4. QED
    BY <2>1, <2>2, <2>3 DEF IInv, Safe, LinksOwn, SingleUse, SessionIsOwn
<1>3. QED
  BY <1>1, <1>2 DEF Count

LEMMA InsertKeeps ==
  ASSUME IInv, NEW p \in Proc, Insert(p)
  PROVE  IInv'
<1> DEFINE c == job[p].customer
           row == [customer |-> c, org |-> HomeOf[c], ticket |-> job[p].ticket,
                   created |-> now, expires |-> now + Drift + Ttl, consumed |-> FALSE]
           n == Len(links) + 1
<1>1. c \in Customer /\ job[p].ticket \in Ticket \cup {None} /\ now \in Nat
      /\ (job[p].ticket # None => OpenedBy[job[p].ticket] = c)
  BY DEF IInv, TypeOK, Safe, JobsOwn, Insert
<1>2. row \in Link
  BY <1>1 DEF Link
<1>3. links' = Append(links, row) /\ job' = [job EXCEPT ![p].link = n]
      /\ pc' = [pc EXCEPT ![p] = "send"] /\ UNCHANGED <<now, mailed, sessions>>
  BY DEF Insert, Goto
<1>4. row.org = HomeOf[row.customer] /\ row.ticket = job[p].ticket /\ row.customer = c
  OBVIOUS
<1> HIDE DEF row
<1>5. /\ links' \in Seq(Link) /\ Len(links') = n /\ n \in Nat \ {0}
      /\ links'[n] = row
      /\ \A l \in 1 .. Len(links) : l \in 1 .. n /\ links'[l] = links[l]
  BY <1>2, <1>3 DEF IInv, TypeOK
<1>6. \A l \in 1 .. n : l \in 1 .. Len(links) \/ l = n
  BY <1>5 DEF IInv, TypeOK
<1>7. pc'[p] = "send" /\ job'[p] = [customer |-> c, ticket |-> job[p].ticket, link |-> n]
      /\ \A q \in Proc \ {p} : pc'[q] = pc[q] /\ job'[q] = job[q]
  <2>1. /\ pc' = [pc EXCEPT ![p] = "send"] /\ job' = [job EXCEPT ![p].link = n]
        /\ pc \in [Proc -> {"idle", "count", "insert", "send", "mark", "sign"}]
        /\ job \in [Proc -> [customer : Customer \cup {None}, ticket : Ticket \cup {None},
                             link : 0 .. Len(links)]]
    BY <1>3 DEF IInv, TypeOK
  <2> HIDE DEF n
  <2>2. job'[p] = [customer |-> c, ticket |-> job[p].ticket, link |-> n]
    BY <2>1
  <2>3. QED
    BY <2>1, <2>2
<1>8. TypeOK'
  <2>1. sessions' \in Seq([customer : Customer, org : Org, ticket : Ticket \cup {None},
                           link : 0 .. n])
    <3> DEFINE Wider == [customer : Customer, org : Org, ticket : Ticket \cup {None},
                         link : 0 .. n]
    <3>1. SessionSet \subseteq Wider
      BY <1>5, Elements DEF IInv, SessionSet
    <3>2. sessions \in Seq(SessionSet)
      BY DEF IInv, TypeOK, SessionSet
    <3>3. sessions \in Seq(Wider)
      <4> HIDE DEF Wider
      <4>1. QED
        BY ONLY <3>1, <3>2, SeqMonotonic
    <3>4. QED
      BY <3>3, <1>3
  <2>2. \A q \in Proc : job'[q] \in [customer : Customer \cup {None},
                                     ticket : Ticket \cup {None}, link : 0 .. n]
    <3>1. JobSet \subseteq [customer : Customer \cup {None}, ticket : Ticket \cup {None},
                            link : 0 .. n]
      BY <1>5, Elements DEF IInv, JobSet
    <3>2. job'[p] \in [customer : Customer \cup {None}, ticket : Ticket \cup {None},
                       link : 0 .. n]
      BY <1>1, <1>5, <1>7
    <3>3. QED
      BY <3>1, <3>2, <1>7, Elements DEF IInv
  <2>3. job' \in [Proc -> [customer : Customer \cup {None},
                           ticket : Ticket \cup {None}, link : 0 .. n]]
    BY <2>2, <1>3 DEF IInv, TypeOK
  <2>4. pc' \in [Proc -> {"idle", "count", "insert", "send", "mark", "sign"}]
    BY <1>3 DEF IInv, TypeOK
  <2>5. mailed' \subseteq 1 .. n
    BY <1>3, <1>5 DEF IInv, TypeOK
  <2>6. QED
    BY <2>1, <2>3, <2>4, <2>5, <1>3, <1>5, <1>7 DEF IInv, TypeOK
<1>9. LinksOwn'
  <2> SUFFICES ASSUME NEW l \in 1 .. n
               PROVE  /\ links'[l].org = HomeOf[links'[l].customer]
                      /\ links'[l].ticket # None
                           => OpenedBy[links'[l].ticket] = links'[l].customer
    BY <1>5 DEF LinksOwn
  <2>1. CASE l = n
    <3>1. /\ links'[n].org = HomeOf[links'[n].customer]
          /\ links'[n].ticket # None => OpenedBy[links'[n].ticket] = links'[n].customer
      <4>1. links'[n] = row
        BY <1>5
      <4>2. QED
        BY <4>1, <1>1, <1>4
    <3>2. QED
      BY <3>1, <2>1, Zenon
  <2>2. CASE l \in 1 .. Len(links)
    BY <2>2, <1>5 DEF IInv, Safe, LinksOwn
  <2>3. QED
    BY <2>1, <2>2, <1>6
<1>10. JobsOwn'
  BY <1>7 DEF IInv, Safe, JobsOwn
<1>11. \A i \in 1 .. Len(sessions) : sessions[i].link \in 0 .. Len(links)
  BY Elements DEF IInv, SessionSet
<1>12. SignsAlone'
  <2>1. \A q \in Proc : pc[q] = "sign" => job[q].link \in 1 .. Len(links)
    BY Elements DEF IInv, TypeOK, JobSet
  <2>2. \A q \in Proc : pc'[q] = "sign" => q # p
    BY <1>7
  <2>3. QED
    BY <2>1, <2>2, <1>3, <1>5, <1>7 DEF IInv, Safe, SignsAlone
<1>13. SessionIsOwn'
  BY <1>3, <1>5, <1>11 DEF IInv, Safe, SessionIsOwn
<1>14. SingleUse'
  BY <1>3 DEF IInv, Safe, SingleUse
<1>15. QED
  BY <1>8, <1>9, <1>10, <1>12, <1>13, <1>14 DEF IInv, Safe

LEMMA SendKeeps ==
  ASSUME IInv, NEW p \in Proc, Send(p)
  PROVE  IInv'
<1>1. job[p].link \in 1 .. Len(links)
  BY DEF IInv, TypeOK, Send
<1>2. mailed' \subseteq 1 .. Len(links)
  BY <1>1 DEF IInv, TypeOK, Send
<1>3. QED
  BY <1>2, DoneKeeps DEF Send

LEMMA FindLinkKeeps ==
  ASSUME IInv, NEW p \in Proc, FindLink(p)
  PROVE  IInv'
<1>1. PICK l \in mailed : job' = [job EXCEPT ![p] = [NoJob EXCEPT !.link = l]]
  BY DEF FindLink
<1>2. l \in 1 .. Len(links) /\ Len(links) \in Nat
  BY DEF IInv, TypeOK
<1>3. pc'[p] = "mark" /\ job'[p] = [customer |-> None, ticket |-> None, link |-> l]
      /\ \A q \in Proc \ {p} : pc'[q] = pc[q] /\ job'[q] = job[q]
  BY <1>1 DEF IInv, TypeOK, FindLink, Goto, NoJob
<1>4. [customer |-> None, ticket |-> None, link |-> l] \in JobSet
  BY <1>2 DEF JobSet
<1>5. job' \in [Proc -> JobSet]
  BY <1>1, <1>3, <1>4 DEF IInv, TypeOK, JobSet
<1>6. pc' \in [Proc -> {"idle", "count", "insert", "send", "mark", "sign"}]
  BY DEF IInv, TypeOK, FindLink, Goto
<1>7. UNCHANGED <<now, links, mailed, sessions>>
  BY DEF FindLink
<1>8. TypeOK'
  <2>1. \A q \in Proc :
          /\ pc'[q] \in {"count", "insert"} => job'[q].customer \in Customer
          /\ pc'[q] \in {"send", "mark", "sign"} => job'[q].link # 0
    <3> SUFFICES ASSUME NEW q \in Proc
                 PROVE  /\ pc'[q] \in {"count", "insert"} => job'[q].customer \in Customer
                        /\ pc'[q] \in {"send", "mark", "sign"} => job'[q].link # 0
      OBVIOUS
    <3>1. CASE q = p
      BY <3>1, <1>2, <1>3
    <3>2. CASE q # p
      BY <3>2, <1>3 DEF IInv, TypeOK
    <3>3. QED
      BY <3>1, <3>2
  <2>2. QED
    BY <2>1, <1>5, <1>6, <1>7 DEF IInv, TypeOK, JobSet
<1>9. JobsOwn' /\ SignsAlone'
  BY <1>3, <1>7 DEF IInv, Safe, JobsOwn, SignsAlone
<1>10. QED
  BY <1>7, <1>8, <1>9 DEF IInv, Safe, LinksOwn, SingleUse, SessionIsOwn

\* A link that was not consumed is in no session, and nobody signs with it: the
\* request that marks it is the only one that will.
LEMMA MarkKeeps ==
  ASSUME IInv, NEW p \in Proc, Mark(p)
  PROVE  IInv'
<1>1. CASE ~Wins(p) /\ Done(p) /\ UNCHANGED links
  BY <1>1, DoneKeeps DEF Mark, IInv, TypeOK
<1>2. CASE /\ Wins(p)
           /\ links' = [links EXCEPT ![job[p].link].consumed = TRUE]
           /\ Goto(p, "sign") /\ UNCHANGED job
  <2> DEFINE l == job[p].link
  <2>1. l \in 1 .. Len(links) /\ ~links[l].consumed
    BY <1>2 DEF IInv, TypeOK, Mark, Wins
  <2>2. UNCHANGED <<now, mailed, sessions, job>>
    BY <1>2 DEF Mark
  <2>3. pc'[p] = "sign" /\ \A q \in Proc \ {p} : pc'[q] = pc[q]
    BY <1>2 DEF IInv, TypeOK, Goto
  <2>4. \A k \in 1 .. Len(links) :
          links'[k] = IF k = l THEN [links[k] EXCEPT !.consumed = TRUE] ELSE links[k]
    BY <1>2, <2>1, Elements DEF IInv
  <2>5. \A k \in 1 .. Len(links) : links[k] \in Link
    BY Elements DEF IInv
  <2>17. \A row \in Link :
           /\ [row EXCEPT !.consumed = TRUE] \in Link
           /\ [row EXCEPT !.consumed = TRUE].customer = row.customer
           /\ [row EXCEPT !.consumed = TRUE].org = row.org
           /\ [row EXCEPT !.consumed = TRUE].ticket = row.ticket
           /\ [row EXCEPT !.consumed = TRUE].consumed
    BY DEF Link
  <2>6. \A k \in 1 .. Len(links) :
          /\ links'[k] \in Link
          /\ links'[k].customer = links[k].customer /\ links'[k].org = links[k].org
          /\ links'[k].ticket = links[k].ticket
          /\ (k = l \/ links[k].consumed) => links'[k].consumed
    <3> SUFFICES ASSUME NEW k \in 1 .. Len(links)
                 PROVE  /\ links'[k] \in Link
                        /\ links'[k].customer = links[k].customer /\ links'[k].org = links[k].org
                        /\ links'[k].ticket = links[k].ticket
                        /\ (k = l \/ links[k].consumed) => links'[k].consumed
      OBVIOUS
    <3>1. CASE k = l
      <4>1. links'[k] = [links[k] EXCEPT !.consumed = TRUE] /\ links[k] \in Link
        BY <3>1, <2>4, <2>5
      <4>2. QED
        BY ONLY <4>1, <2>17
    <3>2. CASE k # l
      BY <3>2, <2>4, <2>5
    <3>3. QED
      BY <3>1, <3>2
  <2>7. links' \in [1 .. Len(links) -> Link] /\ Len(links) \in Nat
    BY <2>6, <1>2, Elements DEF IInv
  <2>8. links' \in Seq(Link) /\ Len(links') = Len(links)
    BY <2>7
  <2>9. TypeOK'
    <3>1. pc' \in [Proc -> {"idle", "count", "insert", "send", "mark", "sign"}]
      BY <1>2 DEF IInv, TypeOK, Goto
    <3>2. QED
      BY <2>1, <2>2, <2>3, <2>8, <3>1 DEF IInv, TypeOK
  <2>10. LinksOwn'
    BY <2>6, <2>8 DEF IInv, Safe, LinksOwn
  <2>11. JobsOwn'
    BY <2>2, <2>3 DEF IInv, Safe, JobsOwn
  <2>12. \A i \in 1 .. Len(sessions) :
           sessions[i].link # l /\ sessions[i].link \in 0 .. Len(links)
    BY <2>1, Elements DEF IInv, Safe, SessionIsOwn, SessionSet
  <2>13. \A q \in Proc : pc[q] = "sign" => job[q].link # l /\ job[q].link \in 1 .. Len(links)
    BY <2>1, Elements DEF IInv, TypeOK, Safe, SignsAlone, JobSet
  <2>14. SignsAlone'
    <3> SUFFICES ASSUME NEW q \in Proc, pc'[q] = "sign"
                 PROVE  /\ links'[job[q].link].consumed
                        /\ \A i \in 1 .. Len(sessions) : sessions[i].link # job[q].link
                        /\ \A r \in Proc :
                             pc'[r] = "sign" /\ job[r].link = job[q].link => r = q
      BY <2>2 DEF SignsAlone
    <3>1. CASE q = p
      BY <3>1, <2>1, <2>3, <2>6, <2>12, <2>13
    <3>2. CASE q # p
      <4>1. pc[q] = "sign" /\ job[q].link # l /\ job[q].link \in 1 .. Len(links)
        BY <3>2, <2>3, <2>13
      <4>2. /\ links[job[q].link].consumed
            /\ \A i \in 1 .. Len(sessions) : sessions[i].link # job[q].link
            /\ \A r \in Proc : pc[r] = "sign" /\ job[r].link = job[q].link => r = q
        BY <4>1 DEF IInv, Safe, SignsAlone
      <4>3. QED
        BY <4>1, <4>2, <2>3, <2>6
    <3>3. QED
      BY <3>1, <3>2
  <2>15. SessionIsOwn'
    <3> SUFFICES ASSUME NEW i \in 1 .. Len(sessions)
                 PROVE  /\ sessions[i].org = HomeOf[sessions[i].customer]
                        /\ sessions[i].ticket # None
                             => OpenedBy[sessions[i].ticket] = sessions[i].customer
                        /\ sessions[i].link # 0
                             => /\ links'[sessions[i].link].customer = sessions[i].customer
                                /\ links'[sessions[i].link].consumed
      BY <2>2 DEF SessionIsOwn
    <3>1. sessions[i].link # 0 => sessions[i].link \in 1 .. Len(links)
      BY <2>12, Elements DEF IInv
    <3>2. QED
      BY <3>1, <2>6 DEF IInv, Safe, SessionIsOwn
  <2>16. QED
    BY <2>2, <2>9, <2>10, <2>11, <2>14, <2>15 DEF IInv, Safe, SingleUse
<1>3. QED
  BY <1>1, <1>2 DEF Mark

LEMMA SignKeeps ==
  ASSUME IInv, NEW p \in Proc, Sign(p)
  PROVE  IInv'
<1> DEFINE l == job[p].link
           s == Session(links[l].customer, links[l].org, links[l].ticket, l)
<1>1. l \in 1 .. Len(links) /\ links[l] \in Link /\ links[l].consumed
      /\ \A i \in 1 .. Len(sessions) : sessions[i].link # l
  BY DEF IInv, TypeOK, Safe, SignsAlone, Sign
<1>2. s \in SessionSet /\ s.link = l /\ s.customer = links[l].customer
      /\ s.org = HomeOf[s.customer]
      /\ (s.ticket # None => OpenedBy[s.ticket] = s.customer)
  BY <1>1 DEF Session, SessionSet, Link, IInv, Safe, LinksOwn
<1>3. sessions' = Append(sessions, s) /\ Done(p) /\ UNCHANGED <<now, links, mailed>>
  BY DEF Sign
<1> HIDE DEF s
<1>4. /\ sessions' \in Seq(SessionSet) /\ SingleUse' /\ SessionIsOwn'
      /\ \A i \in 1 .. Len(sessions') :
           sessions'[i] = s \/ (i \in 1 .. Len(sessions) /\ sessions'[i] = sessions[i])
  BY <1>1, <1>2, <1>3, SessionKeeps
<1>5. pc'[p] = "idle" /\ \A q \in Proc \ {p} : pc'[q] = pc[q] /\ job'[q] = job[q]
  BY <1>3 DEF IInv, TypeOK, Done, Goto
<1>6. TypeOK'
  <2>1. /\ pc' \in [Proc -> {"idle", "count", "insert", "send", "mark", "sign"}]
        /\ job' \in [Proc -> JobSet]
    BY <1>3 DEF IInv, TypeOK, Done, Goto, NoJob, JobSet
  <2>2. QED
    BY <1>3, <1>4, <1>5, <2>1 DEF IInv, TypeOK, SessionSet, JobSet
<1>7. \A q \in Proc \ {p} : pc[q] = "sign" => job[q].link # l
  BY DEF IInv, Safe, SignsAlone, Sign
<1>8. JobsOwn'
  BY <1>5 DEF IInv, Safe, JobsOwn
<1>10. SignsAlone'
  <2> SUFFICES ASSUME NEW q \in Proc \ {p}, pc[q] = "sign"
               PROVE  /\ links[job[q].link].consumed
                      /\ \A i \in 1 .. Len(sessions') : sessions'[i].link # job[q].link
                      /\ \A r \in Proc \ {p} :
                           pc[r] = "sign" /\ job[r].link = job[q].link => r = q
    BY <1>3, <1>5 DEF SignsAlone
  <2>1. QED
    BY <1>2, <1>4, <1>7 DEF IInv, Safe, SignsAlone
<1>9. QED
  BY <1>3, <1>4, <1>6, <1>8, <1>10 DEF IInv, Safe, LinksOwn

LEMMA FailKeeps ==
  ASSUME IInv, NEW p \in Proc, Fail(p)
  PROVE  IInv'
BY DoneKeeps DEF Fail, IInv, TypeOK

LEMMA TickKeeps ==
  ASSUME IInv, Tick
  PROVE  IInv'
<1>1. now' \in Nat /\ UNCHANGED <<links, mailed, sessions, pc, job>>
  BY DEF IInv, TypeOK, Tick
<1>2. TypeOK'
  BY <1>1 DEF IInv, TypeOK
<1>3. Safe'
  BY <1>1 DEF IInv, Safe, LinksOwn, JobsOwn, SignsAlone, SingleUse, SessionIsOwn
<1>4. QED
  BY <1>2, <1>3 DEF IInv

LEMMA StutterKeeps ==
  ASSUME IInv, UNCHANGED vars
  PROVE  IInv'
BY DEF IInv, Safe, TypeOK, vars, LinksOwn, JobsOwn, SignsAlone, SingleUse, SessionIsOwn

\* Every step keeps the invariant.
LEMMA StepKeeps == IInv /\ [Next]_vars => IInv'
BY AskForLinkKeeps, FindLinkKeeps, VerifyKeeps, CountKeeps, InsertKeeps, SendKeeps,
   MarkKeeps, SignKeeps, FailKeeps, TickKeeps, StutterKeeps DEF Next, Serve

LEMMA Invariant == Spec => []IInv
BY InitIInv, StepKeeps, PTL DEF Spec

\* Rows, tokens and requests in flight stay well formed.
THEOREM TypeCorrect == Spec => []TypeOK
BY Invariant, PTL DEF IInv

\* The conditional UPDATE makes a link good for one session, however many
\* requests consume it at the same time and wherever they fail.
THEOREM LinkWorksOnce == Spec => []SingleUse
BY Invariant, PTL DEF IInv, Safe

\* A session never reaches beyond its customer, whichever way it came about.
THEOREM SessionStaysOwn == Spec => []SessionIsOwn
BY Invariant, PTL DEF IInv, Safe

-----------------------------------------------------------------------------
\* ----- the abuse guard ---------------------------------------------------
\* The requests that counted for c and have not inserted yet.
Counted(c) == {p \in Proc : pc[p] = "insert" /\ job[p].customer = c}

\* The inductive invariant: links and permissions to insert one, together.
GuardInv ==
  \A c \in Customer :
    Cardinality(IssuedLately(c)) + Cardinality(Counted(c)) <= Threshold + Cardinality(Proc) - 1

LEMMA GuardCounts ==
  ASSUME TypeOK, NEW c
  PROVE  /\ IsFiniteSet(Recent(c)) /\ Cardinality(Recent(c)) \in Nat
         /\ IsFiniteSet(IssuedLately(c)) /\ Cardinality(IssuedLately(c)) \in Nat
         /\ IsFiniteSet(Counted(c)) /\ Cardinality(Counted(c)) \in Nat
         /\ Cardinality(Counted(c)) <= Cardinality(Proc)
         /\ Cardinality(Proc) \in Nat
<1>1. IsFiniteSet(1 .. Len(links))
  BY Elements, FS_Interval
<1>2. Recent(c) \subseteq 1 .. Len(links) /\ IssuedLately(c) \subseteq 1 .. Len(links)
  BY DEF Recent, IssuedLately
<1>3. Counted(c) \subseteq Proc
  BY DEF Counted
<1>4. QED
  BY <1>1, <1>2, <1>3, ProcAssumption, FS_Subset, FS_CardinalityType

\* A step that issues no link and lets nobody insert loosens the bound.
LEMMA GuardLoosens ==
  ASSUME TypeOK, TypeOK', GuardInv,
         \A c \in Customer : IssuedLately(c)' \subseteq IssuedLately(c)
                               /\ Counted(c)' \subseteq Counted(c)
  PROVE  GuardInv'
<1> SUFFICES ASSUME NEW c \in Customer
             PROVE  Cardinality(IssuedLately(c)') + Cardinality(Counted(c)')
                      <= Threshold + Cardinality(Proc) - 1
  BY DEF GuardInv, IssuedLately, Counted
<1>1. /\ Cardinality(IssuedLately(c)') <= Cardinality(IssuedLately(c))
      /\ Cardinality(IssuedLately(c)') \in Nat
  BY GuardCounts, FS_Subset, FS_CardinalityType
<1>2. /\ Cardinality(Counted(c)') <= Cardinality(Counted(c))
      /\ Cardinality(Counted(c)') \in Nat
  BY GuardCounts, FS_Subset, FS_CardinalityType
<1>3. QED
  BY <1>1, <1>2, GuardCounts DEF GuardInv

\* Counting below the threshold leaves room for everybody in flight.
LEMMA CountGuards ==
  ASSUME TypeOK, TypeOK', GuardInv, NEW p \in Proc, Count(p)
  PROVE  GuardInv'
<1> SUFFICES ASSUME NEW c \in Customer
             PROVE  Cardinality(IssuedLately(c)') + Cardinality(Counted(c)')
                      <= Threshold + Cardinality(Proc) - 1
  BY DEF GuardInv, IssuedLately, Counted
<1>1. IssuedLately(c)' = IssuedLately(c)
  BY DEF Count, IssuedLately
<1>2. CASE Counted(c)' \subseteq Counted(c)
  <2>1. Cardinality(Counted(c)') <= Cardinality(Counted(c)) /\ Cardinality(Counted(c)') \in Nat
    BY <1>2, GuardCounts, FS_Subset, FS_CardinalityType
  <2>2. QED
    BY <1>1, <2>1, GuardCounts DEF GuardInv
<1>3. CASE ~ (Counted(c)' \subseteq Counted(c))
  <2>1. job[p].customer = c /\ Cardinality(Recent(c)) < Threshold
    BY <1>3 DEF Count, Counted, Goto, Done, TypeOK
  <2>2. IssuedLately(c) = Recent(c)
    <3>1. \A l \in 1 .. Len(links) : links[l].created \in Nat
      BY Elements DEF Link
    <3>2. now \in Nat
      BY DEF TypeOK
    <3>3. \A l \in 1 .. Len(links) :
            now - links[l].created < Window <=> links[l].created + Window > now
      BY <3>1, <3>2
    <3>4. QED
      BY <3>3 DEF IssuedLately, Recent
  <2>3. Counted(c)' \subseteq Proc
    BY DEF Counted
  <2>4. Cardinality(Counted(c)') <= Cardinality(Proc) /\ Cardinality(Counted(c)') \in Nat
    BY <2>3, ProcAssumption, FS_Subset, FS_CardinalityType
  <2>5. QED
    BY <1>1, <2>1, <2>2, <2>4, GuardCounts
<1>4. QED
  BY <1>2, <1>3

\* An insert turns one permission into one link.
LEMMA InsertGuards ==
  ASSUME TypeOK, TypeOK', GuardInv, NEW p \in Proc, Insert(p)
  PROVE  GuardInv'
<1> SUFFICES ASSUME NEW c \in Customer
             PROVE  Cardinality(IssuedLately(c)') + Cardinality(Counted(c)')
                      <= Threshold + Cardinality(Proc) - 1
  BY DEF GuardInv, IssuedLately, Counted
<1> DEFINE n == Len(links) + 1
<1>1. /\ Len(links') = n
      /\ \A l \in 1 .. Len(links) : links'[l] = links[l]
      /\ links'[n].customer = job[p].customer
      /\ now' = now
  <2> DEFINE row == [customer |-> job[p].customer, org |-> HomeOf[job[p].customer],
                     ticket |-> job[p].ticket, created |-> now, expires |-> now + Drift + Ttl,
                     consumed |-> FALSE]
  <2>1. job[p].customer \in Customer /\ job[p].ticket \in Ticket \cup {None} /\ now \in Nat
    BY DEF TypeOK, Insert
  <2>2. row \in Link /\ row.customer = job[p].customer
    BY <2>1 DEF Link
  <2>3. links' = Append(links, row) /\ now' = now
    BY DEF Insert
  <2> HIDE DEF row
  <2>4. QED
    BY <2>2, <2>3 DEF TypeOK
<1>2. Len(links) \in Nat
  BY Elements
<1>3. Counted(c)' = IF job[p].customer = c THEN Counted(c) \ {p} ELSE Counted(c)
  <2>1. pc[p] = "insert" /\ pc'[p] # "insert"
        /\ \A q \in Proc \ {p} : pc'[q] = pc[q] /\ job'[q] = job[q]
    BY DEF Insert, Goto, TypeOK
  <2>2. QED
    BY <2>1 DEF Counted
<1>4. CASE job[p].customer = c
  <2>1. IssuedLately(c)' \subseteq IssuedLately(c) \cup {n}
    BY <1>1, <1>2 DEF IssuedLately
  <2>2. /\ IsFiniteSet(IssuedLately(c) \cup {n})
        /\ Cardinality(IssuedLately(c) \cup {n}) <= Cardinality(IssuedLately(c)) + 1
    <3> DEFINE S == IssuedLately(c)
    <3>1. IsFiniteSet(S) /\ Cardinality(S) \in Nat
      BY GuardCounts
    <3> HIDE DEF S, n
    <3>2. IsFiniteSet(S \cup {n}) /\ Cardinality(S \cup {n}) <= Cardinality(S) + 1
      <4>1. /\ IsFiniteSet(S \cup {n})
            /\ Cardinality(S \cup {n}) = IF n \in S THEN Cardinality(S) ELSE Cardinality(S) + 1
        BY <3>1, FS_AddElement, Zenon
      <4>2. QED
        BY <3>1, <4>1
    <3>3. QED
      BY <3>2 DEF S
  <2>3. /\ Cardinality(IssuedLately(c)') <= Cardinality(IssuedLately(c)) + 1
        /\ Cardinality(IssuedLately(c)') \in Nat
    <3>1. /\ Cardinality(IssuedLately(c)') <= Cardinality(IssuedLately(c) \cup {n})
          /\ IsFiniteSet(IssuedLately(c)')
      BY <2>1, <2>2, FS_Subset
    <3>2. QED
      BY <2>2, <3>1, GuardCounts, FS_CardinalityType
  <2>4. p \in Counted(c)
    BY <1>4 DEF Counted, Insert
  <2>5. Cardinality(Counted(c)') = Cardinality(Counted(c)) - 1
    <3>1. Cardinality(Counted(c) \ {p}) = Cardinality(Counted(c)) - 1
      BY <2>4, GuardCounts, FS_RemoveElement
    <3>2. QED
      BY <1>3, <1>4, <3>1
  <2>6. QED
    BY <2>3, <2>5, GuardCounts DEF GuardInv
<1>5. CASE job[p].customer # c
  <2>1. IssuedLately(c)' \subseteq IssuedLately(c)
    BY <1>1, <1>2, <1>5 DEF IssuedLately
  <2>2. /\ Cardinality(IssuedLately(c)') <= Cardinality(IssuedLately(c))
        /\ Cardinality(IssuedLately(c)') \in Nat
    BY <2>1, GuardCounts, FS_Subset, FS_CardinalityType
  <2>3. QED
    BY <1>3, <1>5, <2>2, GuardCounts DEF GuardInv
<1>6. QED
  BY <1>4, <1>5

LEMMA GuardStep == TypeOK /\ TypeOK' /\ GuardInv /\ [Next]_vars => GuardInv'
<1> SUFFICES ASSUME TypeOK, TypeOK', GuardInv, [Next]_vars PROVE GuardInv'
  OBVIOUS
<1>1. ASSUME NEW p \in Proc,
             UNCHANGED <<now, links>> /\ \A q \in Proc : pc'[q] = "insert" =>
                                           pc[q] = "insert" /\ job'[q] = job[q]
      PROVE  GuardInv'
  BY <1>1, GuardLoosens DEF IssuedLately, Counted
<1>2. ASSUME NEW p \in Proc, AskForLink(p) \/ FindLink(p) \/ Verify(p) \/ Send(p) \/ Sign(p) \/ Fail(p)
      PROVE  GuardInv'
  <2>1. UNCHANGED <<now, links>>
    BY <1>2 DEF AskForLink, FindLink, Verify, Send, Sign, Fail
  <2>2. \A q \in Proc : pc'[q] = "insert" => pc[q] = "insert" /\ job'[q] = job[q]
    BY <1>2 DEF AskForLink, FindLink, Verify, Send, Sign, Fail, Goto, Done, TypeOK
  <2>3. QED
    BY <1>1, <2>1, <2>2
<1>3. ASSUME NEW p \in Proc, Mark(p) PROVE GuardInv'
  <2>1. /\ now' = now
        /\ Len(links') = Len(links)
        /\ \A l \in 1 .. Len(links) :
             links'[l].customer = links[l].customer /\ links'[l].created = links[l].created
    <3>1. CASE UNCHANGED links
      BY <1>3, <3>1 DEF Mark
    <3>2. CASE links' = [links EXCEPT ![job[p].link].consumed = TRUE]
      <4>1. DOMAIN links' = DOMAIN links
        BY <3>2
      <4>2. Len(links') = Len(links)
        BY <4>1, LenProperties DEF TypeOK
      <4>3. links \in [1 .. Len(links) -> Link]
        BY Elements
      <4>4. QED
        BY <1>3, <3>2, <4>2, <4>3 DEF Mark, Link
    <3>3. QED
      BY <1>3, <3>1, <3>2 DEF Mark
  <2>2. \A q \in Proc : pc'[q] = "insert" => pc[q] = "insert" /\ job'[q] = job[q]
    BY <1>3 DEF Mark, Goto, Done, TypeOK
  <2>3. \A c : IssuedLately(c)' = IssuedLately(c) /\ Counted(c)' \subseteq Counted(c)
    BY <2>1, <2>2 DEF IssuedLately, Counted
  <2>4. QED
    BY <2>3, GuardLoosens
<1>4. CASE Tick
  <2>1. \A l \in 1 .. Len(links) : links[l].created \in Nat
    BY Elements DEF Link
  <2>2. now \in Nat /\ now' = now + 1 /\ UNCHANGED <<links, pc, job>>
    BY <1>4 DEF Tick, TypeOK
  <2>3. \A c : IssuedLately(c)' \subseteq IssuedLately(c) /\ Counted(c)' = Counted(c)
    BY <2>1, <2>2 DEF IssuedLately, Counted
  <2>4. QED
    BY <2>3, GuardLoosens
<1>5. CASE UNCHANGED vars
  BY <1>5 DEF vars, GuardInv, IssuedLately, Counted
<1>6. QED
  BY <1>2, <1>3, <1>4, <1>5, CountGuards, InsertGuards DEF Next, Serve

LEMMA InitGuard == Init => GuardInv
<1> SUFFICES ASSUME Init, NEW c \in Customer
             PROVE  Cardinality(IssuedLately(c)) + Cardinality(Counted(c))
                      <= Threshold + Cardinality(Proc) - 1
  BY DEF GuardInv
<1>1. IssuedLately(c) = {} /\ Counted(c) = {}
  BY DEF Init, IssuedLately, Counted
<1>2. Cardinality(Proc) \in Nat
  BY ProcAssumption, FS_CardinalityType
<1>3. QED
  BY <1>1, <1>2, FS_EmptySet

\* Within a window a customer is issued the threshold and at most one more for
\* every other request in flight, whatever races.
THEOREM GuardOverrunIsBounded == Spec => []GuardHolds
<1>1. Init => IInv /\ GuardInv
  BY InitIInv, InitGuard
<1>2. (IInv /\ GuardInv) /\ [Next]_vars => (IInv /\ GuardInv)'
  BY StepKeeps, GuardStep DEF IInv
<1>3. IInv /\ GuardInv => GuardHolds
  BY GuardCounts DEF GuardInv, GuardHolds, IInv
<1>4. QED
  BY <1>1, <1>2, <1>3, PTL DEF Spec
=============================================================================
