------------------------- MODULE CustomerChatProofs --------------------------
(***************************************************************************)
(* Proofs about CustomerChat, for any number of customers, connections,    *)
(* frames and messages.                                                    *)
(***************************************************************************)
EXTENDS CustomerChat, SequenceTheorems, TLAPS

\* ----- the types, by how many tickets and messages there are -------------
OpeningSet(n) == [ticket : 1 .. n, from : Customer \cup {"greeting"}]
EntrySet(n) == [ticket : 1 .. n, from : Customer \cup {"pipeline", "agent"}]
SockSet(n, k) ==
  [at : {"idle", "listed", "open", "gone"}, owner : Customer \cup {"nobody"},
   ticket : 0 .. n, sub : 0 .. n, listed : SUBSET (1 .. k)]
JobSet(n, k) ==
  [sock : Socket \cup {"none"}, by : Customer \cup {"nobody"}, ticket : 0 .. n,
   message : 0 .. k, from : {"none", "auto", "fallback"}]
Steps == {"idle", "done", "create", "first", "greet", "receive", "pipeline", "tell"}

\* ----- the inductive invariant -------------------------------------------
\* What a connection holds is its customer's; one that is not alive shows nothing.
SocketsOwn ==
  \A s \in Socket :
    /\ Alive(s) /\ sock[s].ticket # 0 => owner[sock[s].ticket] = sock[s].owner
    /\ Alive(s) /\ sock[s].sub # 0 => owner[sock[s].sub] = sock[s].owner
    /\ Alive(s) => sock[s].owner \in Customer
    /\ ~Alive(s) => sock[s].listed = {} /\ live[s] = << >>

\* A frame in flight came from a connection that was open, for its customer, and
\* works on a ticket of his once it has one.
FramesOwn ==
  \A f \in Frame : pc[f] \notin {"idle", "done"} =>
    /\ job[f].sock \in Socket /\ job[f].by \in Customer
    /\ sock[job[f].sock].at # "idle"
    /\ Alive(job[f].sock) => sock[job[f].sock].owner = job[f].by
    /\ pc[f] # "create" => job[f].ticket # 0 /\ owner[job[f].ticket] = job[f].by

\* What was listed and what was pushed, one by one.
ShownOwn ==
  \A s \in Socket :
    /\ \A m \in sock[s].listed : owner[log[m].ticket] = sock[s].owner
    /\ \A i \in 1 .. Len(live[s]) : owner[log[live[s][i]].ticket] = sock[s].owner

WrittenOwn ==
  /\ \A row \in opening : row.from \in Customer => owner[row.ticket] = row.from
  /\ \A m \in Message : log[m].from \in Customer => owner[log[m].ticket] = log[m].from

\* A message waits to be published in one place, and was pushed nowhere before.
WaitsOnce ==
  /\ \A m \in toPublish : log[m].from = "agent"
  /\ \A f \in Frame : pc[f] = "tell" =>
       job[f].message # 0 /\ log[job[f].message].from = "pipeline"
  /\ \A f, g \in Frame :
       pc[f] = "tell" /\ pc[g] = "tell" /\ job[f].message = job[g].message => f = g
  /\ \A s \in Socket : \A i \in 1 .. Len(live[s]) :
       /\ live[s][i] \notin toPublish
       /\ \A f \in Frame : pc[f] = "tell" => job[f].message # live[s][i]

Safe == SocketsOwn /\ FramesOwn /\ ShownOwn /\ WrittenOwn /\ WaitsOnce /\ PushedOnce
IInv == TypeOK /\ Safe

USE ChatBounds, ChatNames

LEMMA Types ==
  TypeOK <=>
    /\ owner \in Seq(Customer) /\ log \in Seq(EntrySet(Len(owner)))
    /\ opening \subseteq OpeningSet(Len(owner))
    /\ toPublish \subseteq 1 .. Len(log)
    /\ sock \in [Socket -> SockSet(Len(owner), Len(log))]
    /\ live \in [Socket -> Seq(1 .. Len(log))]
    /\ pc \in [Frame -> Steps] /\ job \in [Frame -> JobSet(Len(owner), Len(log))]
BY DEF TypeOK, OpeningSet, EntrySet, SockSet, JobSet, Steps, Ticket, Message

LEMMA NextTypes ==
  ASSUME owner' \in Seq(Customer), log' \in Seq(EntrySet(Len(owner'))),
         opening' \subseteq OpeningSet(Len(owner')), toPublish' \subseteq 1 .. Len(log'),
         sock' \in [Socket -> SockSet(Len(owner'), Len(log'))],
         live' \in [Socket -> Seq(1 .. Len(log'))],
         pc' \in [Frame -> Steps], job' \in [Frame -> JobSet(Len(owner'), Len(log'))]
  PROVE  TypeOK'
BY DEF TypeOK, OpeningSet, EntrySet, SockSet, JobSet, Steps, Ticket, Message

\* What the sequences hold, element by element.
LEMMA Elements ==
  ASSUME TypeOK
  PROVE  /\ Len(owner) \in Nat /\ Len(log) \in Nat
         /\ \A t \in 1 .. Len(owner) : owner[t] \in Customer
         /\ \A m \in 1 .. Len(log) : log[m] \in EntrySet(Len(owner))
         /\ \A s \in Socket : /\ Len(live[s]) \in Nat
                              /\ \A i \in 1 .. Len(live[s]) : live[s][i] \in 1 .. Len(log)
<1>1. /\ owner \in Seq(Customer) /\ log \in Seq(EntrySet(Len(owner)))
      /\ \A s \in Socket : live[s] \in Seq(1 .. Len(log))
  BY Types
<1>2. Len(owner) \in Nat /\ \A t \in 1 .. Len(owner) : owner[t] \in Customer
  BY <1>1
<1>3. Len(log) \in Nat /\ \A m \in 1 .. Len(log) : log[m] \in EntrySet(Len(owner))
  BY <1>1
<1>4. ASSUME NEW s \in Socket
      PROVE  Len(live[s]) \in Nat /\ \A i \in 1 .. Len(live[s]) : live[s][i] \in 1 .. Len(log)
  BY <1>1
<1>5. QED
  BY <1>2, <1>3, <1>4

LEMMA Wider ==
  ASSUME NEW n \in Nat, NEW k \in Nat, NEW i \in Nat, NEW j \in Nat, n <= i, k <= j
  PROVE  /\ OpeningSet(n) \subseteq OpeningSet(i)
         /\ EntrySet(n) \subseteq EntrySet(i) /\ Seq(EntrySet(n)) \subseteq Seq(EntrySet(i))
         /\ SockSet(n, k) \subseteq SockSet(i, j) /\ JobSet(n, k) \subseteq JobSet(i, j)
         /\ Seq(1 .. k) \subseteq Seq(1 .. j) /\ 1 .. k \subseteq 1 .. j
<1>1. EntrySet(n) \subseteq EntrySet(i) /\ OpeningSet(n) \subseteq OpeningSet(i)
  BY DEF EntrySet, OpeningSet
<1>2. 1 .. k \subseteq 1 .. j /\ 0 .. n \subseteq 0 .. i /\ 0 .. k \subseteq 0 .. j
  OBVIOUS
<1>3. SockSet(n, k) \subseteq SockSet(i, j) /\ JobSet(n, k) \subseteq JobSet(i, j)
  BY <1>2 DEF SockSet, JobSet
<1>4. Seq(EntrySet(n)) \subseteq Seq(EntrySet(i)) /\ Seq(1 .. k) \subseteq Seq(1 .. j)
  BY <1>1, <1>2, SeqMonotonic
<1>5. QED
  BY <1>1, <1>2, <1>3, <1>4

LEMMA InitIInv == Init => IInv
<1> SUFFICES ASSUME Init PROVE IInv
  OBVIOUS
<1>1. PICK c \in Customer : owner = <<c>>
  BY DEF Init
<1>2. /\ owner \in Seq(Customer) /\ Len(owner) = 1 /\ owner[1] = c
      /\ log = << >> /\ opening = {[ticket |-> 1, from |-> from] : from \in {c, "greeting"}}
  BY <1>1 DEF Init
<1>3. log \in Seq(EntrySet(1)) /\ Len(log) = 0 /\ opening \subseteq OpeningSet(1)
  BY <1>2 DEF OpeningSet
<1>4. \A s \in Socket : live[s] = << >> /\ Len(live[s]) = 0
  BY DEF Init
<1>5. TypeOK
  BY <1>2, <1>3, Types DEF Init, SockSet, JobSet, NoSocket, NoJob, Steps
<1>6. SocketsOwn /\ FramesOwn /\ ShownOwn
  BY <1>4 DEF Init, SocketsOwn, FramesOwn, ShownOwn, Alive, NoSocket
<1>7. WrittenOwn
  BY <1>2, <1>3 DEF WrittenOwn, Message, OpeningSet
<1>8. WaitsOnce /\ PushedOnce
  BY <1>4 DEF Init, WaitsOnce, PushedOnce
<1>9. QED
  BY <1>5, <1>6, <1>7, <1>8 DEF IInv, Safe

\* ----- steps of connections ----------------------------------------------
LEMMA ConnectKeeps == ASSUME IInv, NEW s \in Socket, Connect(s) PROVE IInv'
<1>1. PICK c \in Customer, t \in {0} \cup Ticket :
        /\ t # 0 => owner[t] = c
        /\ sock' = [sock EXCEPT ![s] =
             [NoSocket EXCEPT !.at = IF t = 0 THEN "open" ELSE "listed",
                              !.owner = c, !.ticket = t, !.listed = Thread(t)]]
  BY DEF Connect
<1>2. TypeOK /\ Safe /\ sock[s].at = "idle" /\ UNCHANGED <<owner, opening, log, toPublish, live, pc, job>>
  BY DEF IInv, Connect
<1>3. /\ sock'[s].at = IF t = 0 THEN "open" ELSE "listed"
      /\ sock'[s].owner = c /\ sock'[s].ticket = t /\ sock'[s].sub = 0
      /\ sock'[s].listed = Thread(t) /\ sock'[s] \in SockSet(Len(owner), Len(log))
      /\ \A r \in Socket \ {s} : sock'[r] = sock[r]
  <2>1. t \in 0 .. Len(owner) /\ Thread(t) \subseteq 1 .. Len(log)
    BY Elements, <1>2 DEF Ticket, Thread, Message
  <2>2. sock'[s] = [at |-> IF t = 0 THEN "open" ELSE "listed", owner |-> c,
                    ticket |-> t, sub |-> 0, listed |-> Thread(t)]
    BY <1>1, <1>2, Types DEF NoSocket
  <2>3. sock'[s] \in SockSet(Len(owner), Len(log))
    BY <2>1, <2>2, Elements, <1>2 DEF SockSet
  <2>4. QED
    BY <1>1, <1>2, <2>2, <2>3, Types
<1>4. TypeOK'
  <2>1. sock' \in [Socket -> SockSet(Len(owner), Len(log))]
    BY <1>1, <1>2, <1>3, Types
  <2>2. QED
    BY <1>2, <2>1, Types DEF TypeOK, SockSet, Ticket, Message
<1>5. SocketsOwn'
  BY <1>1, <1>2, <1>3 DEF Safe, SocketsOwn, Alive
<1>6. FramesOwn'
  <2> SUFFICES ASSUME NEW f \in Frame, pc[f] \notin {"idle", "done"}
               PROVE  /\ job[f].sock \in Socket /\ job[f].by \in Customer
                      /\ sock'[job[f].sock].at # "idle"
                      /\ Alive(job[f].sock)' => sock'[job[f].sock].owner = job[f].by
                      /\ pc[f] # "create" => job[f].ticket # 0 /\ owner[job[f].ticket] = job[f].by
    BY <1>2 DEF FramesOwn, Alive
  <2>1. job[f].sock \in Socket \ {s}
    BY <1>2 DEF Safe, FramesOwn
  <2>2. QED
    BY <1>2, <1>3, <2>1 DEF Safe, FramesOwn, Alive
<1>7. ShownOwn'
  <2>1. ~ Alive(s) /\ Len(live[s]) = 0
    BY <1>2 DEF Safe, SocketsOwn, Alive
  <2>2. \A m \in Thread(t) : owner[log[m].ticket] = c
    BY <1>1, <1>2, Elements DEF Thread, Message, Ticket, EntrySet
  <2>3. QED
    BY <1>2, <1>3, <2>1, <2>2 DEF Safe, ShownOwn
<1>8. PushedOnce' /\ WrittenOwn' /\ WaitsOnce'
  BY <1>2 DEF Safe, PushedOnce, WrittenOwn, WaitsOnce, Message
<1>9. QED
  BY <1>4, <1>5, <1>6, <1>7, <1>8 DEF IInv, Safe

LEMMA ReplayKeeps == ASSUME IInv, NEW s \in Socket, Replay(s) PROVE IInv'
<1>1. /\ TypeOK /\ Safe /\ sock[s].at = "listed" /\ UNCHANGED <<owner, opening, log, toPublish, live, pc, job>>
      /\ sock' = [sock EXCEPT ![s].at = "open", ![s].sub = sock[s].ticket]
  BY DEF IInv, Replay
<1>2. /\ sock'[s] = [sock[s] EXCEPT !.at = "open", !.sub = sock[s].ticket]
      /\ sock'[s] \in SockSet(Len(owner), Len(log))
      /\ \A r \in Socket \ {s} : sock'[r] = sock[r]
  BY <1>1, Types DEF SockSet
<1>3. /\ sock'[s].at = "open" /\ sock'[s].owner = sock[s].owner
      /\ sock'[s].ticket = sock[s].ticket /\ sock'[s].sub = sock[s].ticket
      /\ sock'[s].listed = sock[s].listed
      /\ \A r \in Socket \ {s} : sock'[r] = sock[r]
  BY <1>1, <1>2, Types DEF SockSet
<1> Safe /\ sock[s].at = "listed" /\ UNCHANGED <<owner, opening, log, toPublish, live, pc, job>>
  BY <1>1
<1>4. TypeOK'
  <2>1. sock' \in [Socket -> SockSet(Len(owner), Len(log))]
    BY <1>1, <1>2, Types
  <2>2. QED
    BY <1>1, <2>1, Types DEF TypeOK, SockSet, Ticket, Message
<1>5. SocketsOwn'
  BY <1>3 DEF Safe, SocketsOwn, Alive
<1>6. FramesOwn'
  BY <1>3 DEF Safe, FramesOwn, Alive
<1>7. ShownOwn'
  BY <1>3 DEF Safe, ShownOwn
<1>8. PushedOnce' /\ WrittenOwn' /\ WaitsOnce'
  BY <1>1 DEF Safe, PushedOnce, WrittenOwn, WaitsOnce, Message
<1>9. QED
  BY <1>4, <1>5, <1>6, <1>7, <1>8 DEF IInv, Safe

LEMMA CloseKeeps == ASSUME IInv, NEW s \in Socket, Close(s) PROVE IInv'
<1>1. /\ TypeOK /\ Safe /\ UNCHANGED <<owner, opening, log, toPublish, pc, job>>
      /\ sock' = [sock EXCEPT ![s] = [NoSocket EXCEPT !.at = "gone"]]
      /\ live' = [live EXCEPT ![s] = << >>]
  BY DEF IInv, Close
<1>2. /\ sock'[s] = [NoSocket EXCEPT !.at = "gone"] /\ live'[s] = << >> /\ Len(live'[s]) = 0
      /\ \A r \in Socket \ {s} : sock'[r] = sock[r] /\ live'[r] = live[r]
  BY <1>1, Types
<1>3. sock'[s].at = "gone" /\ sock'[s].listed = {} /\ sock'[s] \in SockSet(Len(owner), Len(log))
  BY <1>1, <1>2, Elements DEF NoSocket, SockSet
<1>4. TypeOK'
  <2>1. sock' \in [Socket -> SockSet(Len(owner), Len(log))] /\ live' \in [Socket -> Seq(1 .. Len(log))]
    BY <1>1, <1>2, <1>3, Types
  <2>2. QED
    BY <1>1, <2>1, Types DEF TypeOK, SockSet, Ticket, Message
<1>5. SocketsOwn' /\ FramesOwn'
  BY <1>1, <1>2, <1>3 DEF Safe, SocketsOwn, FramesOwn, Alive
<1>6. ShownOwn' /\ PushedOnce' /\ WrittenOwn' /\ WaitsOnce'
  BY <1>1, <1>2, <1>3 DEF Safe, ShownOwn, PushedOnce, WrittenOwn, WaitsOnce, Message
<1>7. QED
  BY <1>4, <1>5, <1>6 DEF IInv, Safe

LEMMA CrashKeeps == ASSUME IInv, Crash PROVE IInv'
<1>1. TypeOK /\ Safe /\ UNCHANGED <<owner, opening, log>> /\ toPublish' = {}
  BY DEF IInv, Crash
<1>2. \A s \in Socket :
        /\ live'[s] = << >> /\ Len(live'[s]) = 0
        /\ sock'[s].at \in {"idle", "gone"} /\ sock'[s].listed = {}
        /\ sock'[s] \in SockSet(Len(owner), Len(log))
  BY <1>1, Elements DEF Crash, NoSocket, SockSet
<1>3. \A f \in Frame : pc'[f] \in {"idle", "done"} /\ job'[f] \in JobSet(Len(owner), Len(log))
  BY <1>1, Elements DEF Crash, NoJob, JobSet
<1>4. TypeOK'
  <2>1. /\ sock' \in [Socket -> SockSet(Len(owner), Len(log))]
        /\ live' \in [Socket -> Seq(1 .. Len(log))]
        /\ pc' \in [Frame -> Steps] /\ job' \in [Frame -> JobSet(Len(owner), Len(log))]
    BY <1>2, <1>3 DEF Crash, Steps
  <2>2. QED
    BY <1>1, <2>1, Types DEF TypeOK, SockSet, JobSet, Steps, Ticket, Message
<1>5. SocketsOwn' /\ FramesOwn' /\ ShownOwn' /\ PushedOnce' /\ WrittenOwn' /\ WaitsOnce'
  BY <1>1, <1>2, <1>3
  DEF Safe, SocketsOwn, FramesOwn, ShownOwn, PushedOnce, WrittenOwn, WaitsOnce, Alive, Message
<1>6. QED
  BY <1>4, <1>5 DEF IInv, Safe

\* ----- steps of frames that write nothing --------------------------------
LEMMA ArriveKeeps == ASSUME IInv, NEW f \in Frame, Arrive(f) PROVE IInv'
<1>1. TypeOK /\ Safe /\ UNCHANGED <<owner, opening, log, toPublish, sock, live>>
  BY DEF IInv, Arrive
<1>2. PICK s \in Socket :
        /\ sock[s].at = "open"
        /\ job' = [job EXCEPT ![f] = [NoJob EXCEPT !.sock = s, !.by = sock[s].owner,
                                                   !.ticket = sock[s].ticket]]
        /\ pc' = [pc EXCEPT ![f] = IF sock[s].ticket = 0 THEN "create" ELSE "receive"]
  BY DEF Arrive, Goto
<1>3. job'[f] = [sock |-> s, by |-> sock[s].owner, ticket |-> sock[s].ticket,
                 message |-> 0, from |-> "none"]
  BY <1>1, <1>2, Types DEF NoJob
<1>4. /\ sock[s].owner \in Customer \cup {"nobody"} /\ sock[s].ticket \in 0 .. Len(owner)
      /\ job'[f] \in JobSet(Len(owner), Len(log))
  BY <1>1, <1>3, Types, Elements DEF SockSet, JobSet
<1>5. /\ pc'[f] = IF sock[s].ticket = 0 THEN "create" ELSE "receive"
      /\ job'[f].sock = s /\ job'[f].by = sock[s].owner /\ job'[f].ticket = sock[s].ticket
      /\ \A g \in Frame \ {f} : pc'[g] = pc[g] /\ job'[g] = job[g]
  BY <1>1, <1>2, <1>3, Types
<1> Safe /\ sock[s].at = "open" /\ UNCHANGED <<owner, opening, log, toPublish, sock, live>>
  BY <1>1, <1>2
<1>6. TypeOK'
  <2>1. /\ pc' \in [Frame -> Steps] /\ job' \in [Frame -> JobSet(Len(owner), Len(log))]
    BY <1>1, <1>2, <1>4, <1>5, Types DEF Steps
  <2>2. QED
    BY <1>1, <2>1, Types DEF TypeOK, JobSet, Steps, Ticket, Message
<1>7. FramesOwn'
  <2>1. sock[s].owner \in Customer
    BY DEF Safe, SocketsOwn, Alive
  <2>2. sock[s].ticket # 0 => owner[sock[s].ticket] = sock[s].owner
    BY DEF Safe, SocketsOwn, Alive
  <2>3. QED
    BY <1>5, <2>1, <2>2 DEF Safe, FramesOwn, Alive
<1>8. SocketsOwn' /\ ShownOwn' /\ WrittenOwn' /\ PushedOnce'
  BY DEF Safe, SocketsOwn, ShownOwn, WrittenOwn, PushedOnce, Alive, Message
<1>9. WaitsOnce'
  BY <1>5 DEF Safe, WaitsOnce
<1>10. QED
  BY <1>6, <1>7, <1>8, <1>9 DEF IInv, Safe

LEMMA GreetKeeps == ASSUME IInv, NEW f \in Frame, Greet(f) PROVE IInv'
<1> DEFINE s == job[f].sock
           t == job[f].ticket
<1>1. /\ TypeOK /\ Safe /\ pc[f] = "greet" /\ UNCHANGED <<owner, log, toPublish, live, job>>
      /\ sock' = [sock EXCEPT ![s].ticket = t, ![s].sub = t]
      /\ pc' = [pc EXCEPT ![f] = "pipeline"]
      /\ opening' = opening \cup {[ticket |-> t, from |-> "greeting"]}
  BY DEF IInv, Greet, Moved, Opens, Goto
<1>2. /\ s \in Socket /\ sock[s].at # "idle" /\ t # 0 /\ owner[t] = job[f].by
      /\ Alive(s) => sock[s].owner = job[f].by
      /\ t \in 0 .. Len(owner)
  BY <1>1, Types DEF Safe, FramesOwn, JobSet
<1>3. /\ sock'[s] = [sock[s] EXCEPT !.ticket = t, !.sub = t]
      /\ sock'[s] \in SockSet(Len(owner), Len(log))
  <2>1. sock[s] \in SockSet(Len(owner), Len(log)) /\ s \in DOMAIN sock
    BY <1>1, <1>2, Types
  <2>2. sock'[s] = [sock[s] EXCEPT !.ticket = t, !.sub = t]
    BY <1>1, <2>1 DEF SockSet
  <2> HIDE DEF s, t
  <2>3. QED
    BY <1>2, <2>1, <2>2 DEF SockSet
<1>4. /\ sock'[s].at = sock[s].at /\ sock'[s].owner = sock[s].owner
      /\ sock'[s].ticket = t /\ sock'[s].sub = t /\ sock'[s].listed = sock[s].listed
      /\ \A r \in Socket \ {s} : sock'[r] = sock[r]
  BY <1>1, <1>2, <1>3, Types DEF SockSet
<1>5. pc'[f] = "pipeline" /\ \A g \in Frame \ {f} : pc'[g] = pc[g]
  BY <1>1, Types
<1>6. TypeOK'
  <2>1. sock' \in [Socket -> SockSet(Len(owner), Len(log))] /\ pc' \in [Frame -> Steps]
    BY <1>1, <1>2, <1>3, Types DEF Steps
  <2>2. opening' \subseteq OpeningSet(Len(owner))
    <3>1. t \in 1 .. Len(owner)
      BY <1>1, <1>2, Elements
    <3>2. QED
      BY <1>1, <3>1, Types DEF OpeningSet
  <2>3. QED
    BY <1>1, <2>1, <2>2, NextTypes, Types
<1> Safe /\ pc[f] = "greet" /\ UNCHANGED <<owner, log, toPublish, live, job>>
  BY <1>1
<1> HIDE DEF s, t
<1>7. SocketsOwn'
  BY <1>2, <1>4 DEF Safe, SocketsOwn, Alive
<1>8. FramesOwn'
  BY <1>4, <1>5 DEF Safe, FramesOwn, Alive
<1>9. ShownOwn'
  BY <1>4 DEF Safe, ShownOwn
<1>10. WrittenOwn' /\ PushedOnce'
  <2>1. "greeting" \notin Customer
    OBVIOUS
  <2>2. QED
    BY <1>1, <2>1 DEF Safe, WrittenOwn, PushedOnce, Message
<1>11. WaitsOnce'
  BY <1>5 DEF Safe, WaitsOnce
<1>12. QED
  BY <1>6, <1>7, <1>8, <1>9, <1>10, <1>11 DEF IInv, Safe

\* A frame that ends: what it held is gone.
LEMMA EndFrameIs ==
  ASSUME IInv, NEW f \in Frame, EndFrame(f)
  PROVE  /\ pc'[f] = "done" /\ \A g \in Frame \ {f} : pc'[g] = pc[g] /\ job'[g] = job[g]
         /\ pc' \in [Frame -> Steps] /\ job' \in [Frame -> JobSet(Len(owner), Len(log))]
<1>1. TypeOK /\ pc' = [pc EXCEPT ![f] = "done"] /\ job' = [job EXCEPT ![f] = NoJob]
  BY DEF IInv, EndFrame, Goto
<1>2. NoJob \in JobSet(Len(owner), Len(log))
  BY <1>1, Elements DEF NoJob, JobSet
<1>3. QED
  BY <1>1, <1>2, Types DEF Steps

LEMMA EndFrameKeeps ==
  ASSUME IInv, NEW f \in Frame, EndFrame(f), UNCHANGED <<owner, opening, log, toPublish, sock, live>>
  PROVE  IInv'
<1>1. TypeOK'
  BY EndFrameIs, Types DEF IInv, TypeOK, JobSet, Steps, Ticket, Message
<1>2. SocketsOwn' /\ ShownOwn' /\ WrittenOwn' /\ PushedOnce'
  BY DEF IInv, Safe, SocketsOwn, ShownOwn, WrittenOwn, PushedOnce, Alive, Message
<1>3. FramesOwn'
  BY EndFrameIs DEF IInv, Safe, FramesOwn, Alive
<1>4. WaitsOnce'
  BY EndFrameIs DEF IInv, Safe, WaitsOnce
<1>5. QED
  BY <1>1, <1>2, <1>3, <1>4 DEF IInv, Safe

\* ----- publishing --------------------------------------------------------
\* A message pushed nowhere before goes, once, to connections of its customer.
LEMMA PublishPushes ==
  ASSUME IInv, NEW m \in 1 .. Len(log), Publish(m), UNCHANGED <<owner, opening, log, sock>>,
         \A s \in Socket : \A i \in 1 .. Len(live[s]) : live[s][i] # m
  PROVE  /\ live' \in [Socket -> Seq(1 .. Len(log))]
         /\ \A s \in Socket : ~Alive(s) => live'[s] = live[s]
         /\ \A s \in Socket : \A i \in 1 .. Len(live'[s]) :
              \/ live'[s][i] = m
              \/ \E j \in 1 .. Len(live[s]) : live'[s][i] = live[s][j]
         /\ ShownOwn' /\ PushedOnce'
<1>1. TypeOK /\ Safe /\ live \in [Socket -> Seq(1 .. Len(log))]
  BY Types DEF IInv
<1>2. \A s \in Socket : live'[s] = IF Push(s, m) THEN Append(live[s], m) ELSE live[s]
  BY DEF Publish
<1>3. ASSUME NEW s \in Socket, Push(s, m)
      PROVE  /\ live'[s] \in Seq(1 .. Len(log)) /\ Len(live'[s]) = Len(live[s]) + 1
             /\ \A i \in 1 .. Len(live[s]) : live'[s][i] = live[s][i]
             /\ live'[s][Len(live[s]) + 1] = m
  <2>1. live[s] \in Seq(1 .. Len(log)) /\ live'[s] = Append(live[s], m)
    BY <1>1, <1>2, <1>3
  <2>2. QED
    BY <2>1, AppendProperties
<1>4. ASSUME NEW s \in Socket, Push(s, m)
      PROVE  owner[log[m].ticket] = sock[s].owner
  <2>1. /\ log[m] \in EntrySet(Len(owner)) /\ Len(owner) \in Nat
        /\ Alive(s) /\ sock[s].sub = log[m].ticket
    BY <1>1, <1>4, Elements DEF Push, Listens
  <2>2. sock[s].sub # 0
    BY <2>1 DEF EntrySet
  <2>3. QED
    BY <1>1, <2>1, <2>2 DEF Safe, SocketsOwn
<1>5. live' \in [Socket -> Seq(1 .. Len(log))]
  BY <1>1, <1>2, <1>3 DEF Publish
<1>6. \A s \in Socket : ~Alive(s) => live'[s] = live[s]
  BY <1>2 DEF Push
<1>7. ASSUME NEW s \in Socket, NEW i \in 1 .. Len(live'[s])
      PROVE  \/ i \in 1 .. Len(live[s]) /\ live'[s][i] = live[s][i]
             \/ Push(s, m) /\ i = Len(live[s]) + 1 /\ live'[s][i] = m
  <2>1. Len(live[s]) \in Nat
    BY <1>1, Elements
  <2>2. CASE Push(s, m)
    BY <1>3, <1>7, <2>1, <2>2
  <2>3. CASE ~Push(s, m)
    BY <1>2, <1>7, <2>3
  <2>4. QED
    BY <2>2, <2>3
<1>8. ShownOwn'
  <2>1. \A s \in Socket : \A n \in sock[s].listed : owner[log[n].ticket] = sock[s].owner
    BY <1>1 DEF Safe, ShownOwn
  <2>2. ASSUME NEW s \in Socket, NEW i \in 1 .. Len(live'[s])
        PROVE  owner[log[live'[s][i]].ticket] = sock[s].owner
    BY <1>1, <1>4, <1>7, <2>2 DEF Safe, ShownOwn
  <2>3. QED
    BY <2>1, <2>2 DEF ShownOwn
<1>9. PushedOnce'
  <2> SUFFICES ASSUME NEW s \in Socket, NEW i \in 1 .. Len(live'[s]),
                      NEW j \in 1 .. Len(live'[s]), live'[s][i] = live'[s][j]
               PROVE  i = j
    BY DEF PushedOnce
  <2>1. Len(live[s]) \in Nat /\ \A k \in 1 .. Len(live[s]) : live[s][k] # m
    BY <1>1, Elements
  <2>2. \/ i \in 1 .. Len(live[s]) /\ live'[s][i] = live[s][i]
        \/ i = Len(live[s]) + 1 /\ live'[s][i] = m
    BY <1>7
  <2>3. \/ j \in 1 .. Len(live[s]) /\ live'[s][j] = live[s][j]
        \/ j = Len(live[s]) + 1 /\ live'[s][j] = m
    BY <1>7
  <2>4. i \in 1 .. Len(live[s]) /\ j \in 1 .. Len(live[s]) /\ live[s][i] = live[s][j] => i = j
    BY <1>1 DEF Safe, PushedOnce
  <2>5. QED
    BY <2>1, <2>2, <2>3, <2>4
<1>10. QED
  BY <1>5, <1>6, <1>7, <1>8, <1>9

LEMMA TellKeeps == ASSUME IInv, NEW f \in Frame, Tell(f) PROVE IInv'
<1> DEFINE m == job[f].message
<1>1. /\ TypeOK /\ Safe /\ pc[f] = "tell" /\ Publish(m) /\ EndFrame(f)
      /\ UNCHANGED <<owner, opening, log, toPublish, sock>>
  BY DEF IInv, Tell
<1>2. /\ m \in 1 .. Len(log) /\ log[m].from = "pipeline"
      /\ \A s \in Socket : \A i \in 1 .. Len(live[s]) : live[s][i] # m
  BY <1>1, Types, Elements DEF Safe, WaitsOnce, JobSet
<1>3. m \notin toPublish
  BY <1>1, <1>2 DEF Safe, WaitsOnce
<1> HIDE DEF m
<1>4. /\ live' \in [Socket -> Seq(1 .. Len(log))]
      /\ \A s \in Socket : ~Alive(s) => live'[s] = live[s]
      /\ \A s \in Socket : \A i \in 1 .. Len(live'[s]) :
           live'[s][i] = m \/ \E j \in 1 .. Len(live[s]) : live'[s][i] = live[s][j]
      /\ ShownOwn' /\ PushedOnce'
  BY <1>1, <1>2, PublishPushes
<1>5. /\ pc'[f] = "done" /\ \A g \in Frame \ {f} : pc'[g] = pc[g] /\ job'[g] = job[g]
      /\ pc' \in [Frame -> Steps] /\ job' \in [Frame -> JobSet(Len(owner), Len(log))]
  BY <1>1, EndFrameIs
<1>6. TypeOK'
  BY <1>1, <1>4, <1>5, Types DEF TypeOK, JobSet, Steps, Ticket, Message
<1>7. SocketsOwn' /\ WrittenOwn'
  BY <1>1, <1>4 DEF Safe, SocketsOwn, WrittenOwn, Alive, Message
<1>8. FramesOwn'
  BY <1>1, <1>5 DEF Safe, FramesOwn, Alive
<1>9. WaitsOnce'
  <2>1. \A g \in Frame : pc'[g] = "tell" => g # f /\ pc[g] = "tell" /\ job'[g] = job[g] /\ job[g].message # m
    BY <1>1, <1>5 DEF Safe, WaitsOnce, m
  <2>2. ASSUME NEW s \in Socket, NEW i \in 1 .. Len(live'[s])
        PROVE  /\ live'[s][i] \notin toPublish
               /\ \A g \in Frame : pc'[g] = "tell" => job'[g].message # live'[s][i]
    <3>1. \A j \in 1 .. Len(live[s]) :
            /\ live[s][j] \notin toPublish
            /\ \A g \in Frame : pc[g] = "tell" => job[g].message # live[s][j]
      BY <1>1 DEF Safe, WaitsOnce
    <3>2. live'[s][i] = m \/ \E j \in 1 .. Len(live[s]) : live'[s][i] = live[s][j]
      BY <1>4
    <3>3. QED
      BY <1>3, <2>1, <3>1, <3>2
  <2>3. QED
    BY <1>1, <2>1, <2>2 DEF Safe, WaitsOnce
<1>10. QED
  BY <1>4, <1>6, <1>7, <1>8, <1>9 DEF IInv, Safe

LEMMA AgentPublishesKeeps == ASSUME IInv, AgentPublishes PROVE IInv'
<1>1. TypeOK /\ Safe /\ UNCHANGED <<owner, opening, log, sock, pc, job>>
  BY DEF IInv, AgentPublishes
<1>2. PICK m \in toPublish : toPublish' = toPublish \ {m} /\ Publish(m)
  BY DEF AgentPublishes
<1>3. /\ m \in 1 .. Len(log) /\ log[m].from = "agent"
      /\ \A s \in Socket : \A i \in 1 .. Len(live[s]) : live[s][i] # m
  BY <1>1, Types DEF Safe, WaitsOnce
<1>4. /\ live' \in [Socket -> Seq(1 .. Len(log))]
      /\ \A s \in Socket : ~Alive(s) => live'[s] = live[s]
      /\ \A s \in Socket : \A i \in 1 .. Len(live'[s]) :
           live'[s][i] = m \/ \E j \in 1 .. Len(live[s]) : live'[s][i] = live[s][j]
      /\ ShownOwn' /\ PushedOnce'
  BY <1>1, <1>2, <1>3, PublishPushes
<1>5. TypeOK'
  BY <1>1, <1>2, <1>4, Types DEF TypeOK, Ticket, Message
<1>6. SocketsOwn' /\ WrittenOwn'
  BY <1>1, <1>4 DEF Safe, SocketsOwn, WrittenOwn, Alive, Message
<1>7. FramesOwn'
  BY <1>1 DEF Safe, FramesOwn, Alive
<1>8. WaitsOnce'
  <2>1. \A g \in Frame : pc[g] = "tell" => job[g].message # m
    BY <1>1, <1>3 DEF Safe, WaitsOnce
  <2>2. ASSUME NEW s \in Socket, NEW i \in 1 .. Len(live'[s])
        PROVE  /\ live'[s][i] \notin toPublish'
               /\ \A g \in Frame : pc[g] = "tell" => job[g].message # live'[s][i]
    <3>1. \A j \in 1 .. Len(live[s]) :
            /\ live[s][j] \notin toPublish
            /\ \A g \in Frame : pc[g] = "tell" => job[g].message # live[s][j]
      BY <1>1 DEF Safe, WaitsOnce
    <3>2. live'[s][i] = m \/ \E j \in 1 .. Len(live[s]) : live'[s][i] = live[s][j]
      BY <1>4
    <3>3. QED
      BY <1>2, <2>1, <3>1, <3>2
  <2>3. QED
    BY <1>1, <1>2, <2>2 DEF Safe, WaitsOnce
<1>9. QED
  BY <1>4, <1>5, <1>6, <1>7, <1>8 DEF IInv, Safe

\* ----- storing -----------------------------------------------------------
\* Rows are only added, so what was said of a row stays true.
Grows ==
  /\ Len(owner) <= Len(owner') /\ Len(log) <= Len(log')
  /\ \A t \in 1 .. Len(owner) : owner'[t] = owner[t]
  /\ \A m \in 1 .. Len(log) : log'[m] = log[m]

\* A step that adds rows and leaves the connections alone.
LEMMA GrowthKeeps ==
  ASSUME IInv, owner' \in Seq(Customer), log' \in Seq(EntrySet(Len(owner'))), Grows,
         UNCHANGED <<sock, live>>
  PROVE  /\ sock' \in [Socket -> SockSet(Len(owner'), Len(log'))]
         /\ live' \in [Socket -> Seq(1 .. Len(log'))]
         /\ job \in [Frame -> JobSet(Len(owner'), Len(log'))]
         /\ toPublish \subseteq 1 .. Len(log')
         /\ opening \subseteq OpeningSet(Len(owner'))
         /\ SocketsOwn' /\ ShownOwn' /\ PushedOnce'
<1>1. /\ TypeOK /\ Safe /\ Len(owner) \in Nat /\ Len(log) \in Nat
      /\ Len(owner') \in Nat /\ Len(log') \in Nat
      /\ Len(owner) <= Len(owner') /\ Len(log) <= Len(log')
  BY Elements DEF IInv, Grows
<1>2. /\ SockSet(Len(owner), Len(log)) \subseteq SockSet(Len(owner'), Len(log'))
      /\ JobSet(Len(owner), Len(log)) \subseteq JobSet(Len(owner'), Len(log'))
      /\ Seq(1 .. Len(log)) \subseteq Seq(1 .. Len(log'))
      /\ 1 .. Len(log) \subseteq 1 .. Len(log')
      /\ OpeningSet(Len(owner)) \subseteq OpeningSet(Len(owner'))
  BY <1>1, Wider
<1>3. /\ sock \in [Socket -> SockSet(Len(owner), Len(log))]
      /\ live \in [Socket -> Seq(1 .. Len(log))]
      /\ job \in [Frame -> JobSet(Len(owner), Len(log))]
      /\ toPublish \subseteq 1 .. Len(log) /\ opening \subseteq OpeningSet(Len(owner))
  BY <1>1, Types
<1>4. /\ sock' \in [Socket -> SockSet(Len(owner'), Len(log'))]
      /\ live' \in [Socket -> Seq(1 .. Len(log'))]
      /\ job \in [Frame -> JobSet(Len(owner'), Len(log'))]
      /\ toPublish \subseteq 1 .. Len(log') /\ opening \subseteq OpeningSet(Len(owner'))
  BY <1>2, <1>3
<1>5. SocketsOwn'
  <2>1. \A s \in Socket : sock[s].ticket \in 0 .. Len(owner) /\ sock[s].sub \in 0 .. Len(owner)
    BY <1>3 DEF SockSet
  <2>2. \A s \in Socket : /\ sock[s].ticket # 0 => owner'[sock[s].ticket] = owner[sock[s].ticket]
                          /\ sock[s].sub # 0 => owner'[sock[s].sub] = owner[sock[s].sub]
    BY <1>1, <2>1 DEF Grows
  <2>3. QED
    BY <1>1, <2>2 DEF Safe, SocketsOwn, Alive
<1>6. ShownOwn'
  <2>1. \A n \in 1 .. Len(log) : owner'[log'[n].ticket] = owner[log[n].ticket]
    BY <1>1, Elements DEF Grows, EntrySet
  <2>2. \A s \in Socket : sock[s].listed \subseteq 1 .. Len(log)
    BY <1>3 DEF SockSet
  <2>3. \A s \in Socket : \A i \in 1 .. Len(live[s]) : live[s][i] \in 1 .. Len(log)
    BY <1>1, Elements
  <2>4. QED
    BY <1>1, <2>1, <2>2, <2>3 DEF Safe, ShownOwn
<1>7. PushedOnce'
  BY <1>1 DEF Safe, PushedOnce
<1>8. QED
  BY <1>4, <1>5, <1>6, <1>7

\* One message more, on a ticket, by its customer or by one of us.
LEMMA StoreGrows ==
  ASSUME IInv, NEW t \in 1 .. Len(owner),
         NEW from \in Customer \cup {"pipeline", "agent"},
         from \in Customer => owner[t] = from, Store(t, from), UNCHANGED <<owner, opening>>
  PROVE  /\ Grows /\ log' \in Seq(EntrySet(Len(owner'))) /\ owner' \in Seq(Customer)
         /\ Len(log') = Len(log) + 1
         /\ log'[Len(log) + 1] = [ticket |-> t, from |-> from]
         /\ WrittenOwn'
<1>1. /\ TypeOK /\ Safe /\ Len(owner) \in Nat /\ Len(log) \in Nat
      /\ owner \in Seq(Customer) /\ log \in Seq(EntrySet(Len(owner)))
  BY Elements, Types DEF IInv
<1> DEFINE row == [ticket |-> t, from |-> from]
<1>2. row \in EntrySet(Len(owner)) /\ log' = Append(log, row)
  BY DEF EntrySet, Store
<1>3. row.ticket = t /\ row.from = from
  OBVIOUS
<1> HIDE DEF row
<1>4. /\ log' \in Seq(EntrySet(Len(owner))) /\ Len(log') = Len(log) + 1
      /\ \A i \in 1 .. Len(log) : log'[i] = log[i]
      /\ log'[Len(log) + 1] = row
  BY <1>1, <1>2, AppendProperties
<1>5. Grows
  BY <1>1, <1>4 DEF Grows
<1>6. WrittenOwn'
  <2> SUFFICES ASSUME NEW m \in 1 .. Len(log'), log'[m].from \in Customer
               PROVE  owner[log'[m].ticket] = log'[m].from
    BY <1>1 DEF Safe, WrittenOwn, Message
  <2>1. CASE m \in 1 .. Len(log)
    BY <1>1, <1>4, <2>1 DEF Safe, WrittenOwn, Message
  <2>2. CASE m = Len(log) + 1
    BY <1>3, <1>4, <2>2
  <2>3. QED
    BY <1>1, <1>4, <2>1, <2>2
<1>7. QED
  BY <1>1, <1>4, <1>5, <1>6 DEF row

LEMMA AgentStoresKeeps == ASSUME IInv, AgentStores PROVE IInv'
<1>1. /\ TypeOK /\ Safe /\ UNCHANGED <<owner, opening, sock, live, pc, job>>
      /\ toPublish' = toPublish \cup {Len(log) + 1}
  BY DEF IInv, AgentStores
<1>2. PICK t \in 1 .. Len(owner) : Store(t, "agent")
  BY DEF AgentStores, Ticket
<1>3. /\ Grows /\ log' \in Seq(EntrySet(Len(owner'))) /\ owner' \in Seq(Customer)
      /\ Len(log') = Len(log) + 1 /\ log'[Len(log) + 1] = [ticket |-> t, from |-> "agent"]
      /\ WrittenOwn'
  BY <1>1, <1>2, StoreGrows
<1>4. /\ sock' \in [Socket -> SockSet(Len(owner'), Len(log'))]
      /\ live' \in [Socket -> Seq(1 .. Len(log'))]
      /\ job \in [Frame -> JobSet(Len(owner'), Len(log'))]
      /\ toPublish \subseteq 1 .. Len(log') /\ opening \subseteq OpeningSet(Len(owner'))
      /\ SocketsOwn' /\ ShownOwn' /\ PushedOnce'
  BY <1>1, <1>3, GrowthKeeps
<1>5. Len(log) \in Nat
  BY <1>1, Elements
<1>6. TypeOK'
  <2>1. pc \in [Frame -> Steps] /\ Len(log) + 1 \in 1 .. Len(log')
    BY <1>1, <1>3, <1>5, Types
  <2>2. QED
    BY <1>1, <1>3, <1>4, <2>1, NextTypes
<1> Safe /\ UNCHANGED <<owner, opening, sock, live, pc, job>>
  BY <1>1
<1>7. FramesOwn'
  BY DEF Safe, FramesOwn, Alive
<1>8. WaitsOnce'
  <2>1. \A m \in toPublish' : log'[m].from = "agent"
    <3>1. log'[Len(log) + 1].from = "agent"
      BY <1>3
    <3>2. \A m \in toPublish : log'[m] = log[m] /\ log[m].from = "agent"
      BY <1>1, <1>3, Types DEF Safe, WaitsOnce, Grows
    <3>3. QED
      BY <1>1, <3>1, <3>2
  <2>2. \A f \in Frame : job[f].message \in 0 .. Len(log)
    BY <1>1, Types DEF JobSet
  <2>3. \A f \in Frame : pc[f] = "tell" =>
          job[f].message # 0 /\ log'[job[f].message].from = "pipeline"
    BY <1>1, <1>3, <1>5, <2>2 DEF Safe, WaitsOnce, Grows
  <2>4. \A s \in Socket : \A i \in 1 .. Len(live[s]) : live[s][i] \notin toPublish'
    BY <1>1, <1>5, Elements DEF Safe, WaitsOnce
  <2>5. QED
    BY <1>1, <2>1, <2>3, <2>4 DEF Safe, WaitsOnce
<1>9. QED
  BY <1>3, <1>4, <1>6, <1>7, <1>8 DEF IInv, Safe

LEMMA Working ==
  ASSUME IInv, NEW f \in Frame, pc[f] \notin {"idle", "done"}
  PROVE  /\ job[f].sock \in Socket /\ job[f].by \in Customer
         /\ pc[f] # "create" => /\ job[f].ticket \in 1 .. Len(owner)
                                /\ owner[job[f].ticket] = job[f].by
<1>1. job[f] \in JobSet(Len(owner), Len(log)) /\ Len(owner) \in Nat
  BY Types, Elements DEF IInv
<1>2. job[f].ticket \in 0 .. Len(owner)
  BY <1>1 DEF JobSet
<1>3. QED
  BY <1>1, <1>2 DEF IInv, Safe, FramesOwn

LEMMA ReceiveKeeps == ASSUME IInv, NEW f \in Frame, Receive(f) PROVE IInv'
<1>1. /\ TypeOK /\ Safe /\ pc[f] = "receive" /\ UNCHANGED <<owner, opening, toPublish, sock, live>>
  BY DEF IInv, Receive
<1>2. CASE EndFrame(f) /\ UNCHANGED log
  BY <1>1, <1>2, EndFrameKeeps
<1>3. CASE Store(job[f].ticket, job[f].by) /\ Goto(f, "pipeline") /\ UNCHANGED job
  <2> DEFINE t == job[f].ticket
             c == job[f].by
  <2>1. t \in 1 .. Len(owner) /\ c \in Customer /\ owner[t] = c
    BY <1>1, Working
  <2>2. UNCHANGED job /\ pc'[f] = "pipeline" /\ pc' \in [Frame -> Steps]
        /\ \A g \in Frame \ {f} : pc'[g] = pc[g]
    BY <1>1, <1>3, Types DEF Goto, Steps
  <2>3. /\ Grows /\ log' \in Seq(EntrySet(Len(owner'))) /\ owner' \in Seq(Customer)
        /\ Len(log') = Len(log) + 1 /\ WrittenOwn'
    BY <1>1, <1>3, <2>1, StoreGrows
  <2>4. /\ sock' \in [Socket -> SockSet(Len(owner'), Len(log'))]
        /\ live' \in [Socket -> Seq(1 .. Len(log'))]
        /\ job \in [Frame -> JobSet(Len(owner'), Len(log'))]
        /\ toPublish \subseteq 1 .. Len(log') /\ opening \subseteq OpeningSet(Len(owner'))
        /\ SocketsOwn' /\ ShownOwn' /\ PushedOnce'
    BY <1>1, <2>3, GrowthKeeps
  <2>5. TypeOK'
    BY <1>1, <2>2, <2>3, <2>4, NextTypes
  <2>6. FramesOwn'
    BY <1>1, <2>2 DEF Safe, FramesOwn, Alive
  <2>7. WaitsOnce'
    <3>1. \A m \in toPublish : log'[m] = log[m]
      BY <1>1, <2>3, Types DEF Grows
    <3>2. \A g \in Frame : pc'[g] = "tell" => pc[g] = "tell" /\ log'[job[g].message] = log[job[g].message]
      BY <1>1, <2>2, <2>3, Types, Elements DEF Safe, WaitsOnce, Grows, JobSet
    <3>3. QED
      BY <1>1, <2>2, <3>1, <3>2 DEF Safe, WaitsOnce
  <2>8. QED
    BY <2>3, <2>4, <2>5, <2>6, <2>7 DEF IInv, Safe
<1>4. QED
  BY <1>2, <1>3 DEF Receive

LEMMA StoreFirstKeeps == ASSUME IInv, NEW f \in Frame, StoreFirst(f) PROVE IInv'
<1> DEFINE t == job[f].ticket
           c == job[f].by
           row == [ticket |-> t, from |-> c]
<1>1. /\ TypeOK /\ Safe /\ pc[f] = "first" /\ UNCHANGED <<owner, log, toPublish, sock, live, job>>
      /\ opening' = opening \cup {row} /\ pc' = [pc EXCEPT ![f] = "greet"]
  BY DEF IInv, StoreFirst, Opens, Goto
<1>2. t \in 1 .. Len(owner) /\ c \in Customer /\ owner[t] = c
  BY <1>1, Working
<1>3. row \in OpeningSet(Len(owner)) /\ row.ticket = t /\ row.from = c
  BY <1>2 DEF OpeningSet
<1> HIDE DEF row, t, c
<1>4. pc' \in [Frame -> Steps] /\ pc'[f] = "greet" /\ \A g \in Frame \ {f} : pc'[g] = pc[g]
  BY <1>1, Types DEF Steps
<1>5. TypeOK'
  BY <1>1, <1>3, <1>4, Types, NextTypes
<1>6. WrittenOwn'
  BY <1>1, <1>2, <1>3 DEF Safe, WrittenOwn, Message
<1>7. SocketsOwn' /\ ShownOwn' /\ PushedOnce'
  BY <1>1 DEF Safe, SocketsOwn, ShownOwn, PushedOnce, Alive
<1>8. FramesOwn'
  BY <1>1, <1>4 DEF Safe, FramesOwn, Alive
<1>9. WaitsOnce'
  BY <1>1, <1>4 DEF Safe, WaitsOnce
<1>10. QED
  BY <1>5, <1>6, <1>7, <1>8, <1>9 DEF IInv, Safe

\* The answer or the fallback: a message nobody else waits to publish.
LEMMA StoreAnswerKeeps ==
  ASSUME IInv, NEW f \in Frame, pc[f] \in {"pipeline", "tell"},
         NEW from \in {"auto", "fallback"}, StoreAnswer(f, from)
  PROVE  IInv'
<1> DEFINE t == job[f].ticket
<1>1. /\ TypeOK /\ Safe /\ UNCHANGED <<owner, opening, toPublish, sock, live>> /\ Store(t, "pipeline")
      /\ job' = [job EXCEPT ![f].message = Len(log) + 1, ![f].from = from]
      /\ pc' = [pc EXCEPT ![f] = "tell"]
  BY DEF IInv, StoreAnswer, Goto
<1>2. t \in 1 .. Len(owner) /\ Len(log) \in Nat
  BY <1>1, Working, Elements
<1>3. /\ Grows /\ log' \in Seq(EntrySet(Len(owner'))) /\ owner' \in Seq(Customer)
      /\ Len(log') = Len(log) + 1
      /\ log'[Len(log) + 1] = [ticket |-> t, from |-> "pipeline"]
      /\ WrittenOwn'
  BY <1>1, <1>2, StoreGrows
<1>4. /\ sock' \in [Socket -> SockSet(Len(owner'), Len(log'))]
      /\ live' \in [Socket -> Seq(1 .. Len(log'))]
      /\ job \in [Frame -> JobSet(Len(owner'), Len(log'))]
      /\ toPublish \subseteq 1 .. Len(log') /\ opening \subseteq OpeningSet(Len(owner'))
      /\ SocketsOwn' /\ ShownOwn' /\ PushedOnce'
  BY <1>1, <1>3, GrowthKeeps
<1>5. /\ job'[f] = [job[f] EXCEPT !.message = Len(log) + 1, !.from = from]
      /\ \A g \in Frame \ {f} : job'[g] = job[g] /\ pc'[g] = pc[g]
      /\ pc'[f] = "tell" /\ pc' \in [Frame -> Steps]
  BY <1>1, Types DEF Steps, JobSet
<1>6. /\ job'[f].sock = job[f].sock /\ job'[f].by = job[f].by /\ job'[f].ticket = job[f].ticket
      /\ job'[f].message = Len(log) + 1 /\ job'[f] \in JobSet(Len(owner'), Len(log'))
  <2>1. job[f] \in JobSet(Len(owner'), Len(log')) /\ Len(log) + 1 \in 0 .. Len(log')
    BY <1>2, <1>3, <1>4
  <2>2. QED
    BY <1>5, <2>1 DEF JobSet
<1>7. TypeOK'
  <2>1. job' \in [Frame -> JobSet(Len(owner'), Len(log'))]
    BY <1>1, <1>4, <1>6
  <2>2. QED
    BY <1>1, <1>3, <1>4, <1>5, <2>1, NextTypes
<1>8. FramesOwn'
  <2>1. \A g \in Frame \ {f} : pc'[g] = pc[g] /\ job'[g] = job[g]
    BY <1>5
  <2>2. UNCHANGED <<owner, sock>> /\ FramesOwn
    BY <1>1 DEF Safe
  <2>3. QED
    BY <1>6, <2>1, <2>2 DEF FramesOwn, Alive
<1>9. WaitsOnce'
  <2> WaitsOnce /\ UNCHANGED <<toPublish, live>>
    BY <1>1 DEF Safe
  <2>0. pc'[f] = "tell" /\ \A g \in Frame \ {f} : job'[g] = job[g] /\ pc'[g] = pc[g]
    BY <1>5
  <2>1. /\ toPublish \subseteq 1 .. Len(log) /\ \A g \in Frame : job[g].message \in 0 .. Len(log)
        /\ \A s \in Socket : \A i \in 1 .. Len(live[s]) : live[s][i] \in 1 .. Len(log)
    BY <1>1, Types, Elements DEF JobSet
  <2>2. \A m \in toPublish : log'[m] = log[m] /\ m # Len(log) + 1
    BY <1>2, <1>3, <2>1 DEF Grows
  <2>3. \A g \in Frame \ {f} : pc'[g] = "tell" =>
          /\ pc[g] = "tell" /\ job'[g].message = job[g].message
          /\ job[g].message \in 1 .. Len(log) /\ job[g].message # Len(log) + 1
          /\ log'[job[g].message].from = "pipeline"
    BY <1>2, <1>3, <2>0, <2>1 DEF WaitsOnce, Grows
  <2>4. job'[f].message = Len(log) + 1 /\ Len(log) + 1 # 0 /\ log'[Len(log) + 1].from = "pipeline"
    BY <1>2, <1>3, <1>6
  <2>5. \A s \in Socket : \A i \in 1 .. Len(live[s]) : live[s][i] # Len(log) + 1
    BY <1>2, <2>1
  <2>6. /\ \A m \in toPublish' : log'[m].from = "agent"
        /\ \A g \in Frame : pc'[g] = "tell" =>
             job'[g].message # 0 /\ log'[job'[g].message].from = "pipeline"
    BY <2>2, <2>3, <2>4 DEF WaitsOnce
  <2>7. \A g, h \in Frame :
          pc'[g] = "tell" /\ pc'[h] = "tell" /\ job'[g].message = job'[h].message => g = h
    BY <2>3, <2>4 DEF WaitsOnce
  <2>8. \A s \in Socket : \A i \in 1 .. Len(live[s]) :
          /\ live[s][i] \notin toPublish
          /\ \A g \in Frame : pc'[g] = "tell" => job'[g].message # live[s][i]
    BY <2>3, <2>4, <2>5 DEF WaitsOnce
  <2>9. QED
    BY <2>6, <2>7, <2>8 DEF WaitsOnce
<1>10. QED
  BY <1>3, <1>4, <1>7, <1>8, <1>9 DEF IInv, Safe

\* A ticket more, with no message yet.
LEMMA InsertTicketKeeps == ASSUME IInv, NEW f \in Frame, InsertTicket(f) PROVE IInv'
<1> DEFINE t == Len(owner) + 1
           c == job[f].by
<1>1. /\ TypeOK /\ Safe /\ pc[f] = "create" /\ UNCHANGED <<opening, log, toPublish, sock, live>>
      /\ owner' = Append(owner, c)
      /\ job' = [job EXCEPT ![f].ticket = t] /\ pc' = [pc EXCEPT ![f] = "first"]
  BY DEF IInv, InsertTicket, Goto
<1>2. /\ c \in Customer /\ Len(owner) \in Nat /\ Len(log) \in Nat
      /\ owner \in Seq(Customer) /\ log \in Seq(EntrySet(Len(owner)))
  BY <1>1, Types, Elements DEF Safe, FramesOwn
<1>3. /\ owner' \in Seq(Customer) /\ Len(owner') = t /\ owner'[t] = c
      /\ \A u \in 1 .. Len(owner) : owner'[u] = owner[u]
  BY <1>1, <1>2, AppendProperties
<1>6. log' \in Seq(EntrySet(t))
  BY <1>1, <1>2, Wider
<1> HIDE DEF t, c
<1>7. t = Len(owner) + 1 /\ t \in Nat /\ t # 0
  BY <1>2 DEF t
<1>8. Grows
  BY <1>1, <1>2, <1>3, <1>7 DEF Grows
<1>9. /\ sock' \in [Socket -> SockSet(Len(owner'), Len(log'))]
      /\ live' \in [Socket -> Seq(1 .. Len(log'))]
      /\ job \in [Frame -> JobSet(Len(owner'), Len(log'))]
      /\ toPublish \subseteq 1 .. Len(log') /\ opening \subseteq OpeningSet(Len(owner'))
      /\ SocketsOwn' /\ ShownOwn' /\ PushedOnce'
  BY <1>1, <1>3, <1>6, <1>8, GrowthKeeps
<1>10. /\ job'[f] = [job[f] EXCEPT !.ticket = t]
       /\ \A g \in Frame \ {f} : job'[g] = job[g] /\ pc'[g] = pc[g]
       /\ pc'[f] = "first" /\ pc' \in [Frame -> Steps]
  BY <1>1, Types DEF Steps, JobSet
<1>11. /\ job'[f].sock = job[f].sock /\ job'[f].by = job[f].by /\ job'[f].ticket = t
       /\ job'[f] \in JobSet(Len(owner'), Len(log'))
  <2>1. job[f] \in JobSet(Len(owner'), Len(log')) /\ t \in 0 .. Len(owner')
    BY <1>3, <1>7, <1>9
  <2>2. QED
    BY <1>10, <2>1 DEF JobSet
<1>12. TypeOK'
  <2>1. job' \in [Frame -> JobSet(Len(owner'), Len(log'))]
    BY <1>1, <1>9, <1>11
  <2>2. QED
    BY <1>1, <1>3, <1>6, <1>9, <1>10, <2>1, NextTypes
<1>13. WrittenOwn'
  <2>1. \A row \in opening : row.ticket \in 1 .. Len(owner)
    BY <1>1, Types DEF OpeningSet
  <2>2. QED
    BY <1>1, <1>3, <2>1, Elements DEF Safe, WrittenOwn, Message, EntrySet
<1>14. FramesOwn'
  <2>1. ASSUME NEW g \in Frame \ {f}, pc[g] \notin {"idle", "done", "create"}
        PROVE  owner'[job[g].ticket] = job[g].by
    <3>1. job[g].ticket \in 1 .. Len(owner)
      BY <1>1, <1>2, <2>1, Types DEF Safe, FramesOwn, JobSet
    <3>2. QED
      BY <1>1, <1>3, <2>1, <3>1 DEF Safe, FramesOwn
  <2>2. job'[f].ticket # 0 /\ owner'[job'[f].ticket] = job'[f].by
    BY <1>3, <1>7, <1>11 DEF c
  <2>3. UNCHANGED sock /\ FramesOwn /\ pc[f] = "create"
    BY <1>1 DEF Safe
  <2>4. \A g \in Frame \ {f} : job'[g] = job[g] /\ pc'[g] = pc[g]
    BY <1>10
  <2>5. /\ job'[f].sock = job[f].sock /\ job'[f].by = job[f].by
    BY <1>11
  <2>6. ASSUME NEW g \in Frame, pc'[g] \notin {"idle", "done"}
        PROVE  /\ job'[g].sock \in Socket /\ job'[g].by \in Customer
               /\ sock[job'[g].sock].at # "idle"
               /\ Alive(job'[g].sock) => sock[job'[g].sock].owner = job'[g].by
               /\ pc'[g] # "create" => job'[g].ticket # 0 /\ owner'[job'[g].ticket] = job'[g].by
    BY <2>1, <2>2, <2>3, <2>4, <2>5, <2>6 DEF FramesOwn
  <2>7. QED
    BY <2>3, <2>6 DEF FramesOwn, Alive
<1>15. WaitsOnce'
  <2>1. \A m \in toPublish : log'[m] = log[m]
    BY <1>1, <1>8, Types DEF Grows
  <2>2. \A g \in Frame : pc'[g] = "tell" =>
          pc[g] = "tell" /\ job'[g] = job[g] /\ log'[job[g].message] = log[job[g].message]
    BY <1>1, <1>2, <1>8, <1>10, Types DEF Safe, WaitsOnce, Grows, JobSet
  <2>3. WaitsOnce /\ UNCHANGED <<toPublish, live>>
    BY <1>1 DEF Safe
  <2>4. QED
    BY <2>1, <2>2, <2>3 DEF WaitsOnce
<1>16. QED
  BY <1>9, <1>12, <1>13, <1>14, <1>15 DEF IInv, Safe

\* ----- every step --------------------------------------------------------
LEMMA StepKeeps == IInv /\ [Next]_vars => IInv'
<1> SUFFICES ASSUME IInv, [Next]_vars PROVE IInv'
  OBVIOUS
<1>1. CASE UNCHANGED vars
  BY <1>1 DEF vars, IInv, Safe, TypeOK, SocketsOwn, FramesOwn, ShownOwn, WrittenOwn,
              WaitsOnce, PushedOnce, Alive, Ticket, Message
<1>2. ASSUME NEW s \in Socket, Connection(s) PROVE IInv'
  BY <1>2, ConnectKeeps, ReplayKeeps, CloseKeeps DEF Connection
<1>3. ASSUME NEW f \in Frame, Handle(f) PROVE IInv'
  <2>1. CASE Silent(f)
    BY <2>1, EndFrameKeeps DEF Silent
  <2>2. CASE Answer(f) \/ SendThrows(f)
    BY <2>2, StoreAnswerKeeps DEF Answer, SendThrows
  <2>3. QED
    BY <1>3, <2>1, <2>2, InsertTicketKeeps, StoreFirstKeeps, GreetKeeps, ReceiveKeeps, TellKeeps DEF Handle
<1>4. QED
  BY <1>1, <1>2, <1>3, ArriveKeeps, AgentStoresKeeps, AgentPublishesKeeps, CrashKeeps DEF Next

\* ----- theorems ----------------------------------------------------------
\* Whatever connections, frames, agents and crashes do, in any order, the
\* rows, connections and requests stay well formed.
THEOREM TypeCorrect == Spec => []TypeOK
<1>1. IInv => TypeOK
  BY DEF IInv
<1>2. QED
  BY <1>1, InitIInv, StepKeeps, PTL DEF Spec

\* No customer is ever shown a message of a ticket that is not his, nor has one
\* of his written into one: the subscription of a connection and the ticket of
\* a frame in flight follow one customer through createTicketWithPipeline,
\* onTicketCreated and a close in between.
THEOREM ChatKeepsCustomersApart == Spec => []CustomersStayApart
<1>1. IInv => CustomersStayApart
  <2> SUFFICES ASSUME IInv PROVE CustomersStayApart
    OBVIOUS
  <2>1. \A s \in Socket : \A m \in Shown(s) : owner[log[m].ticket] = sock[s].owner
    BY DEF IInv, Safe, ShownOwn, Shown
  <2>2. QED
    BY <2>1 DEF IInv, Safe, WrittenOwn, CustomersStayApart
<1>2. QED
  BY <1>1, InitIInv, StepKeeps, PTL DEF Spec

\* customerThreadBus never hands one published message to a connection twice:
\* each waits to be published in one request only.
THEOREM ChatPushesOnce == Spec => []PushedOnce
<1>1. IInv => PushedOnce
  BY DEF IInv, Safe
<1>2. QED
  BY <1>1, InitIInv, StepKeeps, PTL DEF Spec

\* ----- who hears what is published ---------------------------------------
\* An open connection listens where it writes; a frame in flight keeps its
\* connection off "listed", and on some ticket once it has one itself.
OpenListens == \A s \in Socket : sock[s].at = "open" => sock[s].sub = sock[s].ticket
FramesHeard ==
  \A f \in Frame : pc[f] \notin {"idle", "done"} =>
    /\ sock[job[f].sock].at \in {"open", "gone"}
    /\ pc[f] \in {"receive", "pipeline", "tell"} /\ sock[job[f].sock].at = "open"
         => sock[job[f].sock].ticket # 0
HearInv == OpenListens /\ FramesHeard

\* What a step of a connection leaves of the others.
LEMMA SockSteps ==
  ASSUME IInv, HearInv, NEW s \in Socket, Connection(s)
  PROVE  HearInv'
<1>1. TypeOK /\ Safe /\ UNCHANGED <<pc, job>> /\ sock \in [Socket -> SockSet(Len(owner), Len(log))]
  BY Types DEF IInv, Connection, Connect, Replay, Close
<1>2. ASSUME NEW r \in Socket \ {s} PROVE sock'[r] = sock[r]
  BY <1>1 DEF Connection, Connect, Replay, Close
<1>3. sock'[s].at = "open" => sock'[s].sub = sock'[s].ticket
  <2>1. CASE Connect(s)
    BY <1>1, <2>1 DEF Connect, NoSocket
  <2>2. CASE Replay(s)
    BY <1>1, <2>2 DEF Replay, SockSet
  <2>3. CASE Close(s)
    BY <1>1, <2>3 DEF Close, NoSocket
  <2>4. QED
    BY <2>1, <2>2, <2>3 DEF Connection
<1>4. sock[s].at \in {"open", "gone"} => sock'[s].at = "gone"
  BY <1>1 DEF Connection, Connect, Replay, Close, Alive, NoSocket
<1>5. OpenListens'
  BY <1>2, <1>3 DEF HearInv, OpenListens
<1>6. FramesHeard'
  <2>1. FramesHeard /\ FramesOwn /\ UNCHANGED <<pc, job>>
    BY <1>1 DEF HearInv, Safe
  <2>2. QED
    BY <1>2, <1>4, <2>1 DEF FramesHeard, FramesOwn
<1>7. QED
  BY <1>5, <1>6 DEF HearInv

\* A step of one frame that leaves the connections alone.
LEMMA FrameSteps ==
  ASSUME HearInv, NEW f \in Frame, UNCHANGED sock,
         \A g \in Frame \ {f} : pc'[g] = pc[g] /\ job'[g] = job[g],
         \/ pc'[f] = "done"
         \/ /\ sock[job'[f].sock].at \in {"open", "gone"}
            /\ pc'[f] \in {"receive", "pipeline", "tell"} /\ sock[job'[f].sock].at = "open"
                 => sock[job'[f].sock].ticket # 0
  PROVE  HearInv'
BY DEF HearInv, OpenListens, FramesHeard

LEMMA HearStep == IInv /\ HearInv /\ [Next]_vars => HearInv'
<1> SUFFICES ASSUME IInv, HearInv, [Next]_vars PROVE HearInv'
  OBVIOUS
<1>0. TypeOK /\ Safe /\ OpenListens /\ FramesHeard /\ pc \in [Frame -> Steps]
      /\ job \in [Frame -> JobSet(Len(owner), Len(log))]
      /\ sock \in [Socket -> SockSet(Len(owner), Len(log))]
  BY Types DEF IInv, HearInv
<1>1. CASE UNCHANGED vars \/ AgentStores \/ AgentPublishes
  <2>1. UNCHANGED <<sock, pc, job>>
    BY <1>1 DEF vars, AgentStores, AgentPublishes
  <2>2. QED
    BY <2>1 DEF HearInv, OpenListens, FramesHeard
<1>2. CASE Crash
  BY <1>2 DEF Crash, HearInv, OpenListens, FramesHeard, NoSocket
<1>3. ASSUME NEW f \in Frame, Arrive(f) PROVE HearInv'
  <2>1. PICK s \in Socket :
          /\ sock[s].at = "open" /\ UNCHANGED sock
          /\ job' = [job EXCEPT ![f] = [NoJob EXCEPT !.sock = s, !.by = sock[s].owner,
                                                     !.ticket = sock[s].ticket]]
          /\ pc' = [pc EXCEPT ![f] = IF sock[s].ticket = 0 THEN "create" ELSE "receive"]
    BY <1>3 DEF Arrive, Goto
  <2>2. /\ job'[f].sock = s /\ pc'[f] = IF sock[s].ticket = 0 THEN "create" ELSE "receive"
        /\ \A g \in Frame \ {f} : pc'[g] = pc[g] /\ job'[g] = job[g]
    BY <1>0, <2>1 DEF NoJob
  <2>3. QED
    BY <2>1, <2>2, FrameSteps
<1>4. ASSUME NEW f \in Frame, Greet(f) PROVE HearInv'
  <2> DEFINE s == job[f].sock
             t == job[f].ticket
  <2>1. /\ pc[f] = "greet" /\ UNCHANGED job
        /\ sock' = [sock EXCEPT ![s].ticket = t, ![s].sub = t]
        /\ pc' = [pc EXCEPT ![f] = "pipeline"]
    BY <1>4 DEF Greet, Moved, Goto
  <2>2. s \in Socket /\ t # 0
    BY <1>0, <2>1, Working, Elements
  <2>3. /\ sock'[s].at = sock[s].at /\ sock'[s].ticket = t /\ sock'[s].sub = t
        /\ \A r \in Socket \ {s} : sock'[r] = sock[r]
    BY <1>0, <2>1, <2>2 DEF SockSet
  <2>4. pc'[f] = "pipeline" /\ \A g \in Frame \ {f} : pc'[g] = pc[g]
    BY <1>0, <2>1
  <2>5. pc[f] = "greet" /\ UNCHANGED job /\ FramesOwn
    BY <1>0, <2>1 DEF Safe
  <2> HIDE DEF t
  <2>6. QED
    BY <1>0, <2>2, <2>3, <2>4, <2>5 DEF HearInv, OpenListens, FramesHeard, FramesOwn
<1>5. ASSUME NEW f \in Frame, EndFrame(f), UNCHANGED sock PROVE HearInv'
  BY <1>5, EndFrameIs, FrameSteps
<1>6. ASSUME NEW f \in Frame, InsertTicket(f) \/ StoreFirst(f) PROVE HearInv'
  <2>1. /\ pc[f] \in {"create", "first"} /\ pc'[f] \in {"first", "greet"}
        /\ UNCHANGED sock /\ job'[f].sock = job[f].sock
        /\ \A g \in Frame \ {f} : pc'[g] = pc[g] /\ job'[g] = job[g]
    <3>1. CASE InsertTicket(f)
      BY <1>0, <3>1 DEF InsertTicket, Goto, JobSet
    <3>2. CASE StoreFirst(f)
      BY <1>0, <3>2 DEF StoreFirst, Goto
    <3>3. QED
      BY <1>6, <3>1, <3>2
  <2>2. QED
    BY <1>0, <2>1, FrameSteps DEF FramesHeard
<1>7. ASSUME NEW f \in Frame, pc[f] = "receive", Goto(f, "pipeline"), UNCHANGED <<sock, job>>
      PROVE  HearInv'
  <2>1. pc'[f] = "pipeline" /\ \A g \in Frame \ {f} : pc'[g] = pc[g]
    BY <1>0, <1>7 DEF Goto
  <2>2. QED
    BY <1>0, <1>7, <2>1, FrameSteps DEF FramesHeard
<1>8. ASSUME NEW f \in Frame, pc[f] \in {"pipeline", "tell"}, NEW from, StoreAnswer(f, from)
      PROVE  HearInv'
  <2>1. /\ pc'[f] = "tell" /\ UNCHANGED sock /\ job'[f].sock = job[f].sock
        /\ \A g \in Frame \ {f} : pc'[g] = pc[g] /\ job'[g] = job[g]
    BY <1>0, <1>8 DEF StoreAnswer, Goto, JobSet
  <2>2. QED
    BY <1>0, <1>8, <2>1, FrameSteps DEF FramesHeard
<1>9. ASSUME NEW f \in Frame, Handle(f) PROVE HearInv'
  <2>1. CASE Receive(f)
    BY <1>5, <1>7, <2>1 DEF Receive
  <2>2. CASE Silent(f) \/ Tell(f)
    BY <1>5, <2>2 DEF Silent, Tell
  <2>3. CASE Answer(f) \/ SendThrows(f)
    BY <1>8, <2>3 DEF Answer, SendThrows
  <2>4. QED
    BY <1>4, <1>6, <1>9, <2>1, <2>2, <2>3 DEF Handle
<1>10. QED
  BY <1>1, <1>2, <1>3, <1>9, SockSteps DEF Next

\* The message a frame is about to publish is on the frame's ticket.
AnswersOwn ==
  \A f \in Frame : pc[f] = "tell" =>
    job[f].message \in 1 .. Len(log) /\ log[job[f].message].ticket = job[f].ticket

LEMMA LogGrows ==
  ASSUME IInv, [Next]_vars
  PROVE  Len(log') \in Nat /\ Len(log) <= Len(log') /\ \A m \in 1 .. Len(log) : log'[m] = log[m]
<1>1. Len(log) \in Nat /\ Len(log') \in Nat /\ log \in Seq(EntrySet(Len(owner)))
  BY StepKeeps, Elements, Types DEF IInv
<1>2. CASE UNCHANGED log
  BY <1>1, <1>2
<1>3. ASSUME NEW row, log' = Append(log, row)
      PROVE  Len(log) <= Len(log') /\ \A m \in 1 .. Len(log) : log'[m] = log[m]
  BY <1>1, <1>3
<1>5. ASSUME NEW s \in Socket, Connection(s) PROVE UNCHANGED log
  BY <1>5 DEF Connection, Connect, Replay, Close
<1>6. ASSUME NEW f \in Frame, Arrive(f) \/ Handle(f)
      PROVE  \/ UNCHANGED log
             \/ \E row : log' = Append(log, row)
  BY <1>6 DEF Arrive, Handle, InsertTicket, StoreFirst, Greet, Receive, Answer, SendThrows, StoreAnswer,
              Silent, Tell, Store
<1>7. AgentStores => \E row : log' = Append(log, row)
  BY DEF AgentStores, Store
<1>8. AgentPublishes \/ Crash \/ UNCHANGED vars => UNCHANGED log
  BY DEF AgentPublishes, Crash, vars
<1>9. QED
  BY <1>1, <1>2, <1>3, <1>5, <1>6, <1>7, <1>8 DEF Next

\* A frame about to publish was so before, or has just stored what it publishes.
LEMMA Tellers ==
  ASSUME IInv, [Next]_vars, NEW f \in Frame, pc'[f] = "tell"
  PROVE  \/ pc[f] = "tell" /\ job'[f] = job[f]
         \/ pc[f] \in {"pipeline", "tell"} /\ \E from : StoreAnswer(f, from)
<1>1. pc \in [Frame -> Steps] /\ job \in [Frame -> JobSet(Len(owner), Len(log))]
  BY Types DEF IInv
<1>2. UNCHANGED <<pc, job>> => pc[f] = "tell" /\ job'[f] = job[f]
  OBVIOUS
<1>3. ASSUME NEW s \in Socket, Connection(s) PROVE UNCHANGED <<pc, job>>
  BY <1>3 DEF Connection, Connect, Replay, Close
<1>4. ASSUME NEW g \in Frame, Arrive(g) \/ Handle(g), g # f
      PROVE  pc[f] = "tell" /\ job'[f] = job[f]
  <2>1. pc'[f] = pc[f]
    BY <1>1, <1>4 DEF Arrive, Handle, InsertTicket, StoreFirst, Greet, Receive, Answer, SendThrows,
                      StoreAnswer, Silent, Tell, EndFrame, Goto
  <2>2. job'[f] = job[f]
    BY <1>1, <1>4 DEF Arrive, Handle, InsertTicket, StoreFirst, Greet, Receive, Answer, SendThrows,
                      StoreAnswer, Silent, Tell, EndFrame
  <2>3. QED
    BY <2>1, <2>2
<1>5. ASSUME Arrive(f) \/ InsertTicket(f) \/ StoreFirst(f) \/ Greet(f) \/ Receive(f) \/ Silent(f) \/ Tell(f)
      PROVE  pc'[f] # "tell"
  BY <1>1, <1>5 DEF Arrive, InsertTicket, StoreFirst, Greet, Receive, Silent, Tell, EndFrame, Goto
<1>6. Answer(f) \/ SendThrows(f) => pc[f] \in {"pipeline", "tell"} /\ \E from : StoreAnswer(f, from)
  BY DEF Answer, SendThrows
<1>7. AgentStores \/ AgentPublishes \/ UNCHANGED vars => UNCHANGED <<pc, job>>
  BY DEF AgentStores, AgentPublishes, vars
<1>8. Crash => pc'[f] # "tell"
  BY DEF Crash
<1>9. QED
  BY <1>2, <1>3, <1>4, <1>5, <1>6, <1>7, <1>8 DEF Next, Handle

LEMMA AnswersStep == IInv /\ AnswersOwn /\ [Next]_vars => AnswersOwn'
<1> SUFFICES ASSUME IInv, AnswersOwn, [Next]_vars, NEW f \in Frame, pc'[f] = "tell"
             PROVE  /\ job'[f].message \in 1 .. Len(log')
                    /\ log'[job'[f].message].ticket = job'[f].ticket
  BY DEF AnswersOwn
<1>1. CASE pc[f] = "tell" /\ job'[f] = job[f]
  <2>1. Len(log) \in Nat
    BY Elements DEF IInv
  <2>2. QED
    BY <1>1, <2>1, LogGrows DEF AnswersOwn
<1>2. ASSUME NEW from, StoreAnswer(f, from), pc[f] \in {"pipeline", "tell"}
      PROVE  /\ job'[f].message \in 1 .. Len(log')
             /\ log'[job'[f].message].ticket = job'[f].ticket
  <2>1. /\ log' = Append(log, [ticket |-> job[f].ticket, from |-> "pipeline"])
        /\ job' = [job EXCEPT ![f].message = Len(log) + 1, ![f].from = from]
    BY <1>2 DEF StoreAnswer, Store
  <2>2. job'[f].message = Len(log) + 1 /\ job'[f].ticket = job[f].ticket
    BY <2>1, Types DEF IInv, JobSet
  <2>3. /\ Len(log') = Len(log) + 1 /\ Len(log) \in Nat
        /\ log'[Len(log) + 1] = [ticket |-> job[f].ticket, from |-> "pipeline"]
    BY <2>1, Types, Elements DEF IInv
  <2>4. QED
    BY <2>2, <2>3
<1>3. QED
  BY <1>1, <1>2, Tellers

\* What is published in a step that is no crash is published on the bus.
LEMMA Publishing ==
  ASSUME IInv, [Next]_vars, NEW m \in Published, ~Crash
  PROVE  Publish(m) /\ UNCHANGED <<sock, log>>
<1>1. pc \in [Frame -> Steps]
  BY Types DEF IInv
<1>2. UNCHANGED <<toPublish, pc>> => m \notin Published
  BY DEF Published, Told
<1>3. ASSUME NEW s \in Socket, Connection(s) PROVE UNCHANGED <<toPublish, pc>>
  BY <1>3 DEF Connection, Connect, Replay, Close
<1>4. ASSUME NEW f \in Frame,
             \/ Arrive(f) \/ InsertTicket(f) \/ StoreFirst(f) \/ Greet(f) \/ Receive(f)
             \/ Silent(f) \/ Answer(f) \/ SendThrows(f)
      PROVE  m \notin Published
  <2>1. UNCHANGED toPublish
    BY <1>4 DEF Arrive, InsertTicket, StoreFirst, Greet, Receive, Silent, Answer, SendThrows, StoreAnswer
  <2>2. \A g \in Frame : pc[g] = "tell" => pc'[g] # "done"
    BY <1>1, <1>4 DEF Arrive, InsertTicket, StoreFirst, Greet, Receive, Silent, Answer, SendThrows,
                      StoreAnswer, EndFrame, Goto
  <2>3. QED
    BY <2>1, <2>2 DEF Published, Told
<1>5. ASSUME NEW f \in Frame, Tell(f) PROVE Publish(m) /\ UNCHANGED <<sock, log>>
  <2>1. /\ UNCHANGED <<toPublish, sock, log>> /\ Publish(job[f].message)
        /\ pc' = [pc EXCEPT ![f] = "done"]
    BY <1>5 DEF Tell, EndFrame, Goto
  <2>2. Told \subseteq {f}
    BY <1>1, <2>1 DEF Told
  <2>3. QED
    BY <2>1, <2>2 DEF Published
<1>6. AgentStores => UNCHANGED pc /\ toPublish \subseteq toPublish'
  BY DEF AgentStores
<1>7. AgentPublishes => Publish(m) /\ UNCHANGED <<sock, log>>
  BY DEF AgentPublishes, Published, Told
<1>8. UNCHANGED vars => UNCHANGED <<toPublish, pc>>
  BY DEF vars
<1>9. AgentStores => m \notin Published
  BY <1>6 DEF Published, Told
<1>10. QED
  BY <1>2, <1>3, <1>4, <1>5, <1>7, <1>8, <1>9 DEF Next, Handle

LEMMA PushShows ==
  ASSUME IInv, NEW m, Publish(m), NEW s \in Socket, Push(s, m)
  PROVE  m \in Shown(s)'
<1>1. live'[s] = Append(live[s], m) /\ live[s] \in Seq(1 .. Len(log))
  BY Types DEF IInv, Publish
<1>2. Len(live[s]) + 1 \in 1 .. Len(live'[s]) /\ live'[s][Len(live[s]) + 1] = m
  BY <1>1
<1>3. QED
  BY <1>2 DEF Shown

ChatInv == IInv /\ HearInv /\ AnswersOwn

LEMMA ChatInductive == (Init => ChatInv) /\ (ChatInv /\ [Next]_vars => ChatInv')
<1>1. Init => HearInv /\ AnswersOwn
  BY DEF Init, HearInv, OpenListens, FramesHeard, AnswersOwn, NoSocket
<1>2. QED
  BY <1>1, InitIInv, StepKeeps, HearStep, AnswersStep DEF ChatInv

\* An open chat on a ticket hears every message of the ticket published while
\* it stays open, whoever wrote it and whichever frames moved the chat there.
THEOREM ChatHears == Spec => OpenChatHears
<1>1. ASSUME ChatInv, [Next]_vars, NEW m \in Published, NEW s \in Socket,
             sock[s].at = "open", sock'[s].at = "open", sock[s].ticket = log[m].ticket
      PROVE  m \in Shown(s)'
  <2>1. ~Crash
    BY <1>1 DEF Crash, NoSocket
  <2>2. Publish(m)
    BY <1>1, <2>1, Publishing DEF ChatInv
  <2>3. Push(s, m)
    BY <1>1 DEF ChatInv, HearInv, OpenListens, Push, Listens, Alive
  <2>4. QED
    BY <1>1, <2>2, <2>3, PushShows DEF ChatInv
<1>2. ChatInv /\ [Next]_vars =>
        [\A m \in Published : \A s \in Socket :
           sock[s].at = "open" /\ sock'[s].at = "open" /\ sock[s].ticket = log[m].ticket
             => m \in Shown(s)']_vars
  BY <1>1
<1>3. QED
  BY <1>2, ChatInductive, PTL DEF Spec, OpenChatHears

\* The answer to a frame is shown by the connection the frame came from, if it
\* is still there and no other frame moved it to another ticket.
THEOREM ChatAnswersTheAsker == Spec => AnswerComesBack
<1>1. ASSUME ChatInv, [Next]_vars, NEW f \in Told, NEW s \in Socket,
             job[f].sock = s, Alive(s)', sock[s].ticket \in {0, job[f].ticket}
      PROVE  Hears(f, s)
  <2> DEFINE m == job[f].message
  <2>1. ~Crash
    BY <1>1 DEF Crash, NoSocket, Alive
  <2>2. m \in Published /\ f \in Frame /\ pc[f] = "tell"
    BY <1>1 DEF Published, Told
  <2>3. Publish(m) /\ UNCHANGED sock
    BY <1>1, <2>1, <2>2, Publishing DEF ChatInv
  <2>4. sock[s].at = "open" /\ sock[s].ticket = log[m].ticket
    BY <1>1, <2>2, <2>3 DEF ChatInv, HearInv, FramesHeard, AnswersOwn, Alive
  <2>5. Push(s, m)
    BY <2>4, <1>1 DEF ChatInv, HearInv, OpenListens, Push, Listens, Alive
  <2>6. QED
    BY <1>1, <2>3, <2>5, PushShows DEF ChatInv, Hears
<1>2. ChatInv /\ [Next]_vars =>
        [\A f \in Told, s \in Socket :
           job[f].sock = s /\ Alive(s)' /\ sock[s].ticket \in {0, job[f].ticket}
             => Hears(f, s)]_vars
  BY <1>1
<1>3. QED
  BY <1>2, ChatInductive, PTL DEF Spec, AnswerComesBack
=============================================================================
