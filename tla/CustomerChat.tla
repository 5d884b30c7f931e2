---------------------------- MODULE CustomerChat ----------------------------
(***************************************************************************)
(* The portal's chat: the sockets customers open, the frames they send,    *)
(* the pipelines those start, and the bus that carries a sent message to   *)
(* the socket that watches its ticket (customerChatServer,                 *)
(* customerThreadBus, usePortalSocket; ticketIntake and ticketThread as    *)
(* far as a socket sees them).                                             *)
(*                                                                         *)
(* A message is stored first and published two queries later; a socket     *)
(* lists the thread first and subscribes when the answer is back.  What a  *)
(* pipeline decides is left open here: TicketThread has it.                *)
(***************************************************************************)
EXTENDS Naturals, Sequences, FiniteSets

CONSTANTS
  Customer,    \* verified customers of one org
  Socket,      \* connections
  Frame,       \* the frames they send
  MaxReplies   \* bound: agents write so many messages

ASSUME ChatBounds == MaxReplies \in Nat
ASSUME ChatNames == Customer \cap {"nobody", "greeting", "pipeline", "agent"} = {}

VARIABLES
  owner,     \* the tickets rows: the customer of each
  opening,   \* the rows a ticket begins with, which are stored and never published
  log,       \* the other ticket_messages rows of all tickets, oldest first
  toPublish, \* the messages an agent's request has stored and not yet published
  sock,      \* sock[s]: what the server holds of connection s
  live,      \* live[s]: the messages pushed to s as they were published
  pc,        \* pc[f]: what the handling of frame f does next
  job        \* job[f]: its local variables

vars == <<owner, opening, log, toPublish, sock, live, pc, job>>

Ticket == 1 .. Len(owner)
Message == 1 .. Len(log)
Thread(t) == {m \in Message : log[m].ticket = t}

\* A socket: the ticket_id of its token, the ticket it writes to (0: none yet),
\* the ticket whose channel it listens on, the messages it replayed.
NoSocket == [at |-> "idle", owner |-> "nobody",
             ticket |-> 0, sub |-> 0, listed |-> {}]
NoJob == [sock |-> "none", by |-> "nobody", ticket |-> 0, message |-> 0, from |-> "none"]

Alive(s) == sock[s].at \in {"listed", "open"}

Opens(t, from) == opening' = opening \cup {[ticket |-> t, from |-> from]}
Store(t, from) == log' = Append(log, [ticket |-> t, from |-> from])

Goto(f, step) == pc' = [pc EXCEPT ![f] = step]
EndFrame(f) == Goto(f, "done") /\ job' = [job EXCEPT ![f] = NoJob]

\* ----- the bus -----------------------------------------------------------
\* Mutant: one channel for all tickets.
ListensMutant(s, m) == sock[s].sub # 0
Listens(s, m) == sock[s].sub = log[m].ticket

\* sendMessageFrame drops what a closed socket cannot take; the
\* status text is not modelled.
Push(s, m) == Listens(s, m) /\ Alive(s)

Publish(m) ==
  live' = [s \in Socket |-> IF Push(s, m) THEN Append(live[s], m) ELSE live[s]]

\* ----- a connection ------------------------------------------------------
\* The token names the customer and, when it was issued for a ticket, the
\* ticket, whose thread is then listed.  Without one the handlers are
\* registered at once.
Connect(s) ==
  /\ sock[s].at = "idle"
  /\ \E c \in Customer : \E t \in {0} \cup {u \in Ticket : owner[u] = c} :
       sock' = [sock EXCEPT ![s] =
         [NoSocket EXCEPT !.at = IF t = 0 THEN "open" ELSE "listed",
                          !.owner = c, !.ticket = t, !.listed = Thread(t)]]
  /\ UNCHANGED <<owner, opening, log, toPublish, live, pc, job>>

\* Mutant: the replay is thought to be enough.
ReplayMutant(s) ==
  /\ sock[s].at = "listed"
  /\ sock' = [sock EXCEPT ![s].at = "open"]
  /\ UNCHANGED <<owner, opening, log, toPublish, live, pc, job>>

\* The replay, the subscription and the handlers.
Replay(s) ==
  /\ sock[s].at = "listed"
  /\ sock' = [sock EXCEPT ![s].at = "open", ![s].sub = sock[s].ticket]
  /\ UNCHANGED <<owner, opening, log, toPublish, live, pc, job>>

\* The page goes away, and what it showed with it.
Close(s) ==
  /\ Alive(s)
  /\ sock' = [sock EXCEPT ![s] = [NoSocket EXCEPT !.at = "gone"]]
  /\ live' = [live EXCEPT ![s] = << >>]
  /\ UNCHANGED <<owner, opening, log, toPublish, pc, job>>

\* ----- a frame -----------------------------------------------------------
\* Mutant: every frame is taken for one on an existing ticket.
ArriveMutant(f) ==
  /\ pc[f] = "idle"
  /\ \E s \in Socket :
       /\ sock[s].at = "open"
       /\ job' = [job EXCEPT ![f] =
            [NoJob EXCEPT !.sock = s, !.by = sock[s].owner, !.ticket = sock[s].ticket]]
       /\ Goto(f, "receive")
  /\ UNCHANGED <<owner, opening, log, toPublish, sock, live>>

\* A frame that comes before the handlers are registered is lost: no step.
Arrive(f) ==
  /\ pc[f] = "idle"
  /\ \E s \in Socket :
       /\ sock[s].at = "open"
       /\ job' = [job EXCEPT ![f] = [NoJob EXCEPT !.sock = s, !.by = sock[s].owner, !.ticket = sock[s].ticket]]
       /\ Goto(f, IF sock[s].ticket = 0 THEN "create" ELSE "receive")
  /\ UNCHANGED <<owner, opening, log, toPublish, sock, live>>

\* createTicketWithPipeline: the ticket, ...
InsertTicket(f) ==
  /\ pc[f] = "create"
  /\ owner' = Append(owner, job[f].by)
  /\ job' = [job EXCEPT ![f].ticket = Len(owner) + 1]
  /\ Goto(f, "first")
  /\ UNCHANGED <<opening, log, toPublish, sock, live>>

\* ... its first message, ...
StoreFirst(f) ==
  /\ pc[f] = "first"
  /\ Opens(job[f].ticket, job[f].by)
  /\ Goto(f, "greet")
  /\ UNCHANGED <<owner, log, toPublish, sock, live, job>>

\* Mutant: onTicketCreated tells the socket nothing.
MovedMutant(s, t) == sock
\* onTicketCreated: the socket moves to the ticket, a closed one too.
Moved(s, t) == [sock EXCEPT ![s].ticket = t, ![s].sub = t]

\* ... the greeting, and the callback.  What throws before ends the process, and
\* leaves the ticket with the rows it has.
Greet(f) ==
  /\ pc[f] = "greet"
  /\ Opens(job[f].ticket, "greeting")
  /\ sock' = Moved(job[f].sock, job[f].ticket)
  /\ Goto(f, "pipeline")
  /\ UNCHANGED <<owner, log, toPublish, live, job>>

\* receiveCustomerMessage stores the message or refuses it.
Receive(f) ==
  /\ pc[f] = "receive"
  /\ \/ Store(job[f].ticket, job[f].by) /\ Goto(f, "pipeline") /\ UNCHANGED job
     \/ EndFrame(f) /\ UNCHANGED log
  /\ UNCHANGED <<owner, opening, toPublish, sock, live>>

\* runIntakePipeline: it is sent an answer or a fallback, ...
StoreAnswer(f, from) ==
  /\ Store(job[f].ticket, "pipeline")
  /\ job' = [job EXCEPT ![f].message = Len(log) + 1, ![f].from = from]
  /\ Goto(f, "tell")
  /\ UNCHANGED <<owner, opening, toPublish, sock, live>>

Answer(f) == pc[f] = "pipeline" /\ \E from \in {"auto", "fallback"} : StoreAnswer(f, from)

\* ... the send throws after its insert and the fallback follows, ...
SendThrows(f) == pc[f] = "tell" /\ job[f].from = "auto" /\ StoreAnswer(f, "fallback")

\* ... or it is sent nothing: a draft waits for a person (only a status frame
\* says so), a person owns the ticket, or an error stays silent.
Silent(f) ==
  /\ pc[f] = "pipeline"
  /\ EndFrame(f)
  /\ UNCHANGED <<owner, opening, log, toPublish, sock, live>>

\* Mutant: the handler pushes the answer itself as well.
TellMutant(f) ==
  /\ pc[f] = "tell"
  /\ LET m == job[f].message
         s == job[f].sock
     IN live' = [r \in Socket |->
          live[r] \o (IF Push(r, m) THEN <<m>> ELSE << >>)
                  \o (IF r = s /\ Alive(s) THEN <<m>> ELSE << >>)]
  /\ EndFrame(f)
  /\ UNCHANGED <<owner, opening, log, toPublish, sock>>

\* publishSentMessage at the end of sendDraft or of the fallback.
Tell(f) ==
  /\ pc[f] = "tell"
  /\ Publish(job[f].message)
  /\ EndFrame(f)
  /\ UNCHANGED <<owner, opening, log, toPublish, sock>>

\* ----- the agents --------------------------------------------------------
\* sendManualReply or sendDraft for a person: stored, then published, or never
\* when an update in between throws.
AgentStores ==
  /\ Cardinality({m \in Message : log[m].from = "agent"}) < MaxReplies
  /\ \E t \in Ticket : Store(t, "agent")
  /\ toPublish' = toPublish \cup {Len(log) + 1}
  /\ UNCHANGED <<owner, opening, sock, live, pc, job>>

AgentPublishes ==
  /\ \E m \in toPublish :
       /\ toPublish' = toPublish \ {m}
       /\ Publish(m)
  /\ UNCHANGED <<owner, opening, log, sock, pc, job>>

\* Nothing handles a rejected handleConnection or handleClientMessage: a query
\* that throws outside the pipeline's try ends the process, with every connection
\* and request, as a deploy may at any moment.
Crash ==
  /\ sock' = [s \in Socket |->
       IF sock[s].at = "idle" THEN NoSocket ELSE [NoSocket EXCEPT !.at = "gone"]]
  /\ live' = [s \in Socket |-> << >>]
  /\ pc' = [f \in Frame |-> IF pc[f] = "idle" THEN "idle" ELSE "done"]
  /\ job' = [f \in Frame |-> NoJob]
  /\ toPublish' = {}
  /\ UNCHANGED <<owner, opening, log>>

\* A customer has a ticket already, from an earlier conversation.
Init ==
  /\ owner \in {<<c>> : c \in Customer}
  /\ opening = {[ticket |-> 1, from |-> from] : from \in {owner[1], "greeting"}}
  /\ log = << >>
  /\ toPublish = {}
  /\ sock = [s \in Socket |-> NoSocket]
  /\ live = [s \in Socket |-> << >>]
  /\ pc = [f \in Frame |-> "idle"]
  /\ job = [f \in Frame |-> NoJob]

Connection(s) == Connect(s) \/ Replay(s) \/ Close(s)
Handle(f) ==
  \/ InsertTicket(f) \/ StoreFirst(f) \/ Greet(f) \/ Receive(f)
  \/ Answer(f) \/ SendThrows(f) \/ Silent(f) \/ Tell(f)
Next ==
  \/ \E s \in Socket : Connection(s)
  \/ \E f \in Frame : Arrive(f) \/ Handle(f)
  \/ AgentStores \/ AgentPublishes \/ Crash

Spec == Init /\ [][Next]_vars

-----------------------------------------------------------------------------
\* ----- properties --------------------------------------------------------
Shown(s) == sock[s].listed \cup {live[s][i] : i \in 1 .. Len(live[s])}

\* Rows, connections and requests in flight are well formed.
TypeOK ==
  /\ owner \in Seq(Customer)
  /\ opening \subseteq [ticket : Ticket, from : Customer \cup {"greeting"}]
  /\ log \in Seq([ticket : Ticket, from : Customer \cup {"pipeline", "agent"}])
  /\ toPublish \subseteq Message
  /\ sock \in [Socket ->
       [at : {"idle", "listed", "open", "gone"}, owner : Customer \cup {"nobody"},
        ticket : 0 .. Len(owner), sub : 0 .. Len(owner), listed : SUBSET Message]]
  /\ live \in [Socket -> Seq(Message)]
  /\ pc \in [Frame -> {"idle", "done", "create", "first", "greet", "receive", "pipeline",
                   "tell"}]
  /\ job \in [Frame ->
       [sock : Socket \cup {"none"}, by : Customer \cup {"nobody"}, ticket : 0 .. Len(owner),
        message : 0 .. Len(log), from : {"none", "auto", "fallback"}]]

\* A customer never sees a message of another customer's ticket, and what he
\* writes never lands in one, through whichever socket, subscription or request
\* in flight.
CustomersStayApart ==
  /\ \A s \in Socket : \A m \in Shown(s) : owner[log[m].ticket] = sock[s].owner
  /\ \A row \in opening \cup {log[m] : m \in Message} :
       row.from \in Customer => owner[row.ticket] = row.from

\* A published message is pushed to a socket at most once, however often the
\* socket changed its ticket.
PushedOnce ==
  \A s \in Socket : \A i, j \in 1 .. Len(live[s]) : live[s][i] = live[s][j] => i = j

\* What a step publishes, for an agent or as the answers to frames (or gives up,
\* when the process ends).
Told == {f \in Frame : pc[f] = "tell" /\ pc'[f] = "done"}
Published == (toPublish \ toPublish') \cup {job[f].message : f \in Told}

\* An open chat that has its ticket hears every message of the ticket that is
\* published from then on, a person's reply hours later included, until it
\* closes or the process ends.
OpenChatHears ==
  [][\A m \in Published : \A s \in Socket :
       sock[s].at = "open" /\ sock'[s].at = "open" /\ sock[s].ticket = log[m].ticket
         => m \in Shown(s)']_vars

Hears(f, s) == job[f].message \in Shown(s)'

\* The answer to a frame reaches the open socket it came from: the chat is on
\* the frame's ticket by the time the pipeline publishes, unless a second frame
\* moved it to a ticket of its own.
AnswerComesBack ==
  [][\A f \in Told, s \in Socket :
       job[f].sock = s /\ Alive(s)' /\ sock[s].ticket \in {0, job[f].ticket}
         => Hears(f, s)]_vars

\* "guaranteed to be listening before an auto-send could possibly publish": an
\* auto-sent answer to a frame is pushed to the socket of the frame.
AutoSendIsHeard ==
  [][\A f \in Told, s \in Socket :
       job[f].sock = s /\ job[f].from = "auto" /\ Alive(s)'
         => Hears(f, s)]_vars
=============================================================================
