---------------------------- MODULE TicketThread ----------------------------
(***************************************************************************)
(* One ticket: its row, its thread and its drafts, with every handler that *)
(* writes them: ticket creation, the customer's and the agents' messages,  *)
(* triage, drafting, auto-send, resolve and close (services/ticketIntake,  *)
(* ticketThread, triage, draft), and the eval runner, which triages and    *)
(* drafts the seeded tickets of org_default (services/evalRunner).         *)
(* Tickets share no row, so one is enough.                                 *)
(*                                                                         *)
(* One step is one query together with the synchronous code after it; a    *)
(* model call belongs to the step that uses its answer.  Queries that only *)
(* read what no handler changes (customer, order, catalog, documents) and  *)
(* the run events have no step of their own.                               *)
(***************************************************************************)
EXTENDS Naturals, Sequences, FiniteSets

CONSTANTS
  Proc,        \* requests in flight
  Outcome,     \* what generateDraft may come up with
  MaxMessages, \* bound: no request starts on a thread of this length
  MaxDrafts,   \* bound: no request that drafts starts beyond so many drafts
  MaxFailures  \* bound: so many queries throw or crashes happen

\* The escalation template is always possible.
ASSUME OutcomeAssumption ==
  /\ Outcome \subseteq [resolution: {"answered", "escalated"}, gated: BOOLEAN]
  /\ [resolution |-> "escalated", gated |-> FALSE] \in Outcome

ASSUME BoundsAssumption == MaxMessages \in Nat /\ MaxDrafts \in Nat /\ MaxFailures \in Nat

VARIABLES
  ticket,     \* the tickets row: status, human (human_owned), triaged (triage is
              \* set); seeded: the id is one of the seed's
  thread,     \* the ticket_messages rows in the order of created_at
  drafts,     \* the drafts rows in the order of created_at
  runs,       \* the drafts with a row in agent_runs
  embedded,   \* the drafts with a row in resolution_embeddings
  failures,   \* how often a query threw or the server went down
  pc,         \* pc[p]: the query request p issues next
  job         \* job[p]: local variables of request p

vars == <<ticket, thread, drafts, runs, embedded, failures, pc, job>>

Status ==
  {"open", "in_progress", "awaiting_customer", "customer_replied", "resolved", "closed"}

NoTicket == [status |-> "absent", human |-> FALSE, triaged |-> FALSE, seeded |-> FALSE]
NewTicket == [status |-> "open", human |-> FALSE, triaged |-> FALSE, seeded |-> FALSE]
SeededTicket == [status |-> "open", human |-> FALSE, triaged |-> FALSE, seeded |-> TRUE]

\* Mutant: a status may also be entered again.
CanTransitionMutant(from, to) ==
  \/ from = to
  \/ <<from, to>> \in
       {<<"open", "in_progress">>, <<"in_progress", "awaiting_customer">>,
        <<"awaiting_customer", "customer_replied">>, <<"customer_replied", "in_progress">>}

\* The TRANSITIONS table.
CanTransition(from, to) ==
  <<from, to>> \in
    {<<"open", "in_progress">>,
     <<"in_progress", "awaiting_customer">>,
     <<"in_progress", "resolved">>,
     <<"awaiting_customer", "customer_replied">>,
     <<"awaiting_customer", "resolved">>,
     <<"customer_replied", "in_progress">>,
     <<"resolved", "closed">>,
     <<"resolved", "customer_replied">>}

\* Local variables: the status in the ticket row as it was read, the customer
\* message the draft answers (0: none) and the draft (0: none yet).
NoJob == [kind |-> "none", seen |-> "absent", answers |-> 0, draft |-> 0]
Job(kind, status) == [NoJob EXCEPT !.kind = kind, !.seen = status]

\* POST /tickets, a portal message, POST /:id/triage, POST /:id/draft-reply, an
\* eval case ...
PipelineKinds == {"create", "portal"}
DraftingKinds == PipelineKinds \cup {"draft", "eval"}
Kinds == DraftingKinds \cup {"simulated", "triage", "send", "reply", "resolve", "close"}

Go(p, step) == pc' = [pc EXCEPT ![p] = step]

Finish(p) ==
  /\ pc' = [pc EXCEPT ![p] = "idle"]
  /\ job' = [job EXCEPT ![p] = NoJob]

Customer == {"customer", "portal"}

\* insertMessage.  `from` also tells an auto-sent draft from one an agent sent.
Post(from, draft) == thread' = Append(thread, [from |-> from, draft |-> draft])

\* updateTicketStatus: an UPDATE that does not look at the present status.
SetStatus(status) == ticket' = [ticket EXCEPT !.status = status]

\* getLatestInboundMessage, as a position in the thread.
LatestInbound ==
  CHOOSE i \in 0..Len(thread) :
    /\ i > 0 => thread[i].from \in Customer
    /\ \A j \in i+1..Len(thread) : thread[j].from \notin Customer

\* The bounds on what starts, counting the greeting a seeded ticket lacks and the
\* drafts still to be generated.
Room(kind) ==
  /\ Len(thread) + (IF ticket.seeded THEN 1 ELSE 0) < MaxMessages
  /\ kind \in DraftingKinds =>
       Len(drafts) + Cardinality({q \in Proc : job[q].kind \in DraftingKinds /\ job[q].draft = 0})
         < MaxDrafts

-----------------------------------------------------------------------------
(* createTicketWithPipeline                                                *)

\* insertTicket, after the customer and the order were found in order.
CreateTicket(p) ==
  /\ pc[p] = "idle"
  /\ ticket = NoTicket
  /\ ticket' = NewTicket
  /\ Go(p, "first_message")
  /\ job' = [job EXCEPT ![p] = Job("create", NewTicket.status)]
  /\ UNCHANGED <<thread, drafts, runs, embedded, failures>>

FirstMessage(p) ==
  /\ pc[p] = "first_message"
  /\ Post("customer", 0)
  /\ Go(p, "greet")
  /\ UNCHANGED <<ticket, drafts, runs, embedded, failures, job>>

\* The greeting; the pipeline then starts on the row insertTicket returned.
Greet(p) ==
  /\ pc[p] = "greet"
  /\ Post("greeting", 0)
  /\ Go(p, "triage")
  /\ UNCHANGED <<ticket, drafts, runs, embedded, failures, job>>

-----------------------------------------------------------------------------
(* receiveCustomerMessage and simulateInbound                              *)

\* A message the table does not allow is dropped (portal) or answered 409.
StartInbound(p, kind) ==
  /\ pc[p] = "idle"
  /\ Room(kind)
  /\ CanTransition(ticket.status, "customer_replied")
  /\ Go(p, "inbound")
  /\ job' = [job EXCEPT ![p] = Job(kind, ticket.status)]
  /\ UNCHANGED <<ticket, thread, drafts, runs, embedded, failures>>

Inbound(p) ==
  /\ pc[p] = "inbound"
  /\ Post(IF job[p].kind = "portal" THEN "portal" ELSE "customer", 0)
  /\ Go(p, "set_replied")
  /\ UNCHANGED <<ticket, drafts, runs, embedded, failures, job>>

SetReplied(p) ==
  /\ pc[p] = "set_replied"
  /\ SetStatus("customer_replied")
  /\ IF job[p].kind = "portal" THEN Go(p, "start_pipeline") /\ UNCHANGED job ELSE Finish(p)
  /\ UNCHANGED <<thread, drafts, runs, embedded, failures>>

\* Mutant: the pipeline runs whoever owns the ticket.
StartPipelineMutant(p) ==
  /\ pc[p] = "start_pipeline"
  /\ Go(p, "triage")
  /\ job' = [job EXCEPT ![p].seen = ticket.status]
  /\ UNCHANGED <<ticket, thread, drafts, runs, embedded, failures>>

\* handleClientMessage reads the row again; runIntakePipeline stops at once on
\* a ticket a person owns.
StartPipeline(p) ==
  /\ pc[p] = "start_pipeline"
  /\ IF ticket.human
       THEN Finish(p)
       ELSE Go(p, "triage") /\ job' = [job EXCEPT ![p].seen = ticket.status]
  /\ UNCHANGED <<ticket, thread, drafts, runs, embedded, failures>>

-----------------------------------------------------------------------------
(* runTriage                                                               *)

\* The route: re-triage is always allowed.
StartTriage(p) ==
  /\ pc[p] = "idle"
  /\ Room("triage")
  /\ ticket # NoTicket
  /\ Go(p, "triage")
  /\ job' = [job EXCEPT ![p] = Job("triage", ticket.status)]
  /\ UNCHANGED <<ticket, thread, drafts, runs, embedded, failures>>

\* runOneCase: an eval case reads its ticket, triages and drafts it, whoever owns
\* it and whatever its status.
StartEval(p) ==
  /\ pc[p] = "idle"
  /\ Room("eval")
  /\ ticket.seeded
  /\ Go(p, "triage")
  /\ job' = [job EXCEPT ![p] = Job("eval", ticket.status)]
  /\ UNCHANGED <<ticket, thread, drafts, runs, embedded, failures>>

\* The model gave a valid classification: updateTicketTriage.
SaveTriage(p) ==
  /\ pc[p] = "triage"
  /\ ticket' = [ticket EXCEPT !.triaged = TRUE]
  /\ Go(p, IF CanTransition(job[p].seen, "in_progress") THEN "advance" ELSE "log_triage")
  /\ UNCHANGED <<thread, drafts, runs, embedded, failures, job>>

Advance(p) ==
  /\ pc[p] = "advance"
  /\ SetStatus("in_progress")
  /\ Go(p, "log_triage")
  /\ UNCHANGED <<thread, drafts, runs, embedded, failures, job>>

\* insertAgentRun; no handler reads the rows of triage runs.
LogTriage(p) ==
  /\ pc[p] = "log_triage"
  /\ IF job[p].kind \in DraftingKinds THEN Go(p, "reread") /\ UNCHANGED job ELSE Finish(p)
  /\ UNCHANGED <<ticket, thread, drafts, runs, embedded, failures>>

\* No valid classification after the retry.  The two status writes follow the
\* status that was read when the request came in.
TriageFails(p) ==
  /\ pc[p] = "triage"
  /\ Go(p, IF CanTransition(job[p].seen, "in_progress") THEN "fail_advance"
           ELSE IF CanTransition(job[p].seen, "awaiting_customer") THEN "fail_await"
           ELSE "triage_fallback")
  /\ UNCHANGED <<ticket, thread, drafts, runs, embedded, failures, job>>

FailAdvance(p) ==
  /\ pc[p] = "fail_advance"
  /\ SetStatus("in_progress")
  /\ Go(p, "fail_await")
  /\ job' = [job EXCEPT ![p].seen = "in_progress"]
  /\ UNCHANGED <<thread, drafts, runs, embedded, failures>>

FailAwait(p) ==
  /\ pc[p] = "fail_await"
  /\ SetStatus("awaiting_customer")
  /\ Go(p, "triage_fallback")
  /\ UNCHANGED <<thread, drafts, runs, embedded, failures, job>>

\* postPipelineFailureFallback
TriageFallback(p) ==
  /\ pc[p] = "triage_fallback"
  /\ Post("fallback", 0)
  /\ Go(p, "log_failed")
  /\ UNCHANGED <<ticket, drafts, runs, embedded, failures, job>>

LogFailed(p) ==
  /\ pc[p] = "log_failed"
  /\ Finish(p)
  /\ UNCHANGED <<ticket, thread, drafts, runs, embedded, failures>>

-----------------------------------------------------------------------------
(* generateDraft and auto-send                                             *)

\* The pipeline, and the eval case, read the row again, for its triage and
\* status only.
Reread(p) ==
  /\ pc[p] = "reread"
  /\ job' = [job EXCEPT ![p].seen = ticket.status]
  /\ Go(p, "read_thread")
  /\ UNCHANGED <<ticket, thread, drafts, runs, embedded, failures>>

\* The route: 409 without a triage and on a ticket a person owns.
StartDraft(p) ==
  /\ pc[p] = "idle"
  /\ Room("draft")
  /\ ticket.triaged
  /\ ~ ticket.human
  /\ Go(p, "read_thread")
  /\ job' = [job EXCEPT ![p] = Job("draft", ticket.status)]
  /\ UNCHANGED <<ticket, thread, drafts, runs, embedded, failures>>

ReadThread(p) ==
  /\ pc[p] = "read_thread"
  /\ job' = [job EXCEPT ![p].answers = LatestInbound]
  /\ Go(p, "insert_draft")
  /\ UNCHANGED <<ticket, thread, drafts, runs, embedded, failures>>

\* The model's draft passed the guardrails, or the escalation template took its
\* place (resolution escalated, no action).  No column tells the drafts of eval
\* cases from the others; `eval` only remembers it for the properties.
InsertDraft(p, outcome) ==
  /\ pc[p] = "insert_draft"
  /\ drafts' = Append(drafts,
       [answers |-> job[p].answers, resolution |-> outcome.resolution,
        gated |-> outcome.gated, status |-> "generated", eval |-> job[p].kind = "eval"])
  /\ job' = [job EXCEPT ![p].draft = Len(drafts) + 1, ![p].answers = 0]
  /\ Go(p, "log_draft")
  /\ UNCHANGED <<ticket, thread, runs, embedded, failures>>

\* Mutant: the exception is swallowed without a fallback.
DraftThrowsMutant(p) ==
  /\ pc[p] = "insert_draft"
  /\ Finish(p)
  /\ UNCHANGED <<ticket, thread, drafts, runs, embedded, failures>>

\* The model call of the draft or of the judge throws: the pipeline catches it
\* and posts the fallback, the route and the eval run answer 500.
DraftThrows(p) ==
  /\ pc[p] = "insert_draft"
  /\ IF job[p].kind \in PipelineKinds THEN Go(p, "fallback") /\ UNCHANGED job ELSE Finish(p)
  /\ UNCHANGED <<ticket, thread, drafts, runs, embedded, failures>>

Fallback(p) ==
  /\ pc[p] = "fallback"
  /\ Post("fallback", 0)
  /\ Finish(p)
  /\ UNCHANGED <<ticket, drafts, runs, embedded, failures>>

\* Mutant: a gated action does not keep a draft back.
AutoSendsMutant(draft) == draft.resolution = "answered"

\* evaluateAutoSend
AutoSends(draft) == draft.resolution = "answered" /\ ~ draft.gated

\* insertAgentRun.  An eval case stops here; for the others sendDraft checks the
\* row generateDraft was given.
LogDraft(p) ==
  /\ pc[p] = "log_draft"
  /\ runs' = runs \cup {job[p].draft}
  /\ IF /\ job[p].kind # "eval"
        /\ AutoSends(drafts[job[p].draft])
        /\ CanTransition(job[p].seen, "awaiting_customer")
       THEN Go(p, "send_message") /\ UNCHANGED job
       ELSE Finish(p)
  /\ UNCHANGED <<ticket, thread, drafts, embedded, failures>>

-----------------------------------------------------------------------------
(* sendDraft                                                               *)

\* Mutant: the draft is marked before its text is in the thread.
StartSendMutant(p, d) ==
  /\ pc[p] = "idle"
  /\ Room("send")
  /\ CanTransition(ticket.status, "awaiting_customer")
  /\ Go(p, "mark_sent")
  /\ job' = [job EXCEPT ![p] = [Job("send", ticket.status) EXCEPT !.draft = d]]
  /\ UNCHANGED <<ticket, thread, drafts, runs, embedded, failures>>

\* POST /drafts/:id/send looks at the ticket, not at the draft's status.
StartSend(p, d) ==
  /\ pc[p] = "idle"
  /\ Room("send")
  /\ CanTransition(ticket.status, "awaiting_customer")
  /\ Go(p, "send_message")
  /\ job' = [job EXCEPT ![p] = [Job("send", ticket.status) EXCEPT !.draft = d]]
  /\ UNCHANGED <<ticket, thread, drafts, runs, embedded, failures>>

SendMessage(p) ==
  /\ pc[p] = "send_message"
  /\ Post(IF job[p].kind = "send" THEN "draft" ELSE "auto", job[p].draft)
  /\ Go(p, "mark_sent")
  /\ UNCHANGED <<ticket, drafts, runs, embedded, failures, job>>

MarkSent(p) ==
  /\ pc[p] = "mark_sent"
  /\ drafts' = [drafts EXCEPT ![job[p].draft].status = "sent"]
  /\ Go(p, "set_awaiting")
  /\ UNCHANGED <<ticket, thread, runs, embedded, failures, job>>

SetAwaiting(p) ==
  /\ pc[p] = "set_awaiting"
  /\ SetStatus("awaiting_customer")
  /\ Finish(p)
  /\ UNCHANGED <<thread, drafts, runs, embedded, failures>>

-----------------------------------------------------------------------------
(* sendManualReply                                                         *)

StartReply(p) ==
  /\ pc[p] = "idle"
  /\ Room("reply")
  /\ ticket.status \in {"in_progress", "customer_replied"}
  /\ Go(p, "reply")
  /\ job' = [job EXCEPT ![p] = Job("reply", ticket.status)]
  /\ UNCHANGED <<ticket, thread, drafts, runs, embedded, failures>>

Reply(p) ==
  /\ pc[p] = "reply"
  /\ Post("agent", 0)
  /\ Go(p, "reply_awaiting")
  /\ UNCHANGED <<ticket, drafts, runs, embedded, failures, job>>

ReplyAwaiting(p) ==
  /\ pc[p] = "reply_awaiting"
  /\ SetStatus("awaiting_customer")
  /\ Go(p, "mark_human")
  /\ UNCHANGED <<thread, drafts, runs, embedded, failures, job>>

MarkHuman(p) ==
  /\ pc[p] = "mark_human"
  /\ ticket' = [ticket EXCEPT !.human = TRUE]
  /\ Finish(p)
  /\ UNCHANGED <<thread, drafts, runs, embedded, failures>>

-----------------------------------------------------------------------------
(* resolveTicket and closeTicket                                           *)

StartResolve(p) ==
  /\ pc[p] = "idle"
  /\ CanTransition(ticket.status, "resolved")
  /\ Go(p, "set_resolved")
  /\ job' = [job EXCEPT ![p] = Job("resolve", ticket.status)]
  /\ UNCHANGED <<ticket, thread, drafts, runs, embedded, failures>>

SetResolved(p) ==
  /\ pc[p] = "set_resolved"
  /\ SetStatus("resolved")
  /\ Go(p, "find_sent")
  /\ UNCHANGED <<thread, drafts, runs, embedded, failures, job>>

SentDrafts == {d \in 1..Len(drafts) : drafts[d].status = "sent"}

\* getLatestSentDraftByTicketId: the sent draft that was generated last.
FindSent(p) ==
  /\ pc[p] = "find_sent"
  /\ \/ /\ SentDrafts = {}
        /\ Finish(p)
     \/ \E d \in SentDrafts :
          /\ \A e \in SentDrafts : e <= d
          /\ Go(p, "embed")
          /\ job' = [job EXCEPT ![p].draft = d]
  /\ UNCHANGED <<ticket, thread, drafts, runs, embedded, failures>>

\* insertResolutionEmbedding adds a row each time; here a draft counts once.
Embed(p) ==
  /\ pc[p] = "embed"
  /\ embedded' = embedded \cup {job[p].draft}
  /\ Finish(p)
  /\ UNCHANGED <<ticket, thread, drafts, runs, failures>>

StartClose(p) ==
  /\ pc[p] = "idle"
  /\ CanTransition(ticket.status, "closed")
  /\ Go(p, "set_closed")
  /\ job' = [job EXCEPT ![p] = Job("close", ticket.status)]
  /\ UNCHANGED <<ticket, thread, drafts, runs, embedded, failures>>

SetClosed(p) ==
  /\ pc[p] = "set_closed"
  /\ SetStatus("closed")
  /\ Finish(p)
  /\ UNCHANGED <<thread, drafts, runs, embedded, failures>>

-----------------------------------------------------------------------------
(* Failures                                                                *)

\* Where an exception finds runIntakePipeline with its triage completed.
CaughtSteps ==
  {"reread", "read_thread", "insert_draft", "log_draft", "send_message", "mark_sent", "set_awaiting"}

\* A query of p throws.  After a completed triage the pipeline posts the
\* fallback; a fallback that cannot be posted is only logged; everywhere else
\* the rest of the handler is skipped.
QueryThrows(p) ==
  /\ pc[p] # "idle"
  /\ failures < MaxFailures
  /\ failures' = failures + 1
  /\ \/ /\ job[p].kind \in PipelineKinds
        /\ pc[p] \in CaughtSteps
        /\ Go(p, "fallback")
        /\ UNCHANGED job
     \/ /\ pc[p] = "triage_fallback"
        /\ Go(p, "log_failed")
        /\ UNCHANGED job
     \/ /\ ~ (job[p].kind \in PipelineKinds /\ pc[p] \in CaughtSteps)
        /\ pc[p] # "triage_fallback"
        /\ Finish(p)
  /\ UNCHANGED <<ticket, thread, drafts, runs, embedded>>

\* The server goes down; all requests in flight are gone.
Crash ==
  /\ \E p \in Proc : pc[p] # "idle"
  /\ failures < MaxFailures
  /\ failures' = failures + 1
  /\ pc' = [p \in Proc |-> "idle"]
  /\ job' = [p \in Proc |-> NoJob]
  /\ UNCHANGED <<ticket, thread, drafts, runs, embedded>>

-----------------------------------------------------------------------------

\* Either the ticket is one of the seed's, with its inbound message, or a
\* customer has yet to create it.
Init ==
  /\ \/ ticket = NoTicket /\ thread = <<>>
     \/ ticket = SeededTicket /\ thread = <<[from |-> "customer", draft |-> 0]>>
  /\ drafts = <<>>
  /\ runs = {}
  /\ embedded = {}
  /\ failures = 0
  /\ pc = [p \in Proc |-> "idle"]
  /\ job = [p \in Proc |-> NoJob]

Start(p) ==
  \/ CreateTicket(p)
  \/ \E kind \in {"portal", "simulated"} : StartInbound(p, kind)
  \/ StartTriage(p)
  \/ StartEval(p)
  \/ StartDraft(p)
  \/ \E d \in 1..Len(drafts) : StartSend(p, d)
  \/ StartReply(p)
  \/ StartResolve(p)
  \/ StartClose(p)

Continue(p) ==
  \/ FirstMessage(p) \/ Greet(p) \/ Inbound(p) \/ SetReplied(p) \/ StartPipeline(p)
  \/ SaveTriage(p) \/ Advance(p) \/ LogTriage(p)
  \/ TriageFails(p) \/ FailAdvance(p) \/ FailAwait(p) \/ TriageFallback(p) \/ LogFailed(p)
  \/ Reread(p) \/ ReadThread(p) \/ (\E outcome \in Outcome : InsertDraft(p, outcome))
  \/ DraftThrows(p) \/ Fallback(p) \/ LogDraft(p)
  \/ SendMessage(p) \/ MarkSent(p) \/ SetAwaiting(p)
  \/ Reply(p) \/ ReplyAwaiting(p) \/ MarkHuman(p)
  \/ SetResolved(p) \/ FindSent(p) \/ Embed(p) \/ SetClosed(p)

\* The server stays up and the database answers; the model may still fail.
ReliableNext == \E p \in Proc : Start(p) \/ Continue(p)

Next ==
  \/ ReliableNext
  \/ \E p \in Proc : QueryThrows(p)
  \/ Crash

Spec == Init /\ [][Next]_vars

ReliableSpec == Init /\ [][ReliableNext]_vars

\* A handler that was started goes on: its promises are settled by the event
\* loop.  Nothing is assumed about what customers and agents do.
LiveSpec == ReliableSpec /\ \A p \in Proc : WF_vars(Continue(p))

-----------------------------------------------------------------------------

Message == [from: Customer \cup {"greeting", "draft", "auto", "agent", "fallback"}, draft: Nat]

Draft ==
  [answers: Nat, resolution: {"answered", "escalated"}, gated: BOOLEAN,
   status: {"generated", "sent"}, eval: BOOLEAN]

TicketRow ==
  [status: Status \cup {"absent"}, human: BOOLEAN, triaged: BOOLEAN, seeded: BOOLEAN]

\* The steps at which a handler holds a draft.
HoldsDraft == {"log_draft", "send_message", "mark_sent", "set_awaiting", "embed"}

Steps ==
  {"idle", "first_message", "greet", "inbound", "set_replied", "start_pipeline", "triage",
   "advance", "log_triage", "fail_advance", "fail_await", "triage_fallback", "log_failed",
   "reread", "read_thread", "insert_draft", "fallback", "reply", "reply_awaiting",
   "mark_human", "set_resolved", "find_sent", "set_closed"} \cup HoldsDraft

(* The rows are well formed, a handler that is about to use a draft holds   *)
(* the id of one, and a row exists before anything is attached to it.       *)
TypeOK ==
  /\ ticket \in TicketRow
  /\ thread \in Seq(Message)
  /\ drafts \in Seq(Draft)
  /\ runs \subseteq 1..Len(drafts)
  /\ embedded \subseteq 1..Len(drafts)
  /\ failures \in 0..MaxFailures
  /\ pc \in [Proc -> Steps]
  /\ job \in [Proc -> [kind: Kinds \cup {"none"}, seen: Status \cup {"absent"}, answers: Nat, draft: Nat]]
  /\ \A p \in Proc : pc[p] \in HoldsDraft => job[p].draft \in 1..Len(drafts)

-----------------------------------------------------------------------------
(* Properties of every interleaving                                        *)

Posted(from, d) == \E i \in 1..Len(thread) : thread[i].from \in from /\ thread[i].draft = d

(* What the rows claim has happened is in the thread the customer sees,     *)
(* whatever fails in between: a draft marked sent was posted, a ticket      *)
(* marked human_owned was answered by a person, a ticket that waits for the *)
(* agents has a message of the customer, and a resolution later tickets     *)
(* learn from is a draft that was posted and marked.                        *)
ThreadComesFirst ==
  /\ \A d \in 1..Len(drafts) : drafts[d].status = "sent" => Posted({"draft", "auto"}, d)
  /\ \A d \in embedded : drafts[d].status = "sent"
  /\ ticket.human => Posted({"agent"}, 0)
  /\ ticket.status = "customer_replied" => Posted(Customer, 0)

(* triage -> retrieval -> draft (HLD invariant 9): a ticket with a draft    *)
(* has a triage, however the handlers interleave.                           *)
DraftFollowsTriage == Len(drafts) > 0 => ticket.triaged

(* Escalations and drafts with a gated action always wait for a person: no  *)
(* message of theirs is ever posted automatically, and whatever was posted  *)
(* automatically has its agent run on record (HLD v3 ADR-15, invariant 6).  *)
AutoSendIsSafe ==
  \A i \in 1..Len(thread) :
    thread[i].from = "auto" =>
      /\ thread[i].draft \in 1..Len(drafts)
      /\ drafts[thread[i].draft].resolution = "answered"
      /\ ~ drafts[thread[i].draft].gated
      /\ thread[i].draft \in runs

\* The handlers on the way to a draft for the customer, past the look at the
\* ticket's owner (a draft of an eval case is not for the customer).
Drafters ==
  {p \in Proc :
     /\ job[p].kind \in DraftingKinds \ {"eval"}
     /\ pc[p] \in {"first_message", "greet", "triage", "advance", "log_triage", "reread",
                   "read_thread", "insert_draft"}}

CustomerDrafts == {d \in 1..Len(drafts) : ~ drafts[d].eval}

Lifecycle == INSTANCE TicketLifecycle WITH
  Handler <- Proc, status <- ticket.status, owned <- ticket.human, drafts <- CustomerDrafts,
  seen <- [p \in Proc |-> job[p].seen], drafters <- Drafters

(* Nothing orders the handlers of a ticket, yet each change of its row is a *)
(* move the transition table allows from the status that very handler read, *)
(* or a person's direct answer; and once a person owns the ticket no other  *)
(* handler sets out to draft for its customer (runIntakePipeline and the    *)
(* draft route look at human_owned once, before the triage and the model).  *)
FollowsLifecycle == Lifecycle!Spec

(* What is left of "once human_owned, AI drafting is permanently blocked":  *)
(* the handlers past the look at human_owned when the person takes over may *)
(* still draft, once each; nobody joins them.                               *)
TakeoverSettles ==
  [][ticket.human =>
       /\ Drafters' \subseteq Drafters
       /\ \/ CustomerDrafts' = CustomerDrafts
          \/ /\ Drafters' # Drafters
             /\ \E d \in CustomerDrafts' : CustomerDrafts' = CustomerDrafts \cup {d}]_vars

(* "once human_owned, AI drafting is permanently blocked" (invariant 11 as  *)
(* runIntakePipeline states it).                                            *)
NoDraftAfterTakeover == [][ticket.human => Len(drafts') = Len(drafts)]_vars

-----------------------------------------------------------------------------
(* A property of requests that take turns                                  *)

\* Nothing in the code makes them; when two of them overlap the property fails.
TakeTurns == \A p, q \in Proc : pc[p] # "idle" /\ pc[q] # "idle" => p = q

TurnSpec == Init /\ [][Next /\ TakeTurns']_vars

(* While no query fails the customer gets at most one answer to a message:  *)
(* between two answers (a draft or a person's reply) lies a message of the  *)
(* customer, whatever drafts lie around, sent or not.                       *)
OneAnswerPerMessage ==
  failures = 0 =>
    \A i, j \in 1..Len(thread) :
      /\ i < j
      /\ thread[i].from \in {"draft", "auto", "agent"}
      /\ thread[j].from \in {"draft", "auto", "agent"}
      => \E k \in i+1..j-1 : thread[k].from \in Customer

(* The fallback "is a real reply": once it is posted the ticket must have   *)
(* "the same status a normal sent reply would" give it, or the customer is  *)
(* "locked out" (the comment in runTriage), that is, the next message would *)
(* be dropped.  A closed ticket takes no messages anyway.                   *)
FallbackLetsCustomerReply ==
  /\ \A p \in Proc : pc[p] = "idle"
  /\ Len(thread) > 0
  /\ thread[Len(thread)].from = "fallback"
  /\ ticket.status # "closed"
  => CanTransition(ticket.status, "customer_replied")

-----------------------------------------------------------------------------
(* Liveness                                                                *)

Unanswered(i) == Len(thread) >= i /\ thread[i].from = "portal"

Answered(i) ==
  \/ \E j \in i+1..Len(thread) : thread[j].from \notin Customer
  \/ \E d \in CustomerDrafts : drafts[d].answers >= i
  \/ ticket.human

(* "the customer sees total silence" never happens while the database       *)
(* answers: a message from the portal is followed by a reply or the         *)
(* fallback, or leaves a draft for the agents, or the ticket has a person.  *)
NoSilence == \A i \in 1..MaxMessages : Unanswered(i) ~> Answered(i)
=============================================================================
