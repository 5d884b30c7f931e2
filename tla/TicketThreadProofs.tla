------------------------- MODULE TicketThreadProofs -------------------------
(***************************************************************************)
(* Proofs about TicketThread, for any number of requests in flight and any *)
(* number of failures.                                                     *)
(***************************************************************************)
EXTENDS TicketThread, SequenceTheorems, WellFoundedInduction, TLAPS

JobRecord ==
  [kind: Kinds \cup {"none"}, seen: Status \cup {"absent"}, answers: Nat, draft: Nat]

\* The part of TypeOK about the requests ...
RequestsOK ==
  /\ pc \in [Proc -> Steps]
  /\ job \in [Proc -> JobRecord]
  /\ \A p \in Proc : pc[p] \in HoldsDraft => job[p].draft \in 1..Len(drafts)

\* ... and the part about the rows.
RowsOK ==
  /\ ticket \in TicketRow
  /\ thread \in Seq(Message)
  /\ drafts \in Seq(Draft)
  /\ runs \subseteq 1..Len(drafts)
  /\ embedded \subseteq 1..Len(drafts)
  /\ failures \in 0..MaxFailures

LEMMA TypeParts == TypeOK <=> RequestsOK /\ RowsOK
BY DEF TypeOK, RequestsOK, RowsOK, JobRecord

-----------------------------------------------------------------------------
(* The latest customer message                                             *)

\* Position 0 qualifies when no customer message is there, else the last one.
LEMMA LatestInboundIsPosition ==
  ASSUME thread \in Seq(Message)
  PROVE  LatestInbound \in 0..Len(thread)
<1> DEFINE N == Len(thread)
           Candidates == {k \in 0..N : k < N => thread[N - k].from \in Customer}
           Less == OpToRel(<, Nat)
<1>1. N \in Nat
  BY LenProperties
<1>2. N \in Candidates /\ Candidates \subseteq Nat
  BY <1>1
<1>3. IsWellFoundedOn(Less, Nat)
  BY NatLessThanWellFounded
<1>4. PICK k \in Candidates : \A l \in Candidates : <<l, k>> \notin Less
  <2> HIDE DEF Candidates, Less
  <2>1. QED
    BY <1>2, <1>3, WFMin
<1>5. \A l \in Candidates : ~ (l < k)
  BY <1>2, <1>4 DEF OpToRel
<1>6. N - k \in 0..N
  BY <1>1
<1>7. N - k > 0 => thread[N - k].from \in Customer
  BY <1>1
<1>8. ASSUME NEW j \in (N - k) + 1..N
      PROVE  thread[j].from \notin Customer
  <2>1. N - j \in 0..N /\ N - j < k /\ N - (N - j) = j
    BY <1>1, <1>6
  <2>2. N - j \notin Candidates
    BY <1>5, <2>1
  <2>3. QED
    BY <2>1, <2>2
<1>9. QED
  BY <1>6, <1>7, <1>8 DEF LatestInbound

-----------------------------------------------------------------------------
(* Type correctness                                                        *)

\* A request goes on with the locals it has.
LEMMA GoTyped ==
  ASSUME RequestsOK, NEW p \in Proc, NEW step \in Steps, Go(p, step), UNCHANGED job,
         drafts \in Seq(Draft), drafts' \in Seq(Draft), Len(drafts) <= Len(drafts'),
         step \in HoldsDraft => pc[p] \in HoldsDraft
  PROVE  RequestsOK'
BY LenProperties DEF RequestsOK, Go

\* A request goes on with new locals.
LEMMA GoWithTyped ==
  ASSUME RequestsOK, NEW p \in Proc, NEW step \in Steps, Go(p, step),
         NEW j \in JobRecord, job' = [job EXCEPT ![p] = j],
         drafts \in Seq(Draft), drafts' \in Seq(Draft), Len(drafts) <= Len(drafts'),
         step \in HoldsDraft => j.draft \in 1..Len(drafts')
  PROVE  RequestsOK'
BY LenProperties DEF RequestsOK, Go

LEMMA FinishTyped ==
  ASSUME RequestsOK, NEW p \in Proc, Finish(p),
         drafts \in Seq(Draft), drafts' \in Seq(Draft), Len(drafts) <= Len(drafts')
  PROVE  RequestsOK'
<1>1. NoJob \in JobRecord
  BY DEF NoJob, JobRecord
<1>2. "idle" \in Steps /\ "idle" \notin HoldsDraft
  BY DEF Steps, HoldsDraft
<1>3. QED
  BY <1>1, <1>2, GoWithTyped DEF Finish, Go

LEMMA PostTyped ==
  ASSUME RowsOK,
         NEW from \in Customer \cup {"greeting", "draft", "auto", "agent", "fallback"},
         NEW draft \in Nat, Post(from, draft)
  PROVE  thread' \in Seq(Message)
BY AppendProperties DEF RowsOK, Post, Message

LEMMA SetStatusTyped ==
  ASSUME RowsOK, NEW status \in Status, SetStatus(status)
  PROVE  ticket' \in TicketRow
BY DEF RowsOK, SetStatus, TicketRow

\* The first rows of the ticket.
LEMMA InitRows ==
  ASSUME Init
  PROVE  /\ ticket.status \in {"absent", "open"}
         /\ ticket.human = FALSE
         /\ ticket \in TicketRow
         /\ drafts = <<>> /\ runs = {} /\ embedded = {} /\ failures = 0
         /\ pc = [p \in Proc |-> "idle"]
         /\ thread = <<>> \/ thread = <<[from |-> "customer", draft |-> 0]>>
<1>1. /\ drafts = <<>> /\ runs = {} /\ embedded = {} /\ failures = 0
      /\ pc = [p \in Proc |-> "idle"]
      /\ thread = <<>> \/ thread = <<[from |-> "customer", draft |-> 0]>>
  BY DEF Init
<1>2. ASSUME ticket = NoTicket
      PROVE  ticket.status \in {"absent", "open"} /\ ticket.human = FALSE /\ ticket \in TicketRow
  BY <1>2 DEF NoTicket, TicketRow
<1>3. ASSUME ticket = SeededTicket
      PROVE  ticket.status \in {"absent", "open"} /\ ticket.human = FALSE /\ ticket \in TicketRow
  BY <1>3 DEF SeededTicket, TicketRow, Status
<1>4. ticket = NoTicket \/ ticket = SeededTicket
  BY DEF Init
<1>5. QED
  BY <1>1, <1>2, <1>3, <1>4

LEMMA InitTyped == Init => TypeOK
<1> SUFFICES ASSUME Init PROVE TypeOK
  OBVIOUS
<1>1. thread \in Seq(Message)
  <2>1. [from |-> "customer", draft |-> 0] \in Message
    BY DEF Message, Customer
  <2>2. ASSUME NEW m \in Message PROVE <<>> \in Seq(Message) /\ <<m>> \in Seq(Message)
    OBVIOUS
  <2>3. QED
    BY <2>1, <2>2, InitRows
<1>a. RowsOK
  <2>1. drafts \in Seq(Draft) /\ runs = {} /\ embedded = {} /\ failures \in 0..MaxFailures
    BY InitRows, BoundsAssumption
  <2>2. QED
    BY <1>1, <2>1, InitRows DEF RowsOK
<1>2. NoJob \in JobRecord /\ "idle" \in Steps /\ "idle" \notin HoldsDraft
  BY DEF NoJob, JobRecord, Steps, HoldsDraft
<1>3. RequestsOK
  BY <1>2 DEF Init, RequestsOK
<1>4. QED
  BY <1>a, <1>3, TypeParts

\* The names of the steps, so that no proof below has to unfold the sets.
LEMMA StepNames ==
  /\ HoldsDraft \subseteq Steps
  /\ HoldsDraft = {"log_draft", "send_message", "mark_sent", "set_awaiting", "embed"}
  /\ {"idle", "first_message", "greet", "inbound", "set_replied", "start_pipeline", "triage",
      "advance", "log_triage", "fail_advance", "fail_await", "triage_fallback", "log_failed",
      "reread", "read_thread", "insert_draft", "fallback", "reply", "reply_awaiting",
      "mark_human", "set_resolved", "find_sent", "set_closed"} = Steps \ HoldsDraft
BY DEF Steps, HoldsDraft

LEMMA JobsTyped ==
  ASSUME RequestsOK, NEW p \in Proc, NEW status \in Status \cup {"absent"}, NEW kind \in Kinds,
         NEW n \in Nat
  PROVE  /\ Job(kind, status) \in JobRecord
         /\ [job[p] EXCEPT !.seen = status] \in JobRecord
         /\ [job[p] EXCEPT !.answers = n] \in JobRecord
<1>1. job[p] \in JobRecord
  BY DEF RequestsOK
<1>2. QED
  BY <1>1 DEF Job, NoJob, JobRecord

\* A request is handed draft n.
LEMMA DraftJobsTyped ==
  ASSUME NEW k \in JobRecord, NEW n \in Nat
  PROVE  /\ [k EXCEPT !.draft = n] \in JobRecord
         /\ [k EXCEPT !.draft = n].draft = n
         /\ [k EXCEPT !.draft = n, !.answers = 0] \in JobRecord
         /\ [k EXCEPT !.draft = n, !.answers = 0].draft = n
BY DEF JobRecord

\* The frame of a step that leaves the rows alone, or changes one table.
LEMMA RowsKept ==
  ASSUME RowsOK, UNCHANGED <<ticket, thread, drafts, runs, embedded, failures>>
  PROVE  RowsOK'
BY DEF RowsOK

LEMMA TicketWritten ==
  ASSUME RowsOK, ticket' \in TicketRow, UNCHANGED <<thread, drafts, runs, embedded, failures>>
  PROVE  RowsOK'
BY DEF RowsOK

LEMMA MessageWritten ==
  ASSUME RowsOK, thread' \in Seq(Message), UNCHANGED <<ticket, drafts, runs, embedded, failures>>
  PROVE  RowsOK'
BY DEF RowsOK

LEMMA DraftsKept ==
  ASSUME RowsOK, UNCHANGED drafts
  PROVE  drafts \in Seq(Draft) /\ drafts' \in Seq(Draft) /\ Len(drafts) <= Len(drafts')
<1>1. Len(drafts) \in Nat
  BY LenProperties DEF RowsOK
<1>2. QED
  BY <1>1 DEF RowsOK

\* Starting a request: it has the locals j and no rows change.
LEMMA StartTyped ==
  ASSUME RequestsOK, RowsOK, NEW p \in Proc, Start(p)
  PROVE  RequestsOK' /\ RowsOK'
<1>1. ticket.status \in Status \cup {"absent"} /\ Len(drafts) \in Nat
  BY LenProperties DEF RowsOK, TicketRow
<1>2. CASE CreateTicket(p)
  <2>1. RowsOK'
    BY <1>2, TicketWritten DEF CreateTicket, NewTicket, NoTicket, TicketRow, Status
  <2>2. NewTicket.status \in Status /\ "create" \in Kinds
    BY DEF NewTicket, NoTicket, Status, Kinds, DraftingKinds, PipelineKinds
  <2>3. Job("create", NewTicket.status) \in JobRecord
    BY <2>2, JobsTyped
  <2>4. RequestsOK'
    BY <1>2, <2>3, GoWithTyped, DraftsKept, StepNames DEF CreateTicket
  <2>5. QED
    BY <2>1, <2>4
<1>3. ASSUME NEW j \in JobRecord, NEW step \in Steps, Go(p, step),
             job' = [job EXCEPT ![p] = j],
             step \in HoldsDraft => j.draft \in 1..Len(drafts),
             UNCHANGED <<ticket, thread, drafts, runs, embedded, failures>>
      PROVE  RequestsOK' /\ RowsOK'
  BY <1>3, GoWithTyped, DraftsKept, RowsKept
<1>4. {"portal", "simulated", "triage", "eval", "draft", "send", "reply", "resolve", "close"} \subseteq Kinds
  BY DEF Kinds, DraftingKinds, PipelineKinds
<1>5. ASSUME NEW kind \in {"portal", "simulated"}, StartInbound(p, kind)
      PROVE  RequestsOK' /\ RowsOK'
  <2>1. Job(kind, ticket.status) \in JobRecord
    BY <1>1, <1>4, JobsTyped
  <2>2. QED
    BY <2>1, <1>3, <1>5, StepNames DEF StartInbound
<1>6. CASE StartTriage(p)
  BY <1>1, <1>3, <1>4, <1>6, JobsTyped, StepNames DEF StartTriage
<1>7. CASE StartDraft(p)
  BY <1>1, <1>3, <1>4, <1>7, JobsTyped, StepNames DEF StartDraft
<1>a. CASE StartEval(p)
  BY <1>1, <1>3, <1>4, <1>a, JobsTyped, StepNames DEF StartEval
<1>8. ASSUME NEW d \in 1..Len(drafts), StartSend(p, d)
      PROVE  RequestsOK' /\ RowsOK'
  <2> DEFINE j == [Job("send", ticket.status) EXCEPT !.draft = d]
  <2>1. j \in JobRecord /\ j.draft = d
    <3>1. d \in Nat /\ "send" \in Kinds
      BY <1>1, <1>4
    <3>2. Job("send", ticket.status) \in JobRecord
      BY <1>1, <3>1, JobsTyped
    <3>3. QED
      BY <3>1, <3>2, DraftJobsTyped
  <2>2. Go(p, "send_message") /\ job' = [job EXCEPT ![p] = j]
    BY <1>8 DEF StartSend
  <2>3. UNCHANGED <<ticket, thread, drafts, runs, embedded, failures>>
    BY <1>8 DEF StartSend
  <2>4. "send_message" \in Steps
    BY StepNames
  <2> HIDE DEF j
  <2>5. QED
    BY <2>1, <2>2, <2>3, <2>4, <1>3
<1>9. CASE StartReply(p)
  BY <1>1, <1>3, <1>4, <1>9, JobsTyped, StepNames DEF StartReply
<1>10. CASE StartResolve(p)
  BY <1>1, <1>3, <1>4, <1>10, JobsTyped, StepNames DEF StartResolve
<1>11. CASE StartClose(p)
  BY <1>1, <1>3, <1>4, <1>11, JobsTyped, StepNames DEF StartClose
<1>12. QED
  BY <1>2, <1>5, <1>6, <1>7, <1>a, <1>8, <1>9, <1>10, <1>11 DEF Start

\* The customer's messages and the pipeline up to the draft.
LEMMA IntakeTyped ==
  ASSUME RequestsOK, RowsOK, NEW p \in Proc,
         \/ FirstMessage(p) \/ Greet(p) \/ Inbound(p) \/ SetReplied(p) \/ StartPipeline(p)
         \/ SaveTriage(p) \/ Advance(p) \/ LogTriage(p)
         \/ TriageFails(p) \/ FailAdvance(p) \/ FailAwait(p) \/ TriageFallback(p) \/ LogFailed(p)
  PROVE  RequestsOK' /\ RowsOK'
<1>1. ticket.status \in Status \cup {"absent"}
  BY DEF RowsOK, TicketRow
<1>2. {"customer_replied", "in_progress", "awaiting_customer"} \subseteq Status
  BY DEF Status
<1>3. {"customer", "portal", "greeting", "fallback"} \subseteq
        Customer \cup {"greeting", "draft", "auto", "agent", "fallback"}
  BY DEF Customer
<1>4. CASE FirstMessage(p)
  BY <1>3, <1>4, GoTyped, DraftsKept, PostTyped, MessageWritten, StepNames DEF FirstMessage
<1>5. CASE Greet(p)
  BY <1>3, <1>5, GoTyped, DraftsKept, PostTyped, MessageWritten, StepNames DEF Greet
<1>6. CASE Inbound(p)
  BY <1>3, <1>6, GoTyped, DraftsKept, PostTyped, MessageWritten, StepNames DEF Inbound
<1>7. CASE SetReplied(p)
  <2>1. RowsOK'
    BY <1>2, <1>7, SetStatusTyped, TicketWritten DEF SetReplied
  <2>2. RequestsOK'
    BY <1>7, GoTyped, FinishTyped, DraftsKept, StepNames DEF SetReplied
  <2>3. QED
    BY <2>1, <2>2
<1>8. CASE StartPipeline(p)
  <2>1. [job[p] EXCEPT !.seen = ticket.status] \in JobRecord
    BY <1>1, JobsTyped DEF Kinds, DraftingKinds, PipelineKinds
  <2>2. RowsOK'
    BY <1>8, RowsKept DEF StartPipeline
  <2>3. job' = [job EXCEPT ![p] = [job[p] EXCEPT !.seen = ticket.status]] \/ ticket.human
    BY <1>8 DEF StartPipeline, RequestsOK
  <2>4. QED
    BY <1>8, <2>1, <2>2, <2>3, GoWithTyped, FinishTyped, DraftsKept, StepNames DEF StartPipeline
<1>9. CASE SaveTriage(p)
  <2>1. ticket' \in TicketRow
    BY <1>9 DEF SaveTriage, RowsOK, TicketRow
  <2>2. RowsOK'
    BY <2>1, <1>9, TicketWritten DEF SaveTriage
  <2>3. QED
    BY <2>2, <1>9, GoTyped, DraftsKept, StepNames DEF SaveTriage
<1>10. CASE Advance(p)
  BY <1>2, <1>10, GoTyped, DraftsKept, SetStatusTyped, TicketWritten, StepNames DEF Advance
<1>11. CASE LogTriage(p)
  BY <1>11, GoTyped, FinishTyped, DraftsKept, RowsKept, StepNames DEF LogTriage
<1>12. CASE TriageFails(p)
  BY <1>12, GoTyped, DraftsKept, RowsKept, StepNames DEF TriageFails
<1>13. CASE FailAdvance(p)
  <2>1. [job[p] EXCEPT !.seen = "in_progress"] \in JobRecord
    BY <1>2, JobsTyped DEF Kinds, DraftingKinds, PipelineKinds
  <2>2. job' = [job EXCEPT ![p] = [job[p] EXCEPT !.seen = "in_progress"]]
    BY <1>13 DEF FailAdvance, RequestsOK
  <2>3. RowsOK'
    BY <1>2, <1>13, SetStatusTyped, TicketWritten DEF FailAdvance
  <2>4. QED
    BY <1>13, <2>1, <2>2, <2>3, GoWithTyped, DraftsKept, StepNames DEF FailAdvance
<1>14. CASE FailAwait(p)
  BY <1>2, <1>14, GoTyped, DraftsKept, SetStatusTyped, TicketWritten, StepNames DEF FailAwait
<1>15. CASE TriageFallback(p)
  BY <1>3, <1>15, GoTyped, DraftsKept, PostTyped, MessageWritten, StepNames DEF TriageFallback
<1>16. CASE LogFailed(p)
  BY <1>16, FinishTyped, DraftsKept, RowsKept DEF LogFailed
<1>17. QED
  BY <1>4, <1>5, <1>6, <1>7, <1>8, <1>9, <1>10, <1>11, <1>12, <1>13, <1>14, <1>15, <1>16

\* Drafting, and what its outcome may be.
LEMMA DraftingTyped ==
  ASSUME RequestsOK, RowsOK, NEW p \in Proc,
         \/ Reread(p) \/ ReadThread(p) \/ (\E outcome \in Outcome : InsertDraft(p, outcome))
         \/ DraftThrows(p) \/ Fallback(p) \/ LogDraft(p)
  PROVE  RequestsOK' /\ RowsOK'
<1>1. ticket.status \in Status \cup {"absent"}
  BY DEF RowsOK, TicketRow
<1>2. job[p] \in JobRecord /\ Len(drafts) \in Nat /\ "create" \in Kinds
  BY LenProperties DEF RequestsOK, RowsOK, Kinds, DraftingKinds, PipelineKinds
<1>3. CASE Reread(p)
  <2>1. [job[p] EXCEPT !.seen = ticket.status] \in JobRecord
    BY <1>1, <1>2, JobsTyped
  <2>2. job' = [job EXCEPT ![p] = [job[p] EXCEPT !.seen = ticket.status]]
    BY <1>3 DEF Reread, RequestsOK
  <2>3. QED
    BY <1>3, <2>1, <2>2, GoWithTyped, DraftsKept, RowsKept, StepNames DEF Reread
<1>4. CASE ReadThread(p)
  <2>1. LatestInbound \in Nat
    BY LatestInboundIsPosition, LenProperties DEF RowsOK
  <2>2. [job[p] EXCEPT !.answers = LatestInbound] \in JobRecord
    BY <1>1, <1>2, <2>1, JobsTyped
  <2>3. job' = [job EXCEPT ![p] = [job[p] EXCEPT !.answers = LatestInbound]]
    BY <1>4 DEF ReadThread, RequestsOK
  <2>4. QED
    BY <1>4, <2>2, <2>3, GoWithTyped, DraftsKept, RowsKept, StepNames DEF ReadThread
<1>5. ASSUME NEW outcome \in Outcome, InsertDraft(p, outcome)
      PROVE  RequestsOK' /\ RowsOK'
  <2> DEFINE new == [answers |-> job[p].answers, resolution |-> outcome.resolution,
                     gated |-> outcome.gated, status |-> "generated", eval |-> job[p].kind = "eval"]
             j == [job[p] EXCEPT !.draft = Len(drafts) + 1, !.answers = 0]
  <2>1. new \in Draft
    BY <1>2, OutcomeAssumption DEF Draft, JobRecord
  <2>2. j \in JobRecord /\ j.draft = Len(drafts) + 1
    <3>1. Len(drafts) + 1 \in Nat
      BY <1>2
    <3>2. QED
      BY <1>2, <3>1, DraftJobsTyped
  <2>3. drafts' = Append(drafts, new) /\ Go(p, "log_draft")
    BY <1>5 DEF InsertDraft
  <2>4. job' = [job EXCEPT ![p] = j]
    BY <1>5 DEF InsertDraft, RequestsOK
  <2>5. UNCHANGED <<ticket, thread, runs, embedded, failures>>
    BY <1>5 DEF InsertDraft
  <2> HIDE DEF new, j
  <2>6. drafts' \in Seq(Draft) /\ Len(drafts') = Len(drafts) + 1
    BY <2>1, <2>3, AppendProperties DEF RowsOK
  <2>7. RowsOK'
    BY <1>2, <2>5, <2>6 DEF RowsOK
  <2>8. drafts \in Seq(Draft) /\ Len(drafts) <= Len(drafts') /\ j.draft \in 1..Len(drafts')
    BY <1>2, <2>2, <2>6 DEF RowsOK
  <2>9. "log_draft" \in Steps
    BY StepNames
  <2>10. RequestsOK'
    BY <2>2, <2>3, <2>4, <2>6, <2>8, <2>9, GoWithTyped
  <2>11. QED
    BY <2>7, <2>10
<1>6. CASE DraftThrows(p)
  BY <1>6, GoTyped, FinishTyped, DraftsKept, RowsKept, StepNames DEF DraftThrows
<1>7. CASE Fallback(p)
  BY <1>7, FinishTyped, DraftsKept, PostTyped, MessageWritten, StepNames DEF Fallback
<1>8. CASE LogDraft(p)
  <2>1. pc[p] \in HoldsDraft /\ job[p].draft \in 1..Len(drafts)
    BY <1>8, StepNames DEF LogDraft, RequestsOK
  <2>2. RowsOK'
    BY <1>8, <2>1 DEF LogDraft, RowsOK
  <2>3. QED
    BY <1>8, <2>1, <2>2, GoTyped, FinishTyped, DraftsKept, StepNames DEF LogDraft
<1>9. QED
  BY <1>3, <1>4, <1>5, <1>6, <1>7, <1>8

\* The agents' replies, and resolve and close.
LEMMA AgentsTyped ==
  ASSUME RequestsOK, RowsOK, NEW p \in Proc,
         \/ SendMessage(p) \/ MarkSent(p) \/ SetAwaiting(p)
         \/ Reply(p) \/ ReplyAwaiting(p) \/ MarkHuman(p)
         \/ SetResolved(p) \/ FindSent(p) \/ Embed(p) \/ SetClosed(p)
  PROVE  RequestsOK' /\ RowsOK'
<1>1. {"awaiting_customer", "resolved", "closed"} \subseteq Status
  BY DEF Status
<1>2. job[p] \in JobRecord /\ job[p].draft \in Nat /\ "create" \in Kinds
  BY DEF RequestsOK, JobRecord, Kinds, DraftingKinds, PipelineKinds
<1>3. pc[p] \in HoldsDraft => job[p].draft \in 1..Len(drafts)
  BY DEF RequestsOK
<1>4. CASE SendMessage(p)
  <2>1. RowsOK'
    BY <1>2, <1>4, PostTyped, MessageWritten DEF SendMessage
  <2>2. QED
    BY <1>4, <2>1, GoTyped, DraftsKept, StepNames DEF SendMessage
<1>5. CASE MarkSent(p)
  <2> DEFINE d == job[p].draft
             new == [drafts[d] EXCEPT !.status = "sent"]
  <2>1. d \in 1..Len(drafts)
    BY <1>3, <1>5, StepNames DEF MarkSent
  <2>2. new \in Draft
    <3>1. drafts[d] \in Draft
      BY <2>1, ElementOfSeq DEF RowsOK
    <3>2. QED
      BY <3>1 DEF Draft
  <2>3. drafts' = [drafts EXCEPT ![d] = new] /\ Go(p, "set_awaiting")
    BY <1>5 DEF MarkSent
  <2>4. UNCHANGED <<ticket, thread, runs, embedded, failures, job>>
    BY <1>5 DEF MarkSent
  <2>5. pc[p] \in HoldsDraft /\ "set_awaiting" \in Steps
    BY <1>5, StepNames DEF MarkSent
  <2> HIDE DEF new, d
  <2>6. drafts' \in Seq(Draft) /\ Len(drafts') = Len(drafts)
    BY <2>1, <2>2, <2>3, ExceptSeq DEF RowsOK
  <2>7. RowsOK'
    BY <2>4, <2>6 DEF RowsOK
  <2>8. Len(drafts) <= Len(drafts') /\ drafts \in Seq(Draft)
    BY <2>6, LenProperties DEF RowsOK
  <2>9. RequestsOK'
    BY <2>3, <2>4, <2>5, <2>6, <2>8, GoTyped
  <2>10. QED
    BY <2>7, <2>9
<1>6. CASE SetAwaiting(p)
  BY <1>1, <1>6, FinishTyped, DraftsKept, SetStatusTyped, TicketWritten DEF SetAwaiting
<1>7. CASE Reply(p)
  BY <1>7, GoTyped, DraftsKept, PostTyped, MessageWritten, StepNames DEF Reply
<1>8. CASE ReplyAwaiting(p)
  BY <1>1, <1>8, GoTyped, DraftsKept, SetStatusTyped, TicketWritten, StepNames DEF ReplyAwaiting
<1>9. CASE MarkHuman(p)
  <2>1. ticket' \in TicketRow
    BY <1>9 DEF MarkHuman, RowsOK, TicketRow
  <2>2. QED
    BY <2>1, <1>9, FinishTyped, DraftsKept, TicketWritten DEF MarkHuman
<1>10. CASE SetResolved(p)
  BY <1>1, <1>10, GoTyped, DraftsKept, SetStatusTyped, TicketWritten, StepNames DEF SetResolved
<1>11. CASE FindSent(p)
  <2>1. RowsOK'
    BY <1>11, RowsKept DEF FindSent
  <2>2. CASE Finish(p)
    BY <1>11, <2>1, <2>2, FinishTyped, DraftsKept DEF FindSent
  <2>3. ASSUME NEW d \in SentDrafts, Go(p, "embed"), job' = [job EXCEPT ![p].draft = d]
        PROVE  RequestsOK'
    <3>1. d \in 1..Len(drafts) /\ d \in Nat
      BY LenProperties DEF SentDrafts, RowsOK
    <3>2. [job[p] EXCEPT !.draft = d] \in JobRecord /\ [job[p] EXCEPT !.draft = d].draft = d
      BY <1>2, <3>1, DraftJobsTyped
    <3>3. job' = [job EXCEPT ![p] = [job[p] EXCEPT !.draft = d]] /\ UNCHANGED drafts
      BY <1>11, <2>3 DEF RequestsOK, FindSent
    <3>4. /\ drafts \in Seq(Draft) /\ drafts' \in Seq(Draft)
          /\ Len(drafts) <= Len(drafts') /\ Len(drafts') = Len(drafts)
      BY <3>3, DraftsKept
    <3>5. "embed" \in Steps
      BY StepNames
    <3>6. QED
      BY <2>3, <3>1, <3>2, <3>3, <3>4, <3>5, GoWithTyped
  <2>4. QED
    BY <1>11, <2>1, <2>2, <2>3 DEF FindSent
<1>12. CASE Embed(p)
  <2>1. job[p].draft \in 1..Len(drafts)
    BY <1>3, <1>12, StepNames DEF Embed
  <2>2. RowsOK'
    BY <1>12, <2>1 DEF Embed, RowsOK
  <2>3. QED
    BY <1>12, <2>2, FinishTyped, DraftsKept DEF Embed
<1>13. CASE SetClosed(p)
  BY <1>1, <1>13, FinishTyped, DraftsKept, SetStatusTyped, TicketWritten DEF SetClosed
<1>14. QED
  BY <1>4, <1>5, <1>6, <1>7, <1>8, <1>9, <1>10, <1>11, <1>12, <1>13

LEMMA FailuresTyped ==
  ASSUME RequestsOK, RowsOK,
         (\E p \in Proc : QueryThrows(p)) \/ Crash
  PROVE  RequestsOK' /\ RowsOK'
<1>1. ASSUME failures < MaxFailures, failures' = failures + 1,
             UNCHANGED <<ticket, thread, drafts, runs, embedded>>
      PROVE  RowsOK'
  BY <1>1, BoundsAssumption DEF RowsOK
<1>2. ASSUME NEW p \in Proc, QueryThrows(p)
      PROVE  RequestsOK' /\ RowsOK'
  <2>1. RowsOK'
    BY <1>1, <1>2 DEF QueryThrows
  <2>2. QED
    BY <1>2, <2>1, GoTyped, FinishTyped, DraftsKept, StepNames DEF QueryThrows
<1>3. CASE Crash
  <2>1. RowsOK'
    BY <1>1, <1>3 DEF Crash
  <2>2. NoJob \in JobRecord /\ "idle" \in Steps /\ "idle" \notin HoldsDraft
    BY StepNames DEF NoJob, JobRecord
  <2>3. RequestsOK'
    BY <1>3, <2>2 DEF Crash, RequestsOK
  <2>4. QED
    BY <2>1, <2>3
<1>4. QED
  BY <1>2, <1>3

LEMMA StepTyped == TypeOK /\ [Next]_vars => TypeOK'
<1> SUFFICES ASSUME RequestsOK, RowsOK, [Next]_vars
             PROVE  RequestsOK' /\ RowsOK'
  BY TypeParts DEF TypeOK, RequestsOK, RowsOK, JobRecord
<1>1. ASSUME NEW p \in Proc, Start(p)
      PROVE  RequestsOK' /\ RowsOK'
  BY <1>1, StartTyped
<1>2. ASSUME NEW p \in Proc, Continue(p)
      PROVE  RequestsOK' /\ RowsOK'
  BY <1>2, IntakeTyped, DraftingTyped, AgentsTyped DEF Continue
<1>3. CASE (\E p \in Proc : QueryThrows(p)) \/ Crash
  BY <1>3, FailuresTyped
<1>4. CASE UNCHANGED vars
  BY <1>4 DEF vars, RequestsOK, RowsOK
<1>5. QED
  BY <1>1, <1>2, <1>3, <1>4 DEF Next, ReliableNext

(* Rows and requests stay well formed, and a handler that is about to use a *)
(* draft holds the id of one, however the handlers interleave and fail.     *)
THEOREM TypeCorrect == Spec => []TypeOK
<1>1. QED
  BY InitTyped, StepTyped, PTL DEF Spec

-----------------------------------------------------------------------------
(* What every step keeps                                                   *)

\* Rows are never taken back: messages and drafts stay, a sent draft stays
\* sent, a triage, an owner and an agent run stay.
Grows ==
  /\ Len(thread) <= Len(thread')
  /\ \A i \in 1..Len(thread) : thread'[i] = thread[i]
  /\ Len(drafts) <= Len(drafts')
  /\ \A d \in 1..Len(drafts) :
       /\ drafts'[d].resolution = drafts[d].resolution
       /\ drafts'[d].gated = drafts[d].gated
       /\ drafts[d].status = "sent" => drafts'[d].status = "sent"
  /\ runs \subseteq runs'
  /\ ticket.triaged => ticket'.triaged
  /\ ticket.human => ticket'.human

LEMMA PostGrows ==
  ASSUME RowsOK,
         NEW from \in Customer \cup {"greeting", "draft", "auto", "agent", "fallback"},
         NEW draft \in Nat, Post(from, draft)
  PROVE  /\ Len(thread) \in Nat
         /\ Len(thread') = Len(thread) + 1
         /\ \A i \in 1..Len(thread) : thread'[i] = thread[i]
         /\ thread'[Len(thread')] = [from |-> from, draft |-> draft]
<1>1. [from |-> from, draft |-> draft] \in Message
  BY DEF Message
<1>2. QED
  BY <1>1, AppendProperties, LenProperties DEF RowsOK, Post

\* The steps that write a message, and what they write.
Writes(p, from, draft) ==
  \/ FirstMessage(p) /\ from = "customer" /\ draft = 0
  \/ Greet(p) /\ from = "greeting" /\ draft = 0
  \/ Inbound(p) /\ from \in Customer /\ draft = 0
  \/ TriageFallback(p) /\ from = "fallback" /\ draft = 0
  \/ Fallback(p) /\ from = "fallback" /\ draft = 0
  \/ /\ SendMessage(p)
     /\ from = (IF job[p].kind = "send" THEN "draft" ELSE "auto")
     /\ draft = job[p].draft
  \/ Reply(p) /\ from = "agent" /\ draft = 0

LEMMA WritesPosts ==
  ASSUME TypeOK, NEW p \in Proc,
         \/ FirstMessage(p) \/ Greet(p) \/ Inbound(p) \/ TriageFallback(p) \/ Fallback(p)
         \/ SendMessage(p) \/ Reply(p)
  PROVE  \E from \in Customer \cup {"greeting", "draft", "auto", "agent", "fallback"},
            draft \in Nat :
           /\ Writes(p, from, draft)
           /\ Post(from, draft)
           /\ UNCHANGED <<ticket, drafts, runs, embedded>>
<1>1. job[p].draft \in Nat
  BY DEF TypeOK
<1>2. QED
  BY <1>1 DEF Writes, FirstMessage, Greet, Inbound, TriageFallback, Fallback, SendMessage, Reply,
       Customer

LEMMA StepGrows == TypeOK /\ [Next]_vars => Grows
<1> SUFFICES ASSUME TypeOK, [Next]_vars PROVE Grows
  OBVIOUS
<1>1. RowsOK /\ RequestsOK /\ Len(thread) \in Nat /\ Len(drafts) \in Nat
  BY TypeParts, LenProperties DEF RowsOK
<1>2. ASSUME UNCHANGED <<thread, drafts, runs>>,
             ticket.triaged => ticket'.triaged, ticket.human => ticket'.human
      PROVE  Grows
  BY <1>1, <1>2 DEF Grows
<1>3. ASSUME NEW p \in Proc,
             \/ FirstMessage(p) \/ Greet(p) \/ Inbound(p) \/ TriageFallback(p) \/ Fallback(p)
             \/ SendMessage(p) \/ Reply(p)
      PROVE  Grows
  <2>1. PICK from \in Customer \cup {"greeting", "draft", "auto", "agent", "fallback"},
             draft \in Nat :
               Post(from, draft) /\ UNCHANGED <<ticket, drafts, runs, embedded>>
    BY <1>3, WritesPosts
  <2>2. Len(thread') = Len(thread) + 1 /\ \A i \in 1..Len(thread) : thread'[i] = thread[i]
    BY <1>1, <2>1, PostGrows
  <2>3. UNCHANGED <<ticket, drafts, runs>>
    BY <2>1
  <2>4. QED
    BY <1>1, <2>2, <2>3 DEF Grows
<1>4. ASSUME NEW p \in Proc, NEW outcome \in Outcome, InsertDraft(p, outcome)
      PROVE  Grows
  <2> DEFINE new == [answers |-> job[p].answers, resolution |-> outcome.resolution,
                     gated |-> outcome.gated, status |-> "generated", eval |-> job[p].kind = "eval"]
  <2>1. job[p].answers \in Nat
    BY DEF TypeOK
  <2>2. new \in Draft
    BY <2>1, OutcomeAssumption DEF Draft
  <2>3. drafts' = Append(drafts, new) /\ UNCHANGED <<ticket, thread, runs>>
    BY <1>4 DEF InsertDraft
  <2> HIDE DEF new
  <2>4. Len(drafts') = Len(drafts) + 1 /\ \A d \in 1..Len(drafts) : drafts'[d] = drafts[d]
    BY <1>1, <2>2, <2>3, AppendProperties DEF RowsOK
  <2>5. QED
    BY <1>1, <2>3, <2>4 DEF Grows
<1>5. ASSUME NEW p \in Proc, MarkSent(p)
      PROVE  Grows
  <2> DEFINE e == job[p].draft
             new == [drafts[e] EXCEPT !.status = "sent"]
  <2>1. e \in 1..Len(drafts)
    BY <1>1, <1>5, StepNames DEF MarkSent, RequestsOK
  <2>2. drafts[e] \in Draft
    BY <1>1, <2>1, ElementOfSeq DEF RowsOK
  <2>3. /\ new \in Draft
        /\ new.resolution = drafts[e].resolution
        /\ new.gated = drafts[e].gated
        /\ new.status = "sent"
    BY <2>2 DEF Draft
  <2>4. drafts' = [drafts EXCEPT ![e] = new] /\ UNCHANGED <<ticket, thread, runs>>
    BY <1>5 DEF MarkSent
  <2> HIDE DEF new, e
  <2>5. Len(drafts') = Len(drafts)
        /\ \A d \in 1..Len(drafts) : drafts'[d] = IF d = e THEN new ELSE drafts[d]
    BY <1>1, <2>1, <2>3, <2>4, ExceptSeq DEF RowsOK
  <2>6. QED
    BY <1>1, <2>3, <2>4, <2>5 DEF Grows
<1>6. ASSUME NEW p \in Proc, LogDraft(p)
      PROVE  Grows
  BY <1>1, <1>6 DEF LogDraft, Grows
<1>7. ASSUME NEW p \in Proc, Start(p)
      PROVE  Grows
  <2>1. CASE CreateTicket(p)
    BY <2>1, <1>2 DEF CreateTicket, NoTicket, NewTicket
  <2>2. CASE UNCHANGED <<ticket, thread, drafts, runs>>
    BY <2>2, <1>2
  <2>3. QED
    BY <1>7, <2>1, <2>2 DEF Start, StartInbound, StartTriage, StartEval, StartDraft, StartSend, StartReply,
         StartResolve, StartClose
<1>8. ASSUME NEW p \in Proc,
             \/ SetReplied(p) \/ Advance(p) \/ FailAdvance(p) \/ FailAwait(p) \/ SetAwaiting(p)
             \/ ReplyAwaiting(p) \/ SetResolved(p) \/ SetClosed(p)
      PROVE  Grows
  <2>1. PICK status \in {"customer_replied", "in_progress", "awaiting_customer", "resolved",
                          "closed"} : SetStatus(status)
    BY <1>8 DEF SetReplied, Advance, FailAdvance, FailAwait, SetAwaiting, ReplyAwaiting,
         SetResolved, SetClosed
  <2>2. ticket'.triaged = ticket.triaged /\ ticket'.human = ticket.human
    BY <1>1, <2>1 DEF SetStatus, RowsOK, TicketRow
  <2>3. UNCHANGED <<thread, drafts, runs>>
    BY <1>8 DEF SetReplied, Advance, FailAdvance, FailAwait, SetAwaiting, ReplyAwaiting,
         SetResolved, SetClosed
  <2>4. QED
    BY <1>2, <2>2, <2>3
<1>9. ASSUME NEW p \in Proc, SaveTriage(p) \/ MarkHuman(p)
      PROVE  Grows
  <2>1. (ticket.triaged => ticket'.triaged) /\ (ticket.human => ticket'.human)
    BY <1>1, <1>9 DEF SaveTriage, MarkHuman, RowsOK, TicketRow
  <2>2. UNCHANGED <<thread, drafts, runs>>
    BY <1>9 DEF SaveTriage, MarkHuman
  <2>3. QED
    BY <1>2, <2>1, <2>2
<1>10. ASSUME NEW p \in Proc,
              \/ StartPipeline(p) \/ LogTriage(p) \/ TriageFails(p) \/ LogFailed(p) \/ Reread(p)
              \/ ReadThread(p) \/ DraftThrows(p) \/ FindSent(p) \/ Embed(p) \/ QueryThrows(p)
       PROVE  Grows
  <2>1. UNCHANGED <<ticket, thread, drafts, runs>>
    BY <1>10 DEF StartPipeline, LogTriage, TriageFails, LogFailed, Reread, ReadThread, DraftThrows,
         FindSent, Embed, QueryThrows
  <2>2. QED
    BY <2>1, <1>2
<1>11. CASE Crash \/ UNCHANGED vars
  <2>1. UNCHANGED <<ticket, thread, drafts, runs>>
    BY <1>11 DEF Crash, vars
  <2>2. QED
    BY <2>1, <1>2
<1>12. QED
  BY <1>3, <1>4, <1>5, <1>6, <1>7, <1>8, <1>9, <1>10, <1>11 DEF Next, ReliableNext, Continue

\* A step of one request leaves the others where they are.
LEMMA OthersWait ==
  ASSUME TypeOK, NEW p \in Proc, Start(p) \/ Continue(p) \/ QueryThrows(p),
         NEW q \in Proc \ {p}
  PROVE  pc'[q] = pc[q] /\ job'[q] = job[q]
<1>1. pc \in [Proc -> Steps] /\ job \in [Proc -> JobRecord]
  BY TypeParts DEF RequestsOK
<1>2. CASE Start(p)
  BY <1>1, <1>2 DEF Start, CreateTicket, StartInbound, StartTriage, StartEval, StartDraft, StartSend,
       StartReply, StartResolve, StartClose, Go
<1>3. CASE Continue(p)
  BY <1>1, <1>3 DEF Continue, Go, Finish, FirstMessage, Greet, Inbound, SetReplied, StartPipeline,
       SaveTriage, Advance, LogTriage, TriageFails, FailAdvance, FailAwait, TriageFallback,
       LogFailed, Reread, ReadThread, InsertDraft, DraftThrows, Fallback, LogDraft, SendMessage,
       MarkSent, SetAwaiting, Reply, ReplyAwaiting, MarkHuman, SetResolved, FindSent, Embed,
       SetClosed
<1>4. CASE QueryThrows(p)
  BY <1>1, <1>4 DEF QueryThrows, Go, Finish
<1>5. QED
  BY <1>2, <1>3, <1>4

LEMMA Going ==
  ASSUME TypeOK, NEW p \in Proc, NEW step, Go(p, step)
  PROVE  pc'[p] = step
BY DEF TypeOK, Go

LEMMA Finishing ==
  ASSUME TypeOK, NEW p \in Proc, Finish(p)
  PROVE  pc'[p] = "idle"
BY DEF TypeOK, Finish

\* Only these steps write the drafts.
LEMMA DraftWriters ==
  ASSUME [Next]_vars
  PROVE  \/ UNCHANGED drafts
         \/ \E p \in Proc : MarkSent(p) \/ \E outcome \in Outcome : InsertDraft(p, outcome)
BY DEF Next, ReliableNext, Start, Continue, QueryThrows, Crash, vars, CreateTicket, StartInbound,
         StartTriage, StartEval, StartDraft, StartSend, StartReply, StartResolve, StartClose,
         FirstMessage, Greet, Inbound, SetReplied, StartPipeline, SaveTriage, Advance,
         LogTriage, TriageFails, FailAdvance, FailAwait, TriageFallback, LogFailed, Reread,
         ReadThread, DraftThrows, Fallback, LogDraft, SendMessage, SetAwaiting, Reply,
         ReplyAwaiting, MarkHuman, SetResolved, FindSent, Embed, SetClosed

-----------------------------------------------------------------------------
(* Triage before draft                                                     *)

\* The steps between a saved triage and the draft.
AfterTriage == {"advance", "log_triage", "reread", "read_thread", "insert_draft"}

TriageInv ==
  /\ DraftFollowsTriage
  /\ \A p \in Proc : pc[p] \in AfterTriage => ticket.triaged

LEMMA TriageStep == TypeOK /\ TriageInv /\ [Next]_vars => TriageInv'
<1> SUFFICES ASSUME TypeOK, TriageInv, [Next]_vars PROVE TriageInv'
  OBVIOUS
<1>1. Grows
  BY StepGrows
<1>2. ASSUME NEW p \in Proc, Start(p) \/ Continue(p) \/ QueryThrows(p)
      PROVE  pc'[p] \in AfterTriage => ticket'.triaged
  <2>1. pc[p] \in AfterTriage => ticket'.triaged
    BY <1>1 DEF TriageInv, Grows
  <2>2. CASE Start(p)
    BY <2>2, Going DEF Start, CreateTicket, StartInbound, StartTriage, StartEval, StartDraft, StartSend,
         StartReply, StartResolve, StartClose, AfterTriage
  <2>3. CASE SaveTriage(p)
    BY <2>3 DEF SaveTriage, TypeOK, TicketRow
  <2>4. CASE StartPipeline(p)
    BY <2>4, Going, Finishing DEF StartPipeline, AfterTriage
  <2>5. CASE Continue(p) /\ pc[p] \notin AfterTriage /\ ~ SaveTriage(p) /\ ~ StartPipeline(p)
    BY <2>5, Going, Finishing DEF Continue, AfterTriage, FirstMessage, Greet, Inbound, SetReplied,
         Advance, LogTriage, TriageFails, FailAdvance, FailAwait, TriageFallback,
         LogFailed, Reread, ReadThread, InsertDraft, DraftThrows, Fallback, LogDraft, SendMessage,
         MarkSent, SetAwaiting, Reply, ReplyAwaiting, MarkHuman, SetResolved, FindSent, Embed,
         SetClosed
  <2>6. CASE QueryThrows(p)
    BY <2>6, Going, Finishing DEF QueryThrows, AfterTriage
  <2>7. QED
    BY <1>2, <2>1, <2>2, <2>3, <2>4, <2>5, <2>6
<1>3. \A p \in Proc : pc'[p] \in AfterTriage => ticket'.triaged
  <2>1. CASE \E p \in Proc : Start(p) \/ Continue(p) \/ QueryThrows(p)
    <3>1. PICK p \in Proc : Start(p) \/ Continue(p) \/ QueryThrows(p)
      BY <2>1
    <3>2. \A q \in Proc \ {p} : pc'[q] = pc[q]
      BY <3>1, OthersWait
    <3>3. QED
      BY <1>1, <1>2, <3>1, <3>2 DEF TriageInv, Grows
  <2>2. CASE Crash
    BY <2>2 DEF Crash, AfterTriage
  <2>3. CASE UNCHANGED vars
    BY <2>3 DEF vars, TriageInv
  <2>4. QED
    BY <2>1, <2>2, <2>3 DEF Next, ReliableNext
<1>4. DraftFollowsTriage'
  <2>1. CASE Len(drafts') = Len(drafts)
    BY <1>1, <2>1 DEF TriageInv, DraftFollowsTriage, Grows
  <2>2. ASSUME NEW p \in Proc, NEW outcome \in Outcome, InsertDraft(p, outcome)
        PROVE  ticket'.triaged
    BY <1>1, <2>2 DEF InsertDraft, TriageInv, AfterTriage, Grows
  <2>3. ASSUME NEW p \in Proc, MarkSent(p)
        PROVE  Len(drafts') = Len(drafts)
    <3>1. drafts' = [drafts EXCEPT ![job[p].draft] =
                       [drafts[job[p].draft] EXCEPT !.status = "sent"]]
      BY <2>3 DEF MarkSent
    <3>2. DOMAIN drafts' = DOMAIN drafts /\ drafts \in Seq(Draft) /\ drafts' \in Seq(Draft)
      BY <3>1, StepTyped DEF TypeOK
    <3>3. QED
      BY <3>2, LenProperties
  <2>4. QED
    BY <2>1, <2>2, <2>3, DraftWriters DEF DraftFollowsTriage
<1>5. QED
  BY <1>3, <1>4 DEF TriageInv

LEMMA InitTriage == Init => TriageInv
BY DEF Init, TriageInv, DraftFollowsTriage, AfterTriage

(* No draft without a triage, for any number of overlapping handlers.       *)
THEOREM TriageComesFirst == Spec => []DraftFollowsTriage
<1>1. Init => TypeOK /\ TriageInv
  BY InitTyped, InitTriage
<1>2. TypeOK /\ TriageInv /\ [Next]_vars => (TypeOK /\ TriageInv)'
  BY StepTyped, TriageStep
<1>3. TriageInv => DraftFollowsTriage
  BY DEF TriageInv
<1>4. QED
  BY <1>1, <1>2, <1>3, PTL DEF Spec

-----------------------------------------------------------------------------
(* The thread comes first                                                  *)

\* What a request has posted or read by the time it writes the claim.
Prepared(p) ==
  /\ pc[p] = "mark_sent" => Posted({"draft", "auto"}, job[p].draft)
  /\ pc[p] = "set_replied" => Posted(Customer, 0)
  /\ pc[p] \in {"reply_awaiting", "mark_human"} => Posted({"agent"}, 0)
  /\ pc[p] = "embed" => drafts[job[p].draft].status = "sent"

ThreadInv == ThreadComesFirst /\ \A p \in Proc : Prepared(p)

LEMMA PostedStays ==
  ASSUME TypeOK, Grows, TypeOK', NEW from, NEW d, Posted(from, d)
  PROVE  Posted(from, d)'
<1>1. Len(thread) \in Nat /\ Len(thread') \in Nat
  BY LenProperties DEF TypeOK
<1>2. PICK i \in 1..Len(thread) : thread[i].from \in from /\ thread[i].draft = d
  BY DEF Posted
<1>3. i \in 1..Len(thread') /\ thread'[i] = thread[i]
  BY <1>1 DEF Grows
<1>4. QED
  BY <1>2, <1>3 DEF Posted

LEMMA NowPosted ==
  ASSUME TypeOK,
         NEW from \in Customer \cup {"greeting", "draft", "auto", "agent", "fallback"},
         NEW draft \in Nat, Post(from, draft), NEW S, from \in S
  PROVE  Posted(S, draft)'
<1>1. /\ Len(thread) \in Nat
      /\ Len(thread') = Len(thread) + 1
      /\ thread'[Len(thread')] = [from |-> from, draft |-> draft]
  BY PostGrows, TypeParts
<1>2. Len(thread') \in 1..Len(thread')
  BY <1>1
<1>3. thread'[Len(thread')].from = from /\ thread'[Len(thread')].draft = draft
  BY <1>1
<1>4. QED
  BY <1>2, <1>3 DEF Posted

\* A request that stays put keeps what it prepared.
LEMMA PreparedStays ==
  ASSUME TypeOK, TypeOK', Grows, NEW p \in Proc, Prepared(p),
         pc'[p] = pc[p], job'[p] = job[p]
  PROVE  Prepared(p)'
<1>1. pc[p] = "embed" => job[p].draft \in 1..Len(drafts)
  BY StepNames DEF TypeOK
<1>2. pc[p] = "embed" => drafts'[job'[p].draft].status = "sent"
  BY <1>1 DEF Grows, Prepared
<1>3. pc[p] = "mark_sent" => Posted({"draft", "auto"}, job[p].draft)'
  <2>1. SUFFICES ASSUME pc[p] = "mark_sent"
                 PROVE  \E i \in 1..Len(thread') :
                          /\ thread'[i].from \in {"draft", "auto"}
                          /\ thread'[i].draft = job[p].draft
    BY DEF Posted
  <2>2. PICK i \in 1..Len(thread) :
          thread[i].from \in {"draft", "auto"} /\ thread[i].draft = job[p].draft
    BY <2>1 DEF Prepared, Posted
  <2>3. Len(thread) \in Nat /\ Len(thread') \in Nat
    BY LenProperties DEF TypeOK
  <2>4. i \in 1..Len(thread') /\ thread'[i] = thread[i]
    BY <2>3 DEF Grows
  <2>5. QED
    BY <2>2, <2>4
<1>4. pc[p] = "set_replied" => Posted(Customer, 0)'
  BY PostedStays DEF Prepared
<1>5. pc[p] \in {"reply_awaiting", "mark_human"} => Posted({"agent"}, 0)'
  BY PostedStays DEF Prepared
<1>6. QED
  BY <1>2, <1>3, <1>4, <1>5 DEF Prepared, Posted

\* A request that moves on has prepared what its next step claims.
LEMMA PreparedStep ==
  ASSUME TypeOK, TypeOK', Grows, NEW p \in Proc, Prepared(p),
         Start(p) \/ Continue(p) \/ QueryThrows(p)
  PROVE  Prepared(p)'
<1> DEFINE Claims == {"mark_sent", "set_replied", "reply_awaiting", "mark_human", "embed"}
<1>1. CASE Start(p)
  <2>1. pc'[p] \notin Claims
    BY <1>1, Going DEF Start, CreateTicket, StartInbound, StartTriage, StartEval, StartDraft, StartSend,
         StartReply, StartResolve, StartClose
  <2>2. QED
    BY <2>1 DEF Prepared
<1>2. CASE SendMessage(p)
  <2>1. job[p].draft \in Nat /\ job'[p] = job[p] /\ pc'[p] = "mark_sent"
    BY <1>2, Going DEF SendMessage, TypeOK
  <2>2. PICK from \in {"draft", "auto"} : Post(from, job[p].draft)
    BY <1>2 DEF SendMessage
  <2>3. /\ Len(thread) \in Nat
        /\ Len(thread') = Len(thread) + 1
        /\ thread'[Len(thread')] = [from |-> from, draft |-> job[p].draft]
    BY <2>1, <2>2, PostGrows, TypeParts
  <2>4. Len(thread') \in 1..Len(thread')
    BY <2>3
  <2>5. thread'[Len(thread')].from = from /\ thread'[Len(thread')].draft = job'[p].draft
    BY <2>1, <2>3
  <2>6. \E i \in 1..Len(thread') :
          thread'[i].from \in {"draft", "auto"} /\ thread'[i].draft = job'[p].draft
    BY <2>4, <2>5
  <2>7. QED
    BY <2>1, <2>6 DEF Prepared, Posted
<1>3. CASE Inbound(p)
  <2>1. PICK from \in Customer : Post(from, 0)
    BY <1>3 DEF Inbound, Customer
  <2>2. Posted(Customer, 0)' /\ pc'[p] = "set_replied"
    BY <1>3, <2>1, NowPosted, Going DEF Inbound
  <2>3. QED
    BY <2>2 DEF Prepared
<1>4. CASE Reply(p)
  <2>1. Posted({"agent"}, 0)' /\ pc'[p] = "reply_awaiting"
    BY <1>4, NowPosted, Going DEF Reply
  <2>2. QED
    BY <2>1 DEF Prepared
<1>5. CASE ReplyAwaiting(p)
  <2>1. Posted({"agent"}, 0)' /\ pc'[p] = "mark_human"
    BY <1>5, PostedStays, Going DEF ReplyAwaiting, Prepared
  <2>2. QED
    BY <2>1 DEF Prepared
<1>6. CASE FindSent(p)
  <2>1. CASE Finish(p)
    BY <2>1, Finishing DEF Prepared
  <2>2. ASSUME NEW d \in SentDrafts, Go(p, "embed"), job' = [job EXCEPT ![p].draft = d]
        PROVE  Prepared(p)'
    <3>1. pc'[p] = "embed" /\ job'[p].draft = d
      BY <2>2, Going DEF TypeOK
    <3>2. drafts'[d].status = "sent"
      BY DEF Grows, SentDrafts
    <3>3. QED
      BY <3>1, <3>2 DEF Prepared
  <2>3. QED
    BY <1>6, <2>1, <2>2 DEF FindSent
<1>7. CASE Continue(p) /\ ~ SendMessage(p) /\ ~ Inbound(p) /\ ~ Reply(p) /\ ~ ReplyAwaiting(p)
           /\ ~ FindSent(p)
  <2>1. pc'[p] \notin Claims
    BY <1>7, Going, Finishing DEF Continue, FirstMessage, Greet, SetReplied, StartPipeline,
         SaveTriage, Advance, LogTriage, TriageFails, FailAdvance, FailAwait, TriageFallback,
         LogFailed, Reread, ReadThread, InsertDraft, DraftThrows, Fallback, LogDraft,
         MarkSent, SetAwaiting, MarkHuman, SetResolved, Embed, SetClosed
  <2>2. QED
    BY <2>1 DEF Prepared
<1>8. CASE QueryThrows(p)
  <2>1. pc'[p] \notin Claims
    BY <1>8, Going, Finishing DEF QueryThrows
  <2>2. QED
    BY <2>1 DEF Prepared
<1>9. QED
  BY <1>1, <1>2, <1>3, <1>4, <1>5, <1>6, <1>7, <1>8

\* Only these steps write a claim.
LEMMA EmbeddedWriters ==
  ASSUME [Next]_vars
  PROVE  UNCHANGED embedded \/ \E p \in Proc : Embed(p)
BY DEF Next, ReliableNext, Start, Continue, QueryThrows, Crash, vars, CreateTicket, StartInbound,
         StartTriage, StartEval, StartDraft, StartSend, StartReply, StartResolve, StartClose,
         FirstMessage, Greet, Inbound, SetReplied, StartPipeline, SaveTriage, Advance,
         LogTriage, TriageFails, FailAdvance, FailAwait, TriageFallback, LogFailed, Reread,
         ReadThread, DraftThrows, Fallback, LogDraft, SendMessage, SetAwaiting, Reply,
         ReplyAwaiting, MarkHuman, SetResolved, FindSent, SetClosed, InsertDraft, MarkSent

LEMMA TicketWriters ==
  ASSUME TypeOK, [Next]_vars
  PROVE  \/ ticket'.human = ticket.human /\ ticket'.status = ticket.status
         \/ \E p \in Proc : SetReplied(p) \/ MarkHuman(p) \/ CreateTicket(p)
         \/ \E status \in {"in_progress", "awaiting_customer", "resolved", "closed"} :
              SetStatus(status)
<1>1. CASE UNCHANGED ticket
  BY <1>1
<1>2. CASE \E p \in Proc : SaveTriage(p)
  BY <1>2 DEF SaveTriage, TypeOK, TicketRow
<1>3. CASE \E p \in Proc :
             \/ Advance(p) \/ FailAdvance(p) \/ FailAwait(p) \/ SetAwaiting(p) \/ ReplyAwaiting(p)
             \/ SetResolved(p) \/ SetClosed(p)
  BY <1>3 DEF Advance, FailAdvance, FailAwait, SetAwaiting, ReplyAwaiting, SetResolved, SetClosed
<1>4. QED
  BY <1>1, <1>2, <1>3
     DEF Next, ReliableNext, Start, Continue, QueryThrows, Crash, vars, StartInbound, StartTriage, StartEval,
         StartDraft, StartSend, StartReply, StartResolve, StartClose, FirstMessage, Greet,
         Inbound, StartPipeline, LogTriage, TriageFails, TriageFallback, LogFailed, Reread,
         ReadThread, DraftThrows, Fallback, LogDraft, SendMessage, Reply, FindSent, Embed,
         InsertDraft, MarkSent

\* The drafts after a step: the ones there were, one of them marked, or one more.
LEMMA SentOnlyByMark ==
  ASSUME TypeOK, [Next]_vars, NEW d \in 1..Len(drafts'), drafts'[d].status = "sent"
  PROVE  /\ d \in 1..Len(drafts)
         /\ drafts[d].status = "sent" \/ \E p \in Proc : MarkSent(p) /\ d = job[p].draft
<1>1. drafts \in Seq(Draft) /\ Len(drafts) \in Nat
  BY LenProperties DEF TypeOK
<1>2. CASE UNCHANGED drafts
  BY <1>2
<1>3. ASSUME NEW p \in Proc, MarkSent(p)
      PROVE  d \in 1..Len(drafts) /\ (drafts[d].status = "sent" \/ d = job[p].draft)
  <2> DEFINE e == job[p].draft
             new == [drafts[e] EXCEPT !.status = "sent"]
  <2>1. e \in 1..Len(drafts)
    BY <1>3, StepNames DEF MarkSent, TypeOK
  <2>2. drafts[e] \in Draft
    BY <1>1, <2>1, ElementOfSeq
  <2>3. new \in Draft
    BY <2>2 DEF Draft
  <2>4. drafts' = [drafts EXCEPT ![e] = new]
    BY <1>3 DEF MarkSent
  <2> HIDE DEF new, e
  <2>5. Len(drafts') = Len(drafts)
        /\ \A c \in 1..Len(drafts) : drafts'[c] = IF c = e THEN new ELSE drafts[c]
    BY <1>1, <2>1, <2>3, <2>4, ExceptSeq
  <2>6. d \in 1..Len(drafts) /\ (drafts[d].status = "sent" \/ d = e)
    BY <2>5
  <2>7. QED
    BY <2>6 DEF e
<1>4. ASSUME NEW p \in Proc, NEW outcome \in Outcome, InsertDraft(p, outcome)
      PROVE  d \in 1..Len(drafts) /\ drafts[d].status = "sent"
  <2> DEFINE new == [answers |-> job[p].answers, resolution |-> outcome.resolution,
                     gated |-> outcome.gated, status |-> "generated", eval |-> job[p].kind = "eval"]
  <2>1. job[p].answers \in Nat
    BY DEF TypeOK
  <2>2. new \in Draft /\ new.status = "generated"
    BY <2>1, OutcomeAssumption DEF Draft
  <2>3. drafts' = Append(drafts, new)
    BY <1>4 DEF InsertDraft
  <2> HIDE DEF new
  <2>4. /\ Len(drafts') = Len(drafts) + 1
        /\ \A c \in 1..Len(drafts) : drafts'[c] = drafts[c]
        /\ drafts'[Len(drafts) + 1] = new
    BY <1>1, <2>2, <2>3, AppendProperties
  <2>5. d # Len(drafts) + 1
    BY <2>2, <2>4
  <2>6. QED
    BY <1>1, <2>4, <2>5
<1>5. QED
  BY <1>2, <1>3, <1>4, DraftWriters

LEMMA ThreadStep == TypeOK /\ ThreadInv /\ [Next]_vars => ThreadInv'
<1> SUFFICES ASSUME TypeOK, ThreadInv, [Next]_vars PROVE ThreadInv'
  OBVIOUS
<1>1. Grows /\ TypeOK'
  BY StepGrows, StepTyped
<1>2. ASSUME NEW q \in Proc PROVE Prepared(q)'
  <2>1. Prepared(q)
    BY DEF ThreadInv
  <2>2. ASSUME NEW p \in Proc, Start(p) \/ Continue(p) \/ QueryThrows(p)
        PROVE  Prepared(q)'
    <3>1. CASE p = q
      BY <1>1, <2>1, <2>2, <3>1, PreparedStep
    <3>2. CASE p # q
      BY <1>1, <2>1, <2>2, <3>2, OthersWait, PreparedStays
    <3>3. QED
      BY <3>1, <3>2
  <2>3. CASE Crash
    BY <2>3 DEF Crash, Prepared
  <2>4. CASE UNCHANGED vars
    BY <1>1, <2>1, <2>4, PreparedStays DEF vars
  <2>5. QED
    BY <2>2, <2>3, <2>4 DEF Next, ReliableNext
<1>3. ASSUME NEW d \in 1..Len(drafts'), drafts'[d].status = "sent"
      PROVE  Posted({"draft", "auto"}, d)'
  <2>1. d \in 1..Len(drafts)
    BY <1>3, SentOnlyByMark
  <2>2. Posted({"draft", "auto"}, d)
    <3>1. CASE drafts[d].status = "sent"
      BY <2>1, <3>1 DEF ThreadInv, ThreadComesFirst
    <3>2. ASSUME NEW p \in Proc, MarkSent(p), d = job[p].draft
          PROVE  Posted({"draft", "auto"}, d)
      BY <3>2 DEF MarkSent, ThreadInv, Prepared
    <3>3. QED
      BY <1>3, <3>1, <3>2, SentOnlyByMark
  <2>3. QED
    BY <1>1, <2>2, PostedStays
<1>4. ASSUME NEW d \in embedded'
      PROVE  drafts'[d].status = "sent"
  <2>1. CASE d \in embedded
    <3>1. d \in 1..Len(drafts) /\ drafts[d].status = "sent"
      BY <2>1 DEF TypeOK, ThreadInv, ThreadComesFirst
    <3>2. QED
      BY <1>1, <3>1 DEF Grows
  <2>2. ASSUME NEW p \in Proc, Embed(p), d = job[p].draft
        PROVE  drafts'[d].status = "sent"
    <3>1. d \in 1..Len(drafts) /\ drafts[d].status = "sent"
      BY <2>2, StepNames DEF Embed, TypeOK, ThreadInv, Prepared
    <3>2. QED
      BY <1>1, <3>1 DEF Grows
  <2>3. QED
    BY <1>4, <2>1, <2>2, EmbeddedWriters DEF Embed
<1>5. ASSUME ticket'.human
      PROVE  Posted({"agent"}, 0)'
  <2>1. CASE ticket.human
    BY <1>1, <2>1, PostedStays DEF ThreadInv, ThreadComesFirst
  <2>2. ASSUME NEW p \in Proc, MarkHuman(p)
        PROVE  Posted({"agent"}, 0)'
    BY <1>1, <2>2, PostedStays DEF MarkHuman, ThreadInv, Prepared
  <2>3. ASSUME NEW p \in Proc, SetReplied(p)
        PROVE  ticket'.human = ticket.human
    BY <2>3 DEF SetReplied, SetStatus, TypeOK, TicketRow
  <2>4. ASSUME NEW p \in Proc, CreateTicket(p)
        PROVE  ~ ticket'.human
    BY <2>4 DEF CreateTicket, NewTicket, NoTicket
  <2>5. ASSUME NEW status \in {"in_progress", "awaiting_customer", "resolved", "closed"},
               SetStatus(status)
        PROVE  ticket'.human = ticket.human
    BY <2>5 DEF SetStatus, TypeOK, TicketRow
  <2>6. QED
    BY <1>5, <2>1, <2>2, <2>3, <2>4, <2>5, TicketWriters
<1>6. ASSUME ticket'.status = "customer_replied"
      PROVE  Posted(Customer, 0)'
  <2>1. CASE ticket.status = "customer_replied"
    BY <1>1, <2>1, PostedStays DEF ThreadInv, ThreadComesFirst
  <2>2. ASSUME NEW p \in Proc, SetReplied(p)
        PROVE  Posted(Customer, 0)'
    BY <1>1, <2>2, PostedStays DEF SetReplied, ThreadInv, Prepared
  <2>3. ASSUME NEW p \in Proc, MarkHuman(p)
        PROVE  ticket'.status = ticket.status
    BY <2>3 DEF MarkHuman, TypeOK, TicketRow
  <2>4. ASSUME NEW p \in Proc, CreateTicket(p)
        PROVE  ticket'.status # "customer_replied"
    BY <2>4 DEF CreateTicket, NewTicket, NoTicket
  <2>5. ASSUME NEW status \in {"in_progress", "awaiting_customer", "resolved", "closed"},
               SetStatus(status)
        PROVE  ticket'.status = status
    BY <2>5 DEF SetStatus, TypeOK, TicketRow
  <2>6. QED
    BY <1>6, <2>1, <2>2, <2>3, <2>4, <2>5, TicketWriters
<1>7. ThreadComesFirst'
  BY <1>3, <1>4, <1>5, <1>6 DEF ThreadComesFirst
<1>8. QED
  BY <1>2, <1>7 DEF ThreadInv

LEMMA InitThread == Init => ThreadInv
<1> SUFFICES ASSUME Init PROVE ThreadInv
  OBVIOUS
<1>1. /\ Len(drafts) = 0 /\ embedded = {} /\ ~ ticket.human
      /\ ticket.status # "customer_replied"
      /\ \A p \in Proc : pc[p] = "idle"
  BY InitRows
<1>2. QED
  BY <1>1 DEF ThreadInv, ThreadComesFirst, Prepared

(* Whatever fails and overlaps, no row claims what the thread does not show.*)
THEOREM NothingIsClaimedUnsent == Spec => []ThreadComesFirst
<1>1. Init => TypeOK /\ ThreadInv
  BY InitTyped, InitThread
<1>2. TypeOK /\ ThreadInv /\ [Next]_vars => (TypeOK /\ ThreadInv)'
  BY StepTyped, ThreadStep
<1>3. ThreadInv => ThreadComesFirst
  BY DEF ThreadInv
<1>4. QED
  BY <1>1, <1>2, <1>3, PTL DEF Spec

-----------------------------------------------------------------------------
(* Auto-send                                                               *)

\* The draft may go out without a person, and its agent run is on record.
Cleared(d) ==
  /\ d \in runs
  /\ drafts[d].resolution = "answered"
  /\ ~ drafts[d].gated

\* The request is about to post a draft by itself.
AutoSending(p) == pc[p] = "send_message" /\ job[p].kind # "send"

AutoInv ==
  /\ AutoSendIsSafe
  /\ \A p \in Proc : AutoSending(p) => Cleared(job[p].draft)

LEMMA ClearedStays ==
  ASSUME TypeOK, Grows, NEW d \in 1..Len(drafts), Cleared(d)
  PROVE  Cleared(d)'
BY DEF Grows, Cleared

LEMMA AutoSendingStep ==
  ASSUME TypeOK, TypeOK', NEW p \in Proc, Start(p) \/ Continue(p) \/ QueryThrows(p),
         AutoSending(p)', NEW d, d = job'[p].draft
  PROVE  Cleared(d)'
<1>1. CASE LogDraft(p)
  <2>1. pc[p] \in HoldsDraft
    BY <1>1, StepNames DEF LogDraft
  <2>2. ~ Finish(p)
    BY Finishing DEF AutoSending
  <2>3. AutoSends(drafts[job[p].draft]) /\ job' = job /\ drafts' = drafts
    BY <1>1, <2>2 DEF LogDraft
  <2>4. d = job[p].draft /\ d \in runs'
    BY <1>1, <2>3 DEF LogDraft
  <2>5. QED
    BY <2>3, <2>4 DEF Cleared, AutoSends
<1>2. CASE \E e \in 1..Len(drafts) : StartSend(p, e)
  <2>1. PICK e : job' = [job EXCEPT ![p] = [Job("send", ticket.status) EXCEPT !.draft = e]]
    BY <1>2 DEF StartSend
  <2>2. job'[p].kind = "send"
    BY <2>1 DEF TypeOK, Job, NoJob
  <2>3. QED
    BY <2>2 DEF AutoSending
<1>3. CASE Start(p) /\ ~ \E e \in 1..Len(drafts) : StartSend(p, e)
  <2>1. pc'[p] # "send_message"
    BY <1>3, Going DEF Start, CreateTicket, StartInbound, StartTriage, StartEval, StartDraft,
         StartReply, StartResolve, StartClose
  <2>2. QED
    BY <2>1 DEF AutoSending
<1>4. CASE Continue(p) /\ ~ LogDraft(p)
  <2>1. pc'[p] # "send_message"
    BY <1>4, Going, Finishing DEF Continue, FirstMessage, Greet, Inbound, SetReplied, StartPipeline,
         SaveTriage, Advance, LogTriage, TriageFails, FailAdvance, FailAwait, TriageFallback,
         LogFailed, Reread, ReadThread, InsertDraft, DraftThrows, Fallback, SendMessage,
         MarkSent, SetAwaiting, Reply, ReplyAwaiting, MarkHuman, SetResolved, FindSent, Embed,
         SetClosed
  <2>2. QED
    BY <2>1 DEF AutoSending
<1>5. CASE QueryThrows(p)
  <2>1. pc'[p] # "send_message"
    BY <1>5, Going, Finishing DEF QueryThrows
  <2>2. QED
    BY <2>1 DEF AutoSending
<1>6. QED
  BY <1>1, <1>2, <1>3, <1>4, <1>5

LEMMA ThreadWriters ==
  ASSUME [Next]_vars
  PROVE  \/ UNCHANGED thread
         \/ \E p \in Proc :
              \/ FirstMessage(p) \/ Greet(p) \/ Inbound(p) \/ TriageFallback(p) \/ Fallback(p)
              \/ SendMessage(p) \/ Reply(p)
BY DEF Next, ReliableNext, Start, Continue, QueryThrows, Crash, vars, CreateTicket, StartInbound,
         StartTriage, StartEval, StartDraft, StartSend, StartReply, StartResolve, StartClose, SetReplied,
         StartPipeline, SaveTriage, Advance, LogTriage, TriageFails, FailAdvance, FailAwait,
         LogFailed, Reread, ReadThread, InsertDraft, DraftThrows, LogDraft, MarkSent, SetAwaiting,
         ReplyAwaiting, MarkHuman, SetResolved, FindSent, Embed, SetClosed

LEMMA AutoStep == TypeOK /\ AutoInv /\ [Next]_vars => AutoInv'
<1> SUFFICES ASSUME TypeOK, AutoInv, [Next]_vars PROVE AutoInv'
  OBVIOUS
<1>1. Grows /\ TypeOK' /\ Len(thread) \in Nat /\ Len(drafts) \in Nat /\ Len(drafts') \in Nat
  BY StepGrows, StepTyped, LenProperties DEF TypeOK
<1>2. ASSUME NEW q \in Proc, pc'[q] = pc[q], job'[q] = job[q], AutoSending(q)',
             NEW d, d = job'[q].draft
      PROVE  Cleared(d)'
  <2>1. job[q].draft \in 1..Len(drafts)
    BY <1>2, StepNames DEF AutoSending, TypeOK
  <2>2. Cleared(d) /\ d \in 1..Len(drafts)
    BY <1>2, <2>1 DEF AutoSending, AutoInv
  <2>3. QED
    BY <1>1, <2>2, ClearedStays
<1>3. ASSUME NEW q \in Proc, AutoSending(q)', NEW d, d = job'[q].draft
      PROVE  Cleared(d)'
  <2>1. ASSUME NEW p \in Proc, Start(p) \/ Continue(p) \/ QueryThrows(p)
        PROVE  Cleared(d)'
    BY <1>1, <1>2, <1>3, <2>1, AutoSendingStep, OthersWait
  <2>2. CASE Crash
    BY <1>3, <2>2 DEF Crash, AutoSending
  <2>3. CASE UNCHANGED vars
    BY <1>2, <1>3, <2>3 DEF vars
  <2>4. QED
    BY <2>1, <2>2, <2>3 DEF Next, ReliableNext
<1>4. ASSUME NEW i \in 1..Len(thread'), thread'[i].from = "auto", NEW d, d = thread'[i].draft
      PROVE  d \in 1..Len(drafts') /\ Cleared(d)'
  <2>1. ASSUME i \in 1..Len(thread)
        PROVE  d \in 1..Len(drafts') /\ Cleared(d)'
    <3>1. thread'[i] = thread[i]
      BY <1>1, <2>1 DEF Grows
    <3>2. d \in 1..Len(drafts) /\ Cleared(d)
      BY <1>4, <2>1, <3>1 DEF AutoInv, AutoSendIsSafe, Cleared
    <3>3. QED
      BY <1>1, <3>2, ClearedStays DEF Grows
  <2>2. ASSUME NEW p \in Proc,
               \/ FirstMessage(p) \/ Greet(p) \/ Inbound(p) \/ TriageFallback(p) \/ Fallback(p)
               \/ SendMessage(p) \/ Reply(p),
               i \notin 1..Len(thread)
        PROVE  d \in 1..Len(drafts') /\ Cleared(d)'
    <3>1. PICK from \in Customer \cup {"greeting", "draft", "auto", "agent", "fallback"},
               draft \in Nat :
                 Writes(p, from, draft) /\ Post(from, draft) /\ UNCHANGED <<drafts, runs>>
      BY <2>2, WritesPosts
    <3>2. /\ Len(thread') = Len(thread) + 1
          /\ thread'[Len(thread')] = [from |-> from, draft |-> draft]
      BY <3>1, PostGrows, TypeParts
    <3>3. i = Len(thread')
      BY <1>1, <2>2, <3>2
    <3>4. from = "auto" /\ thread'[i].draft = draft
      BY <1>4, <3>2, <3>3
    <3>5. SendMessage(p) /\ job[p].kind # "send" /\ draft = job[p].draft
      BY <3>1, <3>4 DEF Writes, Customer
    <3>6. draft \in 1..Len(drafts) /\ Cleared(draft)
      BY <3>5, StepNames DEF SendMessage, TypeOK, AutoInv, AutoSending
    <3>7. d = draft /\ UNCHANGED <<drafts, runs>>
      BY <1>4, <3>1, <3>4
    <3>8. QED
      BY <3>6, <3>7 DEF Cleared
  <2>3. QED
    BY <1>4, <2>1, <2>2, ThreadWriters
<1>5. AutoSendIsSafe'
  <2> SUFFICES ASSUME NEW i \in 1..Len(thread'), thread'[i].from = "auto"
               PROVE  /\ thread'[i].draft \in 1..Len(drafts')
                      /\ drafts'[thread'[i].draft].resolution = "answered"
                      /\ ~ drafts'[thread'[i].draft].gated
                      /\ thread'[i].draft \in runs'
    BY DEF AutoSendIsSafe
  <2>1. \A d : d = thread'[i].draft => d \in 1..Len(drafts') /\ Cleared(d)'
    BY <1>4
  <2>2. QED
    BY <2>1 DEF Cleared
<1>6. QED
  BY <1>3, <1>5 DEF AutoInv

LEMMA InitAuto == Init => AutoInv
BY InitRows DEF Init, AutoInv, AutoSendIsSafe, AutoSending

(* Nothing that needs a person, and nothing whose agent run is missing, is  *)
(* ever sent automatically.                                                 *)
THEOREM OnlyClearedDraftsGoOut == Spec => []AutoSendIsSafe
<1>1. Init => TypeOK /\ AutoInv
  BY InitTyped, InitAuto
<1>2. TypeOK /\ AutoInv /\ [Next]_vars => (TypeOK /\ AutoInv)'
  BY StepTyped, AutoStep
<1>3. AutoInv => AutoSendIsSafe
  BY DEF AutoInv
<1>4. QED
  BY <1>1, <1>2, <1>3, PTL DEF Spec

-----------------------------------------------------------------------------
(* What a handler remembers of the ticket                                  *)

\* The status a handler read allows the write it is about to make ...
SeenAllows(p) ==
  /\ pc[p] \in {"advance", "fail_advance"} => CanTransition(job[p].seen, "in_progress")
  /\ pc[p] \in {"fail_await", "send_message", "mark_sent", "set_awaiting"} =>
       CanTransition(job[p].seen, "awaiting_customer")
  /\ pc[p] \in {"inbound", "set_replied"} => CanTransition(job[p].seen, "customer_replied")
  /\ pc[p] \in {"reply", "reply_awaiting", "mark_human"} =>
       job[p].seen \in {"in_progress", "customer_replied"}
  /\ pc[p] = "set_resolved" => CanTransition(job[p].seen, "resolved")
  /\ pc[p] = "set_closed" => CanTransition(job[p].seen, "closed")

\* ... and only a handler that drafts gets to where drafts are written.
KindFits(p) ==
  /\ pc[p] \in {"first_message", "greet"} => job[p].kind = "create"
  /\ pc[p] = "start_pipeline" => job[p].kind = "portal"
  /\ pc[p] \in {"reread", "read_thread", "insert_draft"} => job[p].kind \in DraftingKinds

LocalInv == \A p \in Proc : SeenAllows(p) /\ KindFits(p)

\* The parts of the type invariant the steps below need.
LEMMA RowsAndJobs ==
  ASSUME TypeOK, NEW p \in Proc
  PROVE  /\ ticket \in TicketRow
         /\ pc \in [Proc -> Steps]
         /\ job \in [Proc -> JobRecord]
         /\ job[p] \in JobRecord
BY DEF TypeOK, JobRecord

LEMMA StartLocal ==
  ASSUME TypeOK, NEW p \in Proc, Start(p)
  PROVE  SeenAllows(p)' /\ KindFits(p)'
<1>a. pc \in [Proc -> Steps] /\ job \in [Proc -> JobRecord]
  BY RowsAndJobs
<1> USE DEF SeenAllows, KindFits, Go, Job, NoJob
<1>1. CASE CreateTicket(p)
  BY <1>a, <1>1 DEF CreateTicket
<1>2. ASSUME NEW kind \in {"portal", "simulated"}, StartInbound(p, kind)
      PROVE  SeenAllows(p)' /\ KindFits(p)'
  BY <1>a, <1>2 DEF StartInbound
<1>3. CASE StartTriage(p) \/ StartEval(p)
  BY <1>a, <1>3 DEF StartTriage, StartEval
<1>4. CASE StartDraft(p)
  BY <1>a, <1>4 DEF StartDraft, DraftingKinds
<1>5. ASSUME NEW d \in 1..Len(drafts), StartSend(p, d)
      PROVE  SeenAllows(p)' /\ KindFits(p)'
  BY <1>a, <1>5 DEF StartSend
<1>6. CASE StartReply(p)
  BY <1>a, <1>6 DEF StartReply
<1>7. CASE StartResolve(p)
  BY <1>a, <1>7 DEF StartResolve
<1>8. CASE StartClose(p)
  BY <1>a, <1>8 DEF StartClose
<1>9. QED
  BY <1>1, <1>2, <1>3, <1>4, <1>5, <1>6, <1>7, <1>8 DEF Start

LEMMA ContinueLocal ==
  ASSUME TypeOK, NEW p \in Proc, SeenAllows(p), KindFits(p), Continue(p)
  PROVE  SeenAllows(p)' /\ KindFits(p)'
<1>a. /\ pc \in [Proc -> Steps]
      /\ job \in [Proc -> JobRecord]
      /\ job[p] \in JobRecord
  BY RowsAndJobs
<1>1. CASE pc'[p] \in {"idle", "log_triage", "triage_fallback", "log_failed", "fallback",
                       "log_draft", "find_sent", "embed", "triage"}
  BY <1>1 DEF SeenAllows, KindFits
<1> USE DEF SeenAllows, KindFits, Go
<1>2. CASE FirstMessage(p) \/ Greet(p)
  BY <1>a, <1>2 DEF FirstMessage, Greet
<1>3. CASE Inbound(p)
  BY <1>a, <1>3 DEF Inbound
<1>4. CASE SetReplied(p) /\ pc'[p] # "idle"
  BY <1>a, <1>4, Finishing DEF SetReplied
<1>5. CASE SaveTriage(p)
  BY <1>a, <1>5 DEF SaveTriage
<1>6. CASE TriageFails(p)
  BY <1>a, <1>6 DEF TriageFails
<1>7. CASE FailAdvance(p)
  BY <1>a, <1>7 DEF FailAdvance, JobRecord, CanTransition
<1>8. CASE LogTriage(p) /\ pc'[p] # "idle"
  BY <1>a, <1>8, Finishing DEF LogTriage
<1>9. CASE Reread(p)
  BY <1>a, <1>9 DEF Reread, JobRecord
<1>10. CASE ReadThread(p)
  BY <1>a, <1>10 DEF ReadThread, JobRecord
<1>11. CASE LogDraft(p) /\ pc'[p] # "idle"
  BY <1>a, <1>11, Finishing DEF LogDraft
<1>12. CASE SendMessage(p) \/ MarkSent(p)
  BY <1>a, <1>12 DEF SendMessage, MarkSent
<1>13. CASE Reply(p) \/ ReplyAwaiting(p)
  BY <1>a, <1>13 DEF Reply, ReplyAwaiting
<1>14. CASE \/ StartPipeline(p) \/ Advance(p) \/ FailAwait(p) \/ TriageFallback(p) \/ LogFailed(p)
            \/ (\E outcome \in Outcome : InsertDraft(p, outcome)) \/ DraftThrows(p)
            \/ Fallback(p) \/ SetAwaiting(p) \/ MarkHuman(p) \/ SetResolved(p) \/ FindSent(p)
            \/ Embed(p) \/ SetClosed(p)
  BY <1>1, <1>14, Going, Finishing
     DEF StartPipeline, Advance, FailAwait, TriageFallback, LogFailed, InsertDraft, DraftThrows,
         Fallback, SetAwaiting, MarkHuman, SetResolved, FindSent, Embed, SetClosed
<1>15. QED
  BY <1>1, <1>2, <1>3, <1>4, <1>5, <1>6, <1>7, <1>8, <1>9, <1>10, <1>11, <1>12, <1>13, <1>14
     DEF Continue

LEMMA LocalStep == TypeOK /\ LocalInv /\ [Next]_vars => LocalInv'
<1> SUFFICES ASSUME TypeOK, LocalInv, [Next]_vars, NEW q \in Proc
             PROVE  SeenAllows(q)' /\ KindFits(q)'
  BY DEF LocalInv
<1>1. SeenAllows(q) /\ KindFits(q)
  BY DEF LocalInv
<1>2. CASE pc'[q] = pc[q] /\ job'[q] = job[q]
  BY <1>1, <1>2 DEF SeenAllows, KindFits
<1>3. CASE pc'[q] \in {"idle", "fallback", "log_failed"}
  BY <1>3 DEF SeenAllows, KindFits
<1>4. ASSUME NEW p \in Proc, Start(p) \/ Continue(p) \/ QueryThrows(p)
      PROVE  SeenAllows(q)' /\ KindFits(q)'
  <2>1. CASE p # q
    BY <1>2, <1>4, <2>1, OthersWait
  <2>2. CASE p = q /\ QueryThrows(p)
    BY <1>3, <2>2, Going, Finishing DEF QueryThrows
  <2>3. QED
    BY <1>1, <1>4, <2>1, <2>2, StartLocal, ContinueLocal
<1>5. CASE Crash
  BY <1>3, <1>5 DEF Crash
<1>6. CASE UNCHANGED vars
  BY <1>2, <1>6 DEF vars
<1>7. QED
  BY <1>4, <1>5, <1>6 DEF Next, ReliableNext

LEMMA LocalAlways == Spec => [](TypeOK /\ LocalInv)
<1>1. Init => TypeOK /\ LocalInv
  BY InitTyped DEF Init, LocalInv, SeenAllows, KindFits
<1>2. TypeOK /\ LocalInv /\ [Next]_vars => (TypeOK /\ LocalInv)'
  BY StepTyped, LocalStep
<1>3. QED
  BY <1>1, <1>2, PTL DEF Spec

-----------------------------------------------------------------------------
(* The ticket implements its life cycle                                    *)

\* What a handler goes by is what it went by, or what the row now says.
LEMMA StepReads ==
  ASSUME TypeOK, TypeOK', NEW p \in Proc, Start(p) \/ Continue(p) \/ QueryThrows(p)
  PROVE  Lifecycle!Reads(p)
<1>a. /\ ticket \in TicketRow
      /\ job \in [Proc -> JobRecord]
      /\ job' \in [Proc -> JobRecord]
      /\ job[p] \in JobRecord
  BY RowsAndJobs DEF TypeOK, JobRecord
<1>1. ASSUME Finish(p) PROVE job'[p].seen = "absent"
  BY <1>a, <1>1 DEF Finish, NoJob
<1>2. ASSUME job'[p].seen = job[p].seen \/ job'[p].seen \in {ticket'.status, "absent"}
      PROVE  Lifecycle!Reads(p)
  <2>1. \A q \in Proc \ {p} : job'[q].seen = job[q].seen
    BY OthersWait
  <2>2. CASE job'[p].seen = job[p].seen
    BY <2>1, <2>2 DEF Lifecycle!Reads
  <2>3. ASSUME NEW s \in {ticket'.status, "absent"}, job'[p].seen = s
        PROVE  Lifecycle!Reads(p)
    <3>1. [q \in Proc |-> job'[q].seen] = [[q \in Proc |-> job[q].seen] EXCEPT ![p] = s]
      BY <2>1, <2>3
    <3>2. QED
      BY <3>1 DEF Lifecycle!Reads
  <2>4. QED
    BY <1>2, <2>2, <2>3
<1>3. CASE Start(p)
  <2>1. ASSUME CreateTicket(p) PROVE job'[p].seen = ticket'.status
    BY <1>a, <2>1 DEF CreateTicket, NewTicket, Job, NoJob
  <2>2. CASE ~ CreateTicket(p)
    <3>1. PICK kind, d : /\ \/ job' = [job EXCEPT ![p] = Job(kind, ticket.status)]
                            \/ job' = [job EXCEPT ![p] = [Job(kind, ticket.status) EXCEPT !.draft = d]]
                         /\ UNCHANGED ticket
      BY <1>3, <2>2 DEF Start, StartInbound, StartTriage, StartEval, StartDraft, StartSend,
           StartReply, StartResolve, StartClose
    <3>2. job'[p].seen = ticket.status
      BY <1>a, <3>1 DEF Job, NoJob
    <3>3. QED
      BY <1>2, <3>1, <3>2
  <2>3. QED
    BY <1>2, <2>1, <2>2
<1>4. CASE StartPipeline(p) \/ Reread(p)
  BY <1>a, <1>1, <1>2, <1>4 DEF StartPipeline, Reread, JobRecord
<1>5. CASE FailAdvance(p)
  BY <1>a, <1>2, <1>5 DEF FailAdvance, SetStatus, JobRecord, TicketRow
<1>6. CASE ReadThread(p) \/ FindSent(p) \/ (\E outcome \in Outcome : InsertDraft(p, outcome))
  <2>1. ASSUME NEW outcome \in Outcome, InsertDraft(p, outcome) PROVE job'[p].seen = job[p].seen
    BY <1>a, <2>1 DEF InsertDraft, JobRecord
  <2>2. ASSUME ReadThread(p) PROVE job'[p].seen = job[p].seen
    BY <1>a, <2>2 DEF ReadThread, JobRecord
  <2>3. ASSUME FindSent(p) PROVE job'[p].seen = job[p].seen \/ Finish(p)
    BY <1>a, <2>3 DEF FindSent, JobRecord
  <2>4. QED
    BY <1>1, <1>2, <1>6, <2>1, <2>2, <2>3
<1>7. CASE UNCHANGED job \/ Finish(p)
  BY <1>1, <1>2, <1>7
<1>8. QED
  BY <1>3, <1>4, <1>5, <1>6, <1>7
     DEF Continue, QueryThrows, FirstMessage, Greet, Inbound, SetReplied, SaveTriage, Advance,
         LogTriage, TriageFails, FailAwait, TriageFallback, LogFailed, DraftThrows, Fallback,
         LogDraft, SendMessage, MarkSent, SetAwaiting, Reply, ReplyAwaiting, MarkHuman,
         SetResolved, Embed, SetClosed

\* Nobody sets out to draft but past a look at the owner.
LEMMA StepChecks ==
  ASSUME TypeOK, LocalInv, NEW p \in Proc, Start(p) \/ Continue(p) \/ QueryThrows(p)
  PROVE  Lifecycle!Checks(p)
<1>a. /\ pc \in [Proc -> Steps]
      /\ job \in [Proc -> JobRecord]
      /\ job[p] \in JobRecord
  BY RowsAndJobs
<1>1. \A q \in Proc \ {p} : q \in Drafters' => q \in Drafters
  BY OthersWait DEF Drafters
<1>2. ASSUME ~ ticket.human \/ (p \in Drafters' => p \in Drafters)
      PROVE  Lifecycle!Checks(p)
  <2>1. Drafters' \subseteq Drafters \cup {p}
    BY <1>1 DEF Drafters
  <2>2. QED
    BY <1>2, <2>1 DEF Lifecycle!Checks
<1>3. CASE CreateTicket(p) \/ StartDraft(p)
  BY <1>2, <1>3 DEF CreateTicket, NoTicket, StartDraft
<1>4. CASE Start(p) /\ ~ CreateTicket(p) /\ ~ StartDraft(p)
  <2>1. p \notin Drafters'
    BY <1>a, <1>4 DEF Start, StartInbound, StartTriage, StartEval, StartSend, StartReply,
         StartResolve, StartClose, Drafters, Go, Job, NoJob, DraftingKinds, PipelineKinds
  <2>2. QED
    BY <1>2, <2>1
<1>5. CASE StartPipeline(p)
  <2>1. CASE ticket.human
    <3>1. pc'[p] = "idle"
      BY <1>5, <2>1, Finishing DEF StartPipeline
    <3>2. QED
      BY <1>2, <3>1 DEF Drafters
  <2>2. QED
    BY <1>2, <2>1
<1>6. ASSUME job'[p].kind = job[p].kind,
             pc[p] \in {"first_message", "greet", "triage", "advance", "log_triage", "reread",
                        "read_thread", "insert_draft"}
      PROVE  Lifecycle!Checks(p)
  BY <1>2, <1>6 DEF Drafters
<1>7. CASE \/ FirstMessage(p) \/ Greet(p) \/ SaveTriage(p) \/ Advance(p) \/ TriageFails(p)
           \/ Reread(p) \/ ReadThread(p)
  <2>1. job'[p].kind = job[p].kind
    BY <1>a, <1>7 DEF FirstMessage, Greet, SaveTriage, Advance, TriageFails, Reread, ReadThread,
         JobRecord
  <2>2. QED
    BY <1>6, <1>7, <2>1
       DEF FirstMessage, Greet, SaveTriage, Advance, TriageFails, Reread, ReadThread
<1>8. CASE LogTriage(p)
  <2>1. CASE UNCHANGED job
    BY <1>6, <1>8, <2>1 DEF LogTriage
  <2>2. CASE Finish(p)
    BY <1>2, <2>2, Finishing DEF Drafters
  <2>3. QED
    BY <1>8, <2>1, <2>2 DEF LogTriage
<1>9. ASSUME pc'[p] \notin {"first_message", "greet", "triage", "advance", "log_triage", "reread",
                            "read_thread", "insert_draft"}
      PROVE  Lifecycle!Checks(p)
  BY <1>2, <1>9 DEF Drafters
<1>10. CASE \/ Inbound(p) \/ SetReplied(p) \/ FailAdvance(p) \/ FailAwait(p) \/ TriageFallback(p)
            \/ LogFailed(p) \/ (\E outcome \in Outcome : InsertDraft(p, outcome))
            \/ DraftThrows(p) \/ Fallback(p) \/ LogDraft(p) \/ SendMessage(p) \/ MarkSent(p)
            \/ SetAwaiting(p) \/ Reply(p) \/ ReplyAwaiting(p) \/ MarkHuman(p) \/ SetResolved(p)
            \/ FindSent(p) \/ Embed(p) \/ SetClosed(p) \/ QueryThrows(p)
  BY <1>9, <1>10, Going, Finishing
     DEF Inbound, SetReplied, FailAdvance, FailAwait, TriageFallback, LogFailed, InsertDraft,
         DraftThrows, Fallback, LogDraft, SendMessage, MarkSent, SetAwaiting, Reply,
         ReplyAwaiting, MarkHuman, SetResolved, FindSent, Embed, SetClosed, QueryThrows
<1>11. QED
  BY <1>3, <1>4, <1>5, <1>7, <1>8, <1>10 DEF Continue

\* One more draft is generated, or the customer's drafts stay what they are.
LEMMA StepDrafts ==
  ASSUME TypeOK, LocalInv, NEW p \in Proc, Start(p) \/ Continue(p) \/ QueryThrows(p)
  PROVE  Lifecycle!Drafts(p)
<1>a. drafts \in Seq(Draft) /\ Len(drafts) \in Nat
  BY LenProperties DEF TypeOK
<1>1. CASE UNCHANGED drafts
  BY <1>1 DEF Lifecycle!Drafts, CustomerDrafts
<1>2. CASE MarkSent(p)
  <2> DEFINE e == job[p].draft
             new == [drafts[e] EXCEPT !.status = "sent"]
  <2>1. e \in 1..Len(drafts)
    BY <1>2, StepNames DEF MarkSent, TypeOK
  <2>2. drafts[e] \in Draft
    BY <1>a, <2>1, ElementOfSeq
  <2>3. new \in Draft /\ new.eval = drafts[e].eval
    BY <2>2 DEF Draft
  <2>4. drafts' = [drafts EXCEPT ![e] = new]
    BY <1>2 DEF MarkSent
  <2> HIDE DEF new, e
  <2>5. Len(drafts') = Len(drafts)
        /\ \A c \in 1..Len(drafts) : drafts'[c] = IF c = e THEN new ELSE drafts[c]
    BY <1>a, <2>1, <2>3, <2>4, ExceptSeq
  <2>6. CustomerDrafts' = CustomerDrafts
    BY <2>3, <2>5 DEF CustomerDrafts
  <2>7. QED
    BY <2>6 DEF Lifecycle!Drafts
<1>3. ASSUME NEW outcome \in Outcome, InsertDraft(p, outcome)
      PROVE  Lifecycle!Drafts(p)
  <2> DEFINE new == [answers |-> job[p].answers, resolution |-> outcome.resolution,
                     gated |-> outcome.gated, status |-> "generated",
                     eval |-> job[p].kind = "eval"]
             n == Len(drafts) + 1
  <2>1. job[p].answers \in Nat
    BY DEF TypeOK
  <2>2. new \in Draft /\ new.eval = (job[p].kind = "eval")
    BY <2>1, OutcomeAssumption DEF Draft
  <2>3. drafts' = Append(drafts, new)
    BY <1>3 DEF InsertDraft
  <2> HIDE DEF new
  <2>4. /\ Len(drafts') = n
        /\ \A c \in 1..Len(drafts) : drafts'[c] = drafts[c]
        /\ drafts'[n] = new
    BY <1>a, <2>2, <2>3, AppendProperties
  <2>5. 1..n = 1..Len(drafts) \cup {n} /\ n \notin 1..Len(drafts)
    BY <1>a
  <2>6. CASE job[p].kind = "eval"
    <3>1. CustomerDrafts' = CustomerDrafts
      BY <2>2, <2>4, <2>5, <2>6 DEF CustomerDrafts
    <3>2. QED
      BY <3>1 DEF Lifecycle!Drafts
  <2>7. CASE job[p].kind # "eval"
    <3>1. CustomerDrafts' = CustomerDrafts \cup {n} /\ n \notin CustomerDrafts
      BY <2>2, <2>4, <2>5, <2>7 DEF CustomerDrafts
    <3>2. p \in Drafters
      BY <1>3, <2>7 DEF InsertDraft, LocalInv, KindFits, Drafters
    <3>3. p \notin Drafters'
      BY <1>3, Going DEF InsertDraft, Drafters
    <3>4. QED
      BY <3>1, <3>2, <3>3 DEF Lifecycle!Drafts
  <2>8. QED
    BY <2>6, <2>7
<1>4. QED
  BY <1>1, <1>2, <1>3
     DEF Start, Continue, QueryThrows, CreateTicket, StartInbound, StartTriage, StartEval,
         StartDraft, StartSend, StartReply, StartResolve, StartClose, FirstMessage, Greet,
         Inbound, SetReplied, StartPipeline, SaveTriage, Advance, LogTriage, TriageFails,
         FailAdvance, FailAwait, TriageFallback, LogFailed, Reread, ReadThread, DraftThrows,
         Fallback, LogDraft, SendMessage, SetAwaiting, Reply, ReplyAwaiting, MarkHuman,
         SetResolved, FindSent, Embed, SetClosed

\* The row moves as the table allows from the status the handler read.
LEMMA StepMoves ==
  ASSUME TypeOK, LocalInv, NEW p \in Proc, Start(p) \/ Continue(p) \/ QueryThrows(p)
  PROVE  Lifecycle!Moves(p) /\ Lifecycle!TakesOver(p)
<1>a. /\ ticket \in TicketRow
      /\ SeenAllows(p)
      /\ [q \in Proc |-> job[q].seen][p] = job[p].seen
  BY RowsAndJobs DEF LocalInv
<1> USE DEF Lifecycle!Moves, Lifecycle!TakesOver, TicketRow
<1>1. CASE UNCHANGED ticket
  BY <1>1
<1>2. CASE CreateTicket(p)
  BY <1>2 DEF CreateTicket, NoTicket, NewTicket
<1>3. CASE SaveTriage(p)
  BY <1>a, <1>3 DEF SaveTriage
<1>4. CASE MarkHuman(p)
  BY <1>a, <1>4 DEF MarkHuman, SeenAllows, Lifecycle!AnswersDirectly
<1>5. CASE ReplyAwaiting(p)
  BY <1>a, <1>5 DEF ReplyAwaiting, SetStatus, SeenAllows, Lifecycle!AnswersDirectly
<1>6. CASE \/ SetReplied(p) \/ Advance(p) \/ FailAdvance(p) \/ FailAwait(p) \/ SetAwaiting(p)
           \/ SetResolved(p) \/ SetClosed(p)
  <2>1. PICK status : SetStatus(status) /\ CanTransition(job[p].seen, status)
    BY <1>a, <1>6 DEF SeenAllows, SetReplied, Advance, FailAdvance, FailAwait, SetAwaiting,
         SetResolved, SetClosed
  <2>2. ticket'.status = status /\ ticket'.human = ticket.human
    BY <1>a, <2>1 DEF SetStatus
  <2>3. <<job[p].seen, ticket'.status>> \in Lifecycle!Transitions
    BY <2>1, <2>2 DEF CanTransition, Lifecycle!Transitions
  <2>4. QED
    BY <1>a, <2>2, <2>3
<1>7. QED
  BY <1>1, <1>2, <1>3, <1>4, <1>5, <1>6
     DEF Start, Continue, QueryThrows, StartInbound, StartTriage, StartEval, StartDraft,
         StartSend, StartReply, StartResolve, StartClose, FirstMessage, Greet, Inbound,
         StartPipeline, LogTriage, TriageFails, TriageFallback, LogFailed, Reread, ReadThread,
         InsertDraft, DraftThrows, Fallback, LogDraft, SendMessage, MarkSent, Reply, FindSent,
         Embed

LEMMA LifeStep ==
  ASSUME TypeOK, TypeOK', LocalInv, Next
  PROVE  Lifecycle!Next
<1>1. ASSUME NEW p \in Proc, Start(p) \/ Continue(p) \/ QueryThrows(p) PROVE Lifecycle!Next
  <2>1. Lifecycle!Work(p)
    BY <1>1, StepReads, StepChecks, StepDrafts, StepMoves DEF Lifecycle!Work
  <2>2. QED
    BY <2>1 DEF Lifecycle!Next
<1>2. CASE Crash
  <2>1. [q \in Proc |-> job'[q].seen] = [q \in Proc |-> "absent"]
    BY <1>2 DEF Crash, NoJob
  <2>2. Drafters' = {}
    BY <1>2 DEF Crash, Drafters
  <2>3. UNCHANGED <<ticket.status, ticket.human, CustomerDrafts>>
    BY <1>2 DEF Crash, CustomerDrafts
  <2>4. QED
    BY <2>1, <2>2, <2>3 DEF Lifecycle!Next, Lifecycle!Crash
<1>3. QED
  BY <1>1, <1>2 DEF Next, ReliableNext

LEMMA LifecycleInit == Init => Lifecycle!Init
<1> SUFFICES ASSUME Init PROVE Lifecycle!Init
  OBVIOUS
<1>1. ticket.status \in {"absent", "open"} /\ ticket.human = FALSE
  BY InitRows
<1>2. CustomerDrafts = {} /\ Drafters = {}
  BY DEF Init, CustomerDrafts, Drafters
<1>3. [q \in Proc |-> job[q].seen] = [q \in Proc |-> "absent"]
  BY DEF Init, NoJob
<1>4. QED
  BY <1>1, <1>2, <1>3 DEF Lifecycle!Init

LEMMA LifecycleStutters == UNCHANGED vars => UNCHANGED Lifecycle!vars
BY DEF vars, Lifecycle!vars, CustomerDrafts, Drafters

(* However the handlers of a ticket interleave and whichever of them fail,  *)
(* each goes by a status it read itself and moves the ticket as the table   *)
(* allows from there; and only a handler that found the ticket without an   *)
(* owner sets out to draft for its customer.                                *)
THEOREM TicketFollowsLifecycle == Spec => FollowsLifecycle
<1>1. TypeOK /\ TypeOK' /\ LocalInv /\ [Next]_vars => [Lifecycle!Next]_(Lifecycle!vars)
  BY LifeStep, LifecycleStutters
<1>2. QED
  BY <1>1, LifecycleInit, LocalAlways, PTL DEF Spec, FollowsLifecycle, Lifecycle!Spec

(* A person who took a ticket over meets at most the drafts of the handlers *)
(* that were past the look at human_owned: nobody joins them, and each      *)
(* stored draft uses one of them up.                                        *)
THEOREM TakeoverStopsDrafting == Spec => TakeoverSettles
<1>1. ASSUME TypeOK, TypeOK', LocalInv, [Next]_vars, ticket.human
      PROVE  /\ Drafters' \subseteq Drafters
             /\ \/ CustomerDrafts' = CustomerDrafts
                \/ /\ Drafters' # Drafters
                   /\ \E d \in CustomerDrafts' : CustomerDrafts' = CustomerDrafts \cup {d}
  <2>1. CASE UNCHANGED vars
    BY <2>1 DEF vars, CustomerDrafts, Drafters
  <2>2. ASSUME NEW p \in Proc, Lifecycle!Checks(p), Lifecycle!Drafts(p)
        PROVE  /\ Drafters' \subseteq Drafters
               /\ \/ CustomerDrafts' = CustomerDrafts
                  \/ /\ Drafters' # Drafters
                     /\ \E d \in CustomerDrafts' : CustomerDrafts' = CustomerDrafts \cup {d}
    BY <1>1, <2>2 DEF Lifecycle!Checks, Lifecycle!Drafts
  <2>3. ASSUME Lifecycle!Crash
        PROVE  Drafters' \subseteq Drafters /\ CustomerDrafts' = CustomerDrafts
    BY <2>3 DEF Lifecycle!Crash
  <2>4. CASE Next
    BY <1>1, <2>2, <2>3, <2>4, LifeStep DEF Lifecycle!Next, Lifecycle!Work
  <2>5. QED
    BY <1>1, <2>1, <2>4
<1>2. QED
  BY <1>1, LocalAlways, PTL DEF Spec, TakeoverSettles
=============================================================================
