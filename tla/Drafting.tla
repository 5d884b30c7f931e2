------------------------------ MODULE Drafting ------------------------------
(***************************************************************************)
(* What a model's answers have to pass before they are stored: the triage  *)
(* and draft runs of one ticket (runTriage, generateDraft) with the input  *)
(* scan, the retrieval, the output scan, the org's policy rules and the    *)
(* semantic judge, their retries (withRetries and the two attempts per     *)
(* step), the automatic send and the scoring of an eval case.              *)
(*                                                                         *)
(* The model is the environment: it may answer anything of TriageAnswers   *)
(* and DraftAnswers.  Meanwhile documents are ingested again, the customer *)
(* writes and other runs of the same ticket store their triage.  The       *)
(* ticket's status and thread are in TicketThread.                         *)
(***************************************************************************)
EXTENDS Naturals, Sequences, FiniteSets

CONSTANTS
  Run,           \* pipelines, routes' calls and eval cases on the ticket
  KindsOf,       \* KindsOf[r]: which of "intake", "triage", "draft", "eval" r may be
  Doc, Text,     \* documents, and the texts they may have
  Category,
  Tool,          \* tool names a model may write
  Catalog,       \* those of tool_catalog
  Gated,         \* those with requires_human_approval
  AllowedIn,     \* AllowedIn[t]: allowed_categories
  TriageAnswers, \* what a model may answer
  DraftAnswers,
  Invalid,       \* an answer that does not parse
  MaxRetries,    \* of one adapter call
  MaxChanges     \* bound on ingested documents and customer messages together

\* What a body may be, besides the quote of a text: fit to send, or a match of
\* one of the scans.
Sort == {"plain", "prompt", "secret", "register", "other_customer", "policy", "tone"}
Body == Sort \cup Text \cup {"template"}
Action == [tool : Tool, over : BOOLEAN]
Triaged == [category : Category, escalate : BOOLEAN]
Resolution == {"answered", "refused_by_policy", "escalated"}
RawDraft == [body : Sort \cup {"quote"}, cites : SUBSET Doc, resolution : Resolution,
             actions : SUBSET Action]

ASSUME AnswersAssumption ==
  /\ TriageAnswers \subseteq Triaged \cup {Invalid}
  /\ DraftAnswers \subseteq RawDraft \cup {Invalid}
  /\ KindsOf \in [Run -> SUBSET {"intake", "triage", "draft", "eval"}]
ASSUME CatalogAssumption ==
  Catalog \subseteq Tool /\ Gated \subseteq Catalog /\ AllowedIn \in [Catalog -> SUBSET Category]
ASSUME TextNames == Text \cap (Sort \cup {"template"}) = {}
ASSUME DraftingBounds == MaxRetries \in Nat /\ MaxChanges \in Nat

VARIABLES
  kb,        \* the org's documents: text and whether the audience is internal
  latest,    \* the latest inbound message: "fine", or "flagged" by the input scan
  triage,    \* tickets.triage
  drafts,    \* the drafts rows
  sent,      \* those sent automatically
  agentRuns, \* the agent_runs rows
  changes,
  reingested,\* runs in flight while a document was ingested
  retriaged, \* runs in flight while another one stored its triage
  pc,        \* pc[r]: the query or model call run r makes next
  job        \* job[r]: its local variables

rows == <<triage, drafts, sent, agentRuns>>
world == <<kb, latest, changes, reingested>>
vars == <<rows, world, retriaged, pc, job>>

Absent == [text |-> "none", internal |-> FALSE]
Entry == [text : Text, internal : BOOLEAN] \cup {Absent}
NoTriage == [category |-> "none", escalate |-> FALSE]
Template == [body |-> "template", cites |-> {}, resolution |-> "escalated", actions |-> {}]

NoJob == [kind |-> "none", flagged |-> FALSE, triage |-> NoTriage, ids |-> {},
          asked |-> {}, seen |-> {}, attempt |-> 0, tries |-> 0, answer |-> Template,
          blocked |-> FALSE, draft |-> 0, score |-> "none"]

InFlight == {r \in Run : pc[r] \notin {"idle", "done", "failed"}}
Goto(r, step) == pc' = [pc EXCEPT ![r] = step]
Judged(r) == job[r].kind # "eval"

\* ----- the scans ---------------------------------------------------------
CitationSubset(d, ids) == d.cites \subseteq ids
\* Mutant: only the system prompt is compared with the body.
InternalLeakMutant(d) == d.body = "prompt"
InternalLeak(d) ==
  d.body = "prompt" \/ \E x \in Doc : kb[x].internal /\ d.body = kb[x].text

\* Mutant: a check that is missing in FAIL_CLOSED_CHECKS.
FailClosedMutant == {"secret", "other_customer"}
FailClosed == {"secret", "register", "other_customer"}

OutputScan(d, ids) == CitationSubset(d, ids) /\ ~InternalLeak(d) /\ d.body \notin FailClosed
OrgPolicyScan(d) == d.body # "policy"

\* Mutant: the category is not looked at.
ValidMutant(a, category) == a.tool \in Catalog /\ ~a.over
Valid(a, category) == a.tool \in Catalog /\ category \in AllowedIn[a.tool] /\ ~a.over
SanitizedActions(d, category) == {a \in d.actions : Valid(a, category)}

\* Approval comes from the catalog.
Recommended(actions) ==
  {[tool |-> a.tool, gated |-> a.tool \in Gated \/ a.tool \notin Catalog] : a \in actions}

\* Mutant: one action that needs no approval is enough.
EvaluateAutoSendMutant(d) ==
  d.resolution = "answered" /\ (d.actions = {} \/ \E a \in d.actions : ~a.gated)
EvaluateAutoSend(d) == d.resolution = "answered" /\ \A a \in d.actions : ~a.gated

\* Mutant: the model's word is final.
OverrideMutant(answer, flagged) == answer
Override(answer, flagged) ==
  IF flagged THEN [answer EXCEPT !.escalate = TRUE] ELSE answer

\* ----- calls of a model --------------------------------------------------
Calling(r) == pc[r] \in {"triage_call", "draft_call", "judge_call"}
Reset(j) == [j EXCEPT !.attempt = 0, !.tries = 0]
Block(j) == [Reset(j) EXCEPT !.answer = Template, !.blocked = TRUE]

\* withRetries: one request fails or times out and another follows.
RequestFails(r) ==
  /\ Calling(r) /\ job[r].tries < MaxRetries
  /\ job' = [job EXCEPT ![r].tries = @ + 1]
  /\ UNCHANGED <<rows, world, retriaged, pc>>

\* The second attempt is the last one; what then is done depends on the step.
\* Mutant: three attempts.
AttemptLeftMutant(r) == job[r].attempt < 2
AttemptLeft(r) == job[r].attempt = 0

\* Mutant: the first attempt is made over and over.
AnotherAttemptMutant(r) == job' = [job EXCEPT ![r].tries = 0]
AnotherAttempt(r) == job' = [job EXCEPT ![r].attempt = @ + 1, ![r].tries = 0]

\* An answer that does not parse; in triage also a call that threw.
Unusable(r) ==
  /\ \/ Calling(r)  \* Invalid
     \/ pc[r] = "triage_call" /\ job[r].tries = MaxRetries  \* thrown, and caught
  /\ IF AttemptLeft(r)
     THEN AnotherAttempt(r) /\ UNCHANGED pc
     ELSE \/ /\ pc[r] = "triage_call" /\ Goto(r, "log_failed")
             /\ job' = [job EXCEPT ![r] = Reset(@)]
          \/ /\ pc[r] = "draft_call" /\ Goto(r, "reread_kb")
             /\ job' = [job EXCEPT ![r] = Block(@)]
          \/ /\ pc[r] = "judge_call" /\ Goto(r, "insert")
             /\ job' = [job EXCEPT ![r] = Block(@)]
  /\ UNCHANGED <<rows, world, retriaged>>

\* Nothing catches what a draft's or a judge's call throws but the caller.
CallThrows(r) ==
  /\ pc[r] \in {"draft_call", "judge_call"} /\ job[r].tries = MaxRetries
  /\ Goto(r, "failed") /\ job' = [job EXCEPT ![r] = NoJob]
  /\ UNCHANGED <<rows, world, retriaged>>

\* ----- triage ------------------------------------------------------------
\* The draft route takes the triage from the row and wants one.
Begin(r, kind) ==
  /\ pc[r] = "idle" /\ (kind = "draft" => triage # NoTriage)
  /\ Goto(r, IF kind = "draft" THEN "read_thread" ELSE "read_inbound")
  /\ job' = [job EXCEPT ![r] = [NoJob EXCEPT !.kind = kind, !.triage = triage]]
  /\ UNCHANGED <<rows, world, retriaged>>

\* The input scan of the latest message; it is the same in triage and draft.
ReadInbound(r) ==
  /\ pc[r] \in {"read_inbound", "read_thread"}
  /\ Goto(r, IF pc[r] = "read_inbound" THEN "triage_call" ELSE "search")
  /\ job' = [job EXCEPT ![r].flagged = IF pc[r] = "read_inbound" THEN latest = "flagged" ELSE @]
  /\ UNCHANGED <<rows, world, retriaged>>

TriageAnswered(r) ==
  /\ pc[r] = "triage_call" /\ Goto(r, "save_triage")
  /\ \E answer \in TriageAnswers \ {Invalid} :
       job' = [job EXCEPT ![r] = [Reset(@) EXCEPT !.triage = Override(answer, job[r].flagged)]]
  /\ UNCHANGED <<rows, world, retriaged>>

SaveTriage(r) ==
  /\ pc[r] = "save_triage" /\ Goto(r, "log_triage")
  /\ triage' = job[r].triage
  /\ retriaged' = retriaged \cup (InFlight \ {r})
  /\ UNCHANGED <<drafts, sent, agentRuns, world, job>>

Log(r, type, status) ==
  agentRuns' = agentRuns \cup {[run |-> r, type |-> type, status |-> status]}

\* The triage route is done; intake and eval read the ticket again.
LogTriage(r) ==
  /\ pc[r] = "log_triage" /\ Goto(r, IF job[r].kind = "triage" THEN "done" ELSE "reread")
  /\ Log(r, "triage", "completed")
  /\ UNCHANGED <<triage, drafts, sent, world, retriaged, job>>

LogFailed(r) ==
  /\ pc[r] = "log_failed" /\ Goto(r, "done")
  /\ Log(r, "triage", "failed")
  /\ job' = [job EXCEPT ![r].score = IF @ = "none" /\ job[r].kind = "eval" THEN "failed" ELSE @]
  /\ UNCHANGED <<triage, drafts, sent, world, retriaged>>

\* escalate of the outcome is kept for the score; the draft goes by the row.
Reread(r) ==
  /\ pc[r] = "reread" /\ Goto(r, "read_thread")
  /\ job' = [job EXCEPT ![r].triage = [category |-> triage.category,
                                       escalate |-> job[r].triage.escalate]]
  /\ UNCHANGED <<rows, world, retriaged>>

\* ----- draft -------------------------------------------------------------
\* The ids first, then each document by a query of its own, all of them sent
\* at once and answered in any order.  Past resolutions are best effort and left
\* out by eval runs.
Retrieved(r) == IF job[r].kind = "eval" THEN "draft_call" ELSE "similar"

Search(r) ==
  /\ pc[r] = "search"
  /\ \E ids \in SUBSET {x \in Doc : kb[x] # Absent} :
       /\ job' = [job EXCEPT ![r].ids = ids, ![r].asked = ids]
       /\ Goto(r, IF ids = {} THEN Retrieved(r) ELSE "fetch")
  /\ UNCHANGED <<rows, world, retriaged>>

Fetch(r) ==
  /\ pc[r] = "fetch"
  /\ \E x \in job[r].asked :
       /\ job' = [job EXCEPT ![r].asked = @ \ {x}, ![r].seen = @ \cup ({kb[x].text} \cap Text)]
       /\ Goto(r, IF job[r].asked = {x} THEN Retrieved(r) ELSE "fetch")
  /\ UNCHANGED <<rows, world, retriaged>>

SimilarResolutions(r) ==
  /\ pc[r] = "similar" /\ Goto(r, "draft_call")
  /\ \E found \in SUBSET ({drafts[i].body : i \in sent} \cap Text) :
       job' = [job EXCEPT ![r].seen = @ \cup found]
  /\ UNCHANGED <<rows, world, retriaged>>

DraftAnswered(r) ==
  /\ pc[r] = "draft_call" /\ Goto(r, "reread_kb")
  /\ \E answer \in DraftAnswers \ {Invalid} :
     \E body \in IF answer.body = "quote" THEN job[r].seen ELSE {answer.body} :
       job' = [job EXCEPT ![r] = [Reset(@) EXCEPT !.seen = {},
                                             !.answer = [answer EXCEPT !.body = body]]]
  /\ UNCHANGED <<rows, world, retriaged>>

\* The documents are read again.  An answer that did not parse goes without the
\* scans; what fails one is replaced by the template.
ScanOutput(r) ==
  /\ pc[r] = "reread_kb"
  /\ LET d == job[r].answer
         scanned == [job[r] EXCEPT !.answer.actions = SanitizedActions(d, job[r].triage.category)]
     IN \/ job[r].blocked /\ Goto(r, "insert") /\ UNCHANGED job
        \/ /\ ~job[r].blocked /\ Goto(r, "read_org")
           /\ job' = [job EXCEPT ![r] = IF OutputScan(d, job[r].ids) THEN scanned ELSE Block(@)]
  /\ UNCHANGED <<rows, world, retriaged>>

\* The org's row, for the rules of its vertical.
ScanPolicy(r) ==
  /\ pc[r] = "read_org"
  /\ LET passed == ~job[r].blocked /\ OrgPolicyScan(job[r].answer)
     IN /\ Goto(r, IF passed /\ Judged(r) THEN "judge_call" ELSE "insert")
        /\ job' = [job EXCEPT ![r] = IF passed THEN @ ELSE Block(@)]
  /\ UNCHANGED <<rows, world, retriaged>>

\* The judge knows a wrong tone; it may also reject what is fit to send.
Verdict(r, passes) == job' = [job EXCEPT ![r] = IF passes THEN Reset(@) ELSE Block(@)]

Judge(r) ==
  /\ pc[r] = "judge_call" /\ Goto(r, "insert")
  /\ \E passes \in BOOLEAN : (passes => job[r].answer.body # "tone") /\ Verdict(r, passes)
  /\ UNCHANGED <<rows, world, retriaged>>

InsertDraft(r) ==
  /\ pc[r] = "insert" /\ Goto(r, "log_draft")
  /\ drafts' = Append(drafts,
       [run |-> r, body |-> job[r].answer.body, cites |-> job[r].answer.cites,
        resolution |-> job[r].answer.resolution, actions |-> Recommended(job[r].answer.actions)])
  /\ job' = [job EXCEPT ![r] =
       [@ EXCEPT !.draft = Len(drafts) + 1, !.ids = {}, !.answer = Template]]
  /\ UNCHANGED <<triage, sent, agentRuns, world, retriaged>>

DraftStatus(r) == IF job[r].blocked THEN "guardrail_blocked" ELSE "completed"

LogDraft(r) ==
  /\ pc[r] = "log_draft" /\ Goto(r, IF job[r].kind = "eval" THEN "score" ELSE "auto_send")
  /\ Log(r, "draft_reply", DraftStatus(r))
  /\ UNCHANGED <<triage, drafts, sent, world, retriaged, job>>

\* autoSendIfEligible; sendDraft may refuse by the ticket's status or owner.
AutoSend(r) ==
  /\ pc[r] = "auto_send" /\ Goto(r, "done")
  /\ \/ UNCHANGED sent
     \/ EvaluateAutoSend(drafts[job[r].draft]) /\ sent' = sent \cup {job[r].draft}
  /\ UNCHANGED <<triage, drafts, agentRuns, world, retriaged, job>>

\* scoreCase, as far as the escalation goes: the outcome's flag or the draft's type.
Escalated(r) == job[r].triage.escalate \/ drafts[job[r].draft].resolution = "escalated"
ScoreCase(r) ==
  /\ pc[r] = "score" /\ Goto(r, "done")
  /\ job' = [job EXCEPT ![r].score = IF Escalated(r) THEN "escalated" ELSE "handled"]
  /\ UNCHANGED <<rows, world, retriaged>>

\* Any query may throw; the run's caller catches or reports it.
QueryThrows(r) ==
  /\ r \in InFlight /\ ~Calling(r)
  /\ Goto(r, "failed") /\ job' = [job EXCEPT ![r] = NoJob]
  /\ UNCHANGED <<rows, world, retriaged>>

\* ----- everyone else -----------------------------------------------------
\* A document is ingested, again or anew, or taken over by another org.
Ingest(x) ==
  /\ changes < MaxChanges /\ changes' = changes + 1
  /\ \E e \in Entry \ {kb[x]} : kb' = [kb EXCEPT ![x] = e]
  /\ reingested' = reingested \cup InFlight
  /\ UNCHANGED <<rows, latest, retriaged, pc, job>>

CustomerWrites ==
  /\ changes < MaxChanges /\ changes' = changes + 1
  /\ \E m \in {"fine", "flagged"} \ {latest} : latest' = m
  /\ UNCHANGED <<rows, kb, reingested, retriaged, pc, job>>

Init ==
  /\ kb \in [Doc -> Entry] /\ latest \in {"fine", "flagged"}
  /\ triage = NoTriage /\ drafts = <<>> /\ sent = {} /\ agentRuns = {}
  /\ changes = 0 /\ reingested = {} /\ retriaged = {}
  /\ pc = [r \in Run |-> "idle"] /\ job = [r \in Run |-> NoJob]

CallModel(r) ==
  \/ RequestFails(r) \/ Unusable(r) \/ CallThrows(r)
  \/ TriageAnswered(r) \/ DraftAnswered(r) \/ Judge(r)

Continue(r) ==
  \/ CallModel(r)
  \/ ReadInbound(r) \/ SaveTriage(r) \/ LogTriage(r) \/ LogFailed(r) \/ Reread(r)
  \/ Search(r) \/ Fetch(r) \/ SimilarResolutions(r) \/ ScanOutput(r) \/ ScanPolicy(r)
  \/ InsertDraft(r) \/ LogDraft(r) \/ AutoSend(r) \/ ScoreCase(r) \/ QueryThrows(r)

Next ==
  \/ \E r \in Run : Continue(r) \/ \E kind \in KindsOf[r] : Begin(r, kind)
  \/ \E x \in Doc : Ingest(x)
  \/ CustomerWrites

Spec == Init /\ [][Next]_vars
\* A call settles within its timeout and the loops are the server's own.
FairSpec == Spec /\ \A r \in Run : WF_vars(Continue(r))

\* ----- properties --------------------------------------------------------
Answer == [body : Body, cites : SUBSET Doc, resolution : Resolution, actions : SUBSET Action]
Row == [run : Run, body : Body, cites : SUBSET Doc, resolution : Resolution,
        actions : SUBSET [tool : Catalog, gated : BOOLEAN]]
Job == [kind : {"none", "intake", "triage", "draft", "eval"}, flagged : BOOLEAN,
        triage : [category : Category \cup {"none"}, escalate : BOOLEAN],
        ids : SUBSET Doc, asked : SUBSET Doc, seen : SUBSET Text, attempt : 0 .. 1,
        tries : 0 .. MaxRetries, answer : Answer, blocked : BOOLEAN, draft : 0 .. Len(drafts),
        score : {"none", "failed", "escalated", "handled"}]

\* The shape of the state; no step makes more than two attempts.
TypeOK ==
  /\ kb \in [Doc -> Entry] /\ latest \in {"fine", "flagged"}
  /\ triage \in [category : Category \cup {"none"}, escalate : BOOLEAN]
  /\ drafts \in Seq(Row) /\ sent \subseteq 1 .. Len(drafts)
  /\ reingested \subseteq Run /\ retriaged \subseteq Run
  /\ job \in [Run -> Job]

\* A body that any scan of the code knows is never stored, and what the judge
\* rejects is stored by eval runs only (outputScan, orgPolicyScan,
\* semanticJudgeScan and the substitution in generateDraft).
OnlyVettedIsKept ==
  \A i \in 1 .. Len(drafts) :
    /\ drafts[i].body \notin {"prompt", "secret", "register", "other_customer", "policy"}
    /\ drafts[i].body = "tone" => job[drafts[i].run].kind \in {"eval", "none"}

\* A draft quotes no internal document the moment it is stored, unless a
\* document was ingested while the run was on its way: the prompt, the scan and
\* the insertion see three different knowledge bases (draft.ts, the documents
\* read again after the model's answer).
QuotesNoInternalText ==
  \A r \in Run : pc[r] = "log_draft" /\ r \notin reingested =>
    ~\E x \in Doc : kb[x].internal /\ drafts[job[r].draft].body = kb[x].text

\* What is recommended fits the ticket as it is classified, unless another run
\* classified it anew in between (the draft goes by the triage it was given).
ActionsFitTicket ==
  \A r \in Run : pc[r] = "log_draft" /\ r \notin retriaged =>
    \A a \in drafts[job[r].draft].actions : triage.category \in AllowedIn[a.tool]

\* Nobody reads an automatic answer before the customer does: it is an answer,
\* no template, passed the judge and recommends nothing that needs approval.
AutoSentIsSafe ==
  \A i \in sent :
    /\ drafts[i].resolution = "answered" /\ drafts[i].body \notin {"template", "tone"}
    /\ \A a \in drafts[i].actions : a.tool \notin Gated

\* An eval case whose message the input scan flagged, or whose draft was
\* blocked, is scored as escalated whatever the model answered.
FlaggedIsScoredEscalated ==
  \A r \in Run : pc[r] = "done" /\ job[r].kind = "eval" /\ (job[r].flagged \/ job[r].blocked) =>
    job[r].score \in {"escalated", "failed"}

\* Every run ends: the retries and attempts are bounded, so a model that never
\* gives a usable answer holds up no one for good.
RunsEnd == \A r \in Run : pc[r] # "idle" ~> pc[r] \in {"done", "failed"}
=============================================================================
