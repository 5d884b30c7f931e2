----------------------------- MODULE ToolActions -----------------------------
(***************************************************************************)
(* The tool-action service (services/toolActions.ts) over its two tables,  *)
(* tool_actions and approvals.                                             *)
(*                                                                         *)
(* A handler is an async function: between two of its queries any other    *)
(* request may run.  One step of this module is one query together with    *)
(* the synchronous code that follows it, up to the next query or the       *)
(* response.  No query runs inside a database transaction.                 *)
(*                                                                         *)
(* Proc is the set of requests that can be in flight at once; with a       *)
(* single member the requests are served one after the other.              *)
(***************************************************************************)
EXTENDS Naturals, FiniteSets

CONSTANTS
  Org,               \* tenants
  Ticket,            \* support tickets
  TicketOrg,         \* the tenant each ticket belongs to
  Category,          \* triage categories
  Tool,              \* tools of the catalog (data/tool_actions.json)
  AllowedCategories, \* tool -> the categories it may be requested for
  NeedsApproval,     \* tools the catalog marks requires_human_approval
  EligibilityGated,  \* tools whose effect depends on the eligibility facts
  Eligible,          \* tickets whose return window or warranty is open
  Key,               \* idempotency keys callers pick
  ActionId,          \* identifiers newActionId may return
  Proc,              \* requests in flight
  MaxEffects         \* bound: no execute starts on an action after so many effects

ASSUME TicketsAssumption == TicketOrg \in [Ticket -> Org]

ASSUME CatalogAssumption ==
  /\ AllowedCategories \in [Tool -> SUBSET Category]
  /\ NeedsApproval \subseteq Tool
  /\ EligibilityGated \subseteq Tool
  /\ "untriaged" \notin Category

ASSUME BoundAssumption == MaxEffects \in Nat

ASSUME ProcAssumption == IsFiniteSet(Proc)

VARIABLES
  actions,    \* actions[a]: the tool_actions row with action_id a
  approvals,  \* the approvals table
  effects,    \* effects[a]: how often mockExecute ran for a
  category,   \* category[t]: the category of ticket t, the column the service reads
  answers,    \* history: what callers of POST /tool-actions were told about a key
  met,        \* history: pairs of actions two requests were at work on at once
  pc,         \* pc[p]: the query request p issues next
  job         \* job[p]: arguments and local variables of request p

vars == <<actions, approvals, effects, category, answers, met, pc, job>>

NoAction == [status |-> "absent"]
NoJob == [kind |-> "none"]

ASSUME ActionIdAssumption == NoAction \notin ActionId

Exists(a) == actions[a].status # "absent"

\* getActiveActionForTicket: an approved or executed action of t in the org.
IsActive(a, o, t) ==
  /\ actions[a].status \in {"approved", "executed"}
  /\ actions[a].org = o
  /\ actions[a].ticket = t

\* The operators named ...Mutant are deliberate bugs, one per property: with
\* the definition below it replaced by the mutant, TLC reports the property.

\* The lookup forgets its org_id condition.
HasKeyMutant(a, o, k) == Exists(a) /\ actions[a].key = k

\* getToolActionByIdempotencyKey looks inside the org only ...
HasKey(a, o, k) == Exists(a) /\ actions[a].key = k /\ actions[a].org = o

\* The table has no UNIQUE constraint.
KeyTakenMutant(k) == FALSE

\* ... while the UNIQUE constraint on idempotency_key spans all orgs.
KeyTaken(k) == \E a \in ActionId : Exists(a) /\ actions[a].key = k

Go(p, step) == pc' = [pc EXCEPT ![p] = step]

\* The response is sent (or the promise rejects) and the request is gone.
Finish(p) ==
  /\ pc' = [pc EXCEPT ![p] = "idle"]
  /\ job' = [job EXCEPT ![p] = NoJob]

Answer(p, a) ==
  answers' = answers \cup {[org |-> job[p].org, key |-> job[p].key, action |-> a]}

-----------------------------------------------------------------------------
(* POST /tool-actions                                                      *)

\* The route reads the ticket inside the caller's org, then the validation
\* ladder runs on that row.  A request that fails a rung changes nothing and
\* is not represented.  newActionId never repeats: the id is set aside here.
StartRequest(p, o, t, tool, k, a) ==
  /\ pc[p] = "idle"
  /\ TicketOrg[t] = o
  /\ category[t] \in AllowedCategories[tool]
  /\ ~ Exists(a)
  /\ \A q \in Proc : job[q].kind = "request" => job[q].action # a
  /\ Go(p, "find_key")
  /\ job' = [job EXCEPT ![p] =
       [kind |-> "request", org |-> o, ticket |-> t, tool |-> tool, key |-> k, action |-> a]]
  /\ UNCHANGED <<actions, approvals, effects, category, answers>>

\* A row with the caller's key: the request is answered with that action.
Replay(p) ==
  /\ \E a \in ActionId : HasKey(a, job[p].org, job[p].key) /\ Answer(p, a)
  /\ Finish(p)
  /\ UNCHANGED <<actions, approvals, effects, category>>

KeyUnseen(p) == \A a \in ActionId : ~ HasKey(a, job[p].org, job[p].key)

FindKey(p) ==
  /\ pc[p] = "find_key"
  /\ \/ Replay(p)
     \/ /\ KeyUnseen(p)
        /\ Go(p, "find_active")
        /\ UNCHANGED <<actions, approvals, effects, category, answers, job>>

FindActive(p) ==
  /\ pc[p] = "find_active"
  /\ IF \E a \in ActionId : IsActive(a, job[p].org, job[p].ticket)
       THEN Finish(p)
       ELSE Go(p, "insert") /\ UNCHANGED job
  /\ UNCHANGED <<actions, approvals, effects, category, answers>>

NewRow(j) ==
  [org |-> j.org, ticket |-> j.ticket, tool |-> j.tool, key |-> j.key, result |-> 0,
   status |-> IF j.tool \in NeedsApproval THEN "approval_required" ELSE "approved"]

Insert(p) ==
  /\ pc[p] = "insert"
  /\ ~ KeyTaken(job[p].key)
  /\ actions' = [actions EXCEPT ![job[p].action] = NewRow(job[p])]
  /\ Answer(p, job[p].action)
  /\ Finish(p)
  /\ UNCHANGED <<approvals, effects, category>>

\* The constraint rejects the row (SQLSTATE 23505).
InsertRefused(p) ==
  /\ pc[p] = "insert"
  /\ KeyTaken(job[p].key)
  /\ Go(p, "find_raced")
  /\ UNCHANGED <<actions, approvals, effects, category, answers, job>>

\* The catch rethrows without looking the key up again.
FindRacedMutant(p) ==
  /\ pc[p] = "find_raced"
  /\ Answer(p, NoAction)
  /\ Finish(p)
  /\ UNCHANGED <<actions, approvals, effects, category>>

\* The key is looked up again; if that finds nothing the error is rethrown and
\* the caller gets a 500, which the history records as NoAction.
FindRaced(p) ==
  /\ pc[p] = "find_raced"
  /\ \/ Replay(p)
     \/ /\ KeyUnseen(p)
        /\ Answer(p, NoAction)
        /\ Finish(p)
        /\ UNCHANGED <<actions, approvals, effects, category>>

-----------------------------------------------------------------------------
(* POST /tool-actions/:id/approve and /reject                              *)

\* The decision does not insist on status "approval_required".
StartDecisionMutant(p, o, a, verdict) ==
  /\ pc[p] = "idle"
  /\ actions[a].status \in {"approval_required", "approved"}
  /\ actions[a].org = o
  /\ Go(p, IF verdict = "approved" THEN "check_active" ELSE "log_decision")
  /\ job' = [job EXCEPT ![p] =
       [kind |-> "decision", org |-> o, action |-> a, verdict |-> verdict]]
  /\ UNCHANGED <<actions, approvals, effects, category, answers>>

\* A decision on an action that is not waiting for one is answered 404 or 409
\* and changes nothing.  Only an approval checks for another active action.
StartDecision(p, o, a, verdict) ==
  /\ pc[p] = "idle"
  /\ actions[a].status = "approval_required"
  /\ actions[a].org = o
  /\ Go(p, IF verdict = "approved" THEN "check_active" ELSE "log_decision")
  /\ job' = [job EXCEPT ![p] =
       [kind |-> "decision", org |-> o, action |-> a, verdict |-> verdict]]
  /\ UNCHANGED <<actions, approvals, effects, category, answers>>

\* The approval does not look for another active action.
CheckActiveMutant(p) ==
  /\ pc[p] = "check_active"
  /\ Go(p, "log_decision")
  /\ UNCHANGED <<actions, approvals, effects, category, answers, job>>

CheckActive(p) ==
  /\ pc[p] = "check_active"
  /\ IF \E b \in ActionId \ {job[p].action} :
          IsActive(b, job[p].org, actions[job[p].action].ticket)
       THEN Finish(p)
       ELSE Go(p, "log_decision") /\ UNCHANGED job
  /\ UNCHANGED <<actions, approvals, effects, category, answers>>

\* The status is flipped first and the decision logged afterwards, if at all.
LogDecisionMutant(p) ==
  /\ pc[p] = "log_decision"
  /\ actions' = [actions EXCEPT ![job[p].action].status = job[p].verdict]
  /\ Go(p, "write_decision")
  /\ UNCHANGED <<approvals, effects, category, answers, job>>

\* insertApproval.  Rows that agree in these fields are counted once.
LogDecision(p) ==
  /\ pc[p] = "log_decision"
  /\ approvals' = approvals \cup
       {[action |-> job[p].action, decision |-> job[p].verdict, org |-> job[p].org]}
  /\ Go(p, "write_decision")
  /\ UNCHANGED <<actions, effects, category, answers, job>>

\* updateToolActionStatus: the UPDATE does not look at the present status.
WriteDecision(p) ==
  /\ pc[p] = "write_decision"
  /\ actions' = [actions EXCEPT ![job[p].action].status = job[p].verdict]
  /\ Finish(p)
  /\ UNCHANGED <<approvals, effects, category, answers>>

-----------------------------------------------------------------------------
(* POST /tool-actions/:id/execute                                          *)

\* The execution does not insist on status "approved".
StartExecutionMutant(p, o, a) ==
  /\ pc[p] = "idle"
  /\ actions[a].status \in {"approval_required", "approved", "executed"}
  /\ actions[a].org = o
  /\ effects[a] < MaxEffects
  /\ Go(p, "scan")
  /\ job' = [job EXCEPT ![p] = [kind |-> "execution", org |-> o, action |-> a, effect |-> 0]]
  /\ UNCHANGED <<actions, approvals, effects, category, answers>>

\* An executed action is answered with its stored result and any other status
\* than "approved" with 409: neither changes anything.
StartExecution(p, o, a) ==
  /\ pc[p] = "idle"
  /\ actions[a].status = "approved"
  /\ actions[a].org = o
  /\ effects[a] < MaxEffects
  /\ Go(p, "scan")
  /\ job' = [job EXCEPT ![p] = [kind |-> "execution", org |-> o, action |-> a, effect |-> 0]]
  /\ UNCHANGED <<actions, approvals, effects, category, answers>>

\* mockExecute, and its result on the way to updateExecutionResult.
FireEffect(p) ==
  LET a == job[p].action IN
  /\ effects' = [effects EXCEPT ![a] = @ + 1]
  /\ job' = [job EXCEPT ![p] =
       [kind |-> "execution", org |-> job[p].org, action |-> a, effect |-> effects[a] + 1]]
  /\ Go(p, "write_executed")

\* toolExecutionScan: the catalog and the payload do not change, so what can
\* stop the execution here is a ticket that is resolved or closed.  Its status
\* is written by handlers outside this service at any time: either answer is
\* possible.  The row is left as it is.
Scan(p) ==
  LET row == actions[job[p].action] IN
  /\ pc[p] = "scan"
  /\ \/ Finish(p) /\ UNCHANGED effects
     \/ /\ row.tool \in EligibilityGated
        /\ Go(p, "recheck")
        /\ UNCHANGED <<effects, job>>
     \/ /\ row.tool \notin EligibilityGated
        /\ FireEffect(p)
  /\ UNCHANGED <<actions, approvals, category, answers>>

\* The three reads computeEligibilityFacts needs: creation time of the ticket,
\* customer and order, none of which the service ever updates.
Recheck(p) ==
  /\ pc[p] = "recheck"
  /\ IF actions[job[p].action].ticket \in Eligible
       THEN FireEffect(p)
       ELSE Go(p, "write_failed") /\ UNCHANGED <<effects, job>>
  /\ UNCHANGED <<actions, approvals, category, answers>>

\* updateExecutionResult: again without a look at the present status.
WriteExecuted(p) ==
  /\ pc[p] = "write_executed"
  /\ actions' = [actions EXCEPT ![job[p].action].status = "executed",
                                ![job[p].action].result = job[p].effect]
  /\ Finish(p)
  /\ UNCHANGED <<approvals, effects, category, answers>>

\* The stored result of a failure is an error report, not an effect: it counts as 0.
WriteFailed(p) ==
  /\ pc[p] = "write_failed"
  /\ actions' = [actions EXCEPT ![job[p].action].status = "failed",
                                ![job[p].action].result = 0]
  /\ Finish(p)
  /\ UNCHANGED <<approvals, effects, category, answers>>

-----------------------------------------------------------------------------
(* What happens around the service                                         *)

\* A query of request p fails, or the server dies under it: what was written
\* stays written and the rest of the handler never runs.
Abort(p) ==
  /\ pc[p] # "idle"
  /\ Finish(p)
  /\ UNCHANGED <<actions, approvals, effects, category, answers>>

\* updateTicketTriage: a (re-)triage gives the ticket a category, and none
\* takes it away.
Triage(t, c) ==
  /\ category' = [category EXCEPT ![t] = c]
  /\ UNCHANGED <<actions, approvals, effects, answers, pc, job>>

-----------------------------------------------------------------------------

Init ==
  /\ actions = [a \in ActionId |-> NoAction]
  /\ approvals = {}
  /\ effects = [a \in ActionId |-> 0]
  /\ category = [t \in Ticket |-> "untriaged"]
  /\ answers = {}
  /\ met = {}
  /\ pc = [p \in Proc |-> "idle"]
  /\ job = [p \in Proc |-> NoJob]

RequestSteps == {"find_key", "find_active", "insert", "find_raced"}
DecisionSteps == {"check_active", "log_decision", "write_decision"}
ExecutionSteps == {"scan", "recheck", "write_executed", "write_failed"}

Verdict == {"approved", "rejected"}

Arrive(p) ==
  \E o \in Org, a \in ActionId :
    \/ \E t \in Ticket, tool \in Tool, k \in Key : StartRequest(p, o, t, tool, k, a)
    \/ \E verdict \in Verdict : StartDecision(p, o, a, verdict)
    \/ StartExecution(p, o, a)

Continue(p) ==
  \/ FindKey(p) \/ FindActive(p) \/ Insert(p) \/ InsertRefused(p) \/ FindRaced(p)
  \/ CheckActive(p) \/ LogDecision(p) \/ WriteDecision(p)
  \/ Scan(p) \/ Recheck(p) \/ WriteExecuted(p) \/ WriteFailed(p)

Environment == \E t \in Ticket, c \in Category : Triage(t, c)

\* ----- which requests overlapped (history, read by no handler) -----------
TicketOf(p) ==
  IF job[p].kind = "request" THEN job[p].ticket ELSE actions[job[p].action].ticket

\* p has been let in: it works on an action whose status allowed it.
LetIn(p) == pc[p] \in DecisionSteps \cup ExecutionSteps

\* p has made every check that its write relies on.
Cleared(p) == pc[p] \in {"insert", "log_decision", "write_decision"} \cup ExecutionSteps

Meet(p, q) ==
  /\ p # q
  /\ \/ LetIn(p) /\ LetIn(q) /\ job[p].action = job[q].action
     \/ Cleared(p) /\ Cleared(q) /\ TicketOf(p) = TicketOf(q)

Meetings ==
  {ab \in ActionId \X ActionId :
     \E p, q \in Proc : Meet(p, q) /\ ab = <<job[p].action, job[q].action>>}

Step ==
  \/ \E p \in Proc : Arrive(p) \/ Continue(p) \/ Abort(p)
  \/ Environment

Next == Step /\ met' = met \cup Meetings'

Spec == Init /\ [][Next]_vars

-----------------------------------------------------------------------------

Status == {"approval_required", "approved", "rejected", "executed", "failed"}

Row == [org: Org, ticket: Ticket, tool: Tool, key: Key, result: Nat, status: Status]

RequestJob ==
  [kind: {"request"}, org: Org, ticket: Ticket, tool: Tool, key: Key, action: ActionId]
DecisionJob == [kind: {"decision"}, org: Org, action: ActionId, verdict: Verdict]
ExecutionJob == [kind: {"execution"}, org: Org, action: ActionId, effect: Nat]

JobOK(p) ==
  \/ pc[p] = "idle" /\ job[p] = NoJob
  \/ pc[p] \in RequestSteps /\ job[p] \in RequestJob
  \/ pc[p] \in DecisionSteps /\ job[p] \in DecisionJob
  \/ pc[p] \in ExecutionSteps /\ job[p] \in ExecutionJob

\* The tables and every request in flight are well formed: a request holds
\* exactly the local variables its handler has at that point.
TablesOK ==
  /\ actions \in [ActionId -> Row \cup {NoAction}]
  /\ approvals \subseteq [action: ActionId, decision: Verdict, org: Org]
  /\ effects \in [ActionId -> Nat]
  /\ category \in [Ticket -> Category \cup {"untriaged"}]
  /\ answers \subseteq [org: Org, key: Key, action: ActionId \cup {NoAction}]
  /\ pc \in [Proc -> {"idle"} \cup RequestSteps \cup DecisionSteps \cup ExecutionSteps]
  /\ job \in [Proc -> RequestJob \cup DecisionJob \cup ExecutionJob \cup {NoJob}]
  /\ \A p \in Proc : JobOK(p)

(* The tables, the requests and the history of overlaps are well formed.    *)
TypeOK == TablesOK /\ met \subseteq ActionId \X ActionId

-----------------------------------------------------------------------------
(* Properties of every interleaving                                        *)

Logged(a, decision) ==
  [action |-> a, decision |-> decision, org |-> actions[a].org] \in approvals

(* The effect of a tool the catalog marks requires_human_approval never     *)
(* fires before a human approval of that very action is on record, however  *)
(* requests, failures and decisions interleave (toolActions.ts header, HLD  *)
(* invariant 1).                                                            *)
ApprovalPrecedesEffect ==
  \A a \in ActionId :
    effects[a] > 0 /\ actions[a].tool \in NeedsApproval => Logged(a, "approved")

(* A decided status is always backed by a row of approvals: rejected by a   *)
(* rejection; approved, executed and failed by an approval when the tool    *)
(* needs one.  decideToolAction logs first and flips the status afterwards. *)
StatusIsLogged ==
  \A a \in ActionId :
    /\ actions[a].status = "rejected" => Logged(a, "rejected")
    /\ /\ actions[a].status \in {"approved", "executed", "failed"}
       /\ actions[a].tool \in NeedsApproval
       => Logged(a, "approved")

(* The check at execute time is never bypassed: a replacement or a refund   *)
(* of a ticket whose return window and warranty are over fires no effect.   *)
IneligibleFiresNothing ==
  \A a \in ActionId :
    effects[a] > 0 /\ actions[a].tool \in EligibilityGated
      => actions[a].ticket \in Eligible

(* All the answers an org ever gets for one idempotency key name the same   *)
(* action, the loser of an insert race included (LLD 4.8 step 5).           *)
SameKeySameAction ==
  \A r1, r2 \in answers :
    /\ r1.org = r2.org
    /\ r1.key = r2.key
    /\ r1.action # NoAction
    /\ r2.action # NoAction
    => r1.action = r2.action

(* A caller gets a 500 for a key only when another org holds that key: a    *)
(* race inside an org always ends as a replay (the catch in                 *)
(* requestToolAction).                                                      *)
ErrorOnlyForForeignKey ==
  \A r \in answers :
    r.action = NoAction =>
      \E a \in ActionId : Exists(a) /\ actions[a].key = r.key /\ actions[a].org # r.org

(* Tenants stay apart: an action belongs to the org of its ticket, an       *)
(* approval to the org of its action, and an org is only ever told of its   *)
(* own actions.                                                             *)
OrgIsolation ==
  /\ \A a \in ActionId : Exists(a) => actions[a].org = TicketOrg[actions[a].ticket]
  /\ \A r \in approvals : Exists(r.action) /\ actions[r.action].org = r.org
  /\ \A r \in answers : r.action # NoAction =>
       Exists(r.action) /\ actions[r.action].org = r.org

-----------------------------------------------------------------------------
(* The life cycle, and what is left of it when requests overlap            *)

\* A row as the life cycle sees it.
LifeOf(a) ==
  IF Exists(a)
    THEN [ticket |-> actions[a].ticket, gated |-> actions[a].tool \in NeedsApproval,
          result |-> actions[a].result, status |-> actions[a].status]
    ELSE NoAction

Lifecycle == INSTANCE ActionLifecycle WITH life <- [a \in ActionId |-> LifeOf(a)]

(* The service implements the life cycle of HLD 4.3 for every action that   *)
(* no two requests were at work on at once: every change of its row is a    *)
(* step of the life cycle, taken when it may be taken.                      *)
FollowsLifecycle == Lifecycle!Spec

(* "what prevents two simultaneously-requested actions from both going      *)
(* through" (requestToolAction step 6): two actions of a ticket are active  *)
(* only if their requests overlapped, each past its check before the other  *)
(* had written.                                                             *)
OneActivePerTicket == Lifecycle!OneActive

(* However many requests overlap, a ticket never has more active actions    *)
(* than requests can be in flight at once: those that checked together.     *)
ActiveOverrunIsBounded ==
  \A t \in Ticket :
    Cardinality({a \in ActionId : Exists(a) /\ IsActive(a, actions[a].org, t)})
      <= Cardinality(Proc)

(* A rejection is for good ("Rejection is terminal", decideToolAction)      *)
(* unless two requests were at work on the action at once.                  *)
RejectionSettles ==
  [][\A a \in ActionId :
       actions[a].status = "rejected" /\ <<a, a>> \notin met
         => actions'[a] = actions[a]]_vars

(* The stored result is the one every later caller is given (HLD 4.3:       *)
(* "never re-execute"), and no further effect fires, unless two requests    *)
(* were at work on the action at once.                                      *)
ResultSettles ==
  [][\A a \in ActionId :
       actions[a].status = "executed" /\ <<a, a>> \notin met
         => actions'[a] = actions[a] /\ effects'[a] = effects[a]]_vars

-----------------------------------------------------------------------------
(* Claims of the documents and comments that overlapping requests break    *)

(* "what prevents two simultaneously-requested actions from both going      *)
(* through" (requestToolAction step 6), taken at its word.                  *)
NeverTwoActive ==
  \A a, b \in ActionId :
    Exists(a) /\ Exists(b) /\ actions[a].ticket = actions[b].ticket
      /\ {actions[a].status, actions[b].status} \subseteq {"approved", "executed"} => a = b

(* "Rejection is terminal" (decideToolAction).                              *)
RejectionIsTerminal ==
  [][\A a \in ActionId :
       actions[a].status = "rejected" => actions'[a].status = "rejected"]_actions

(* "Retry with same key -> return stored prior result, never re-execute"    *)
(* (HLD 4.3).                                                               *)
ResultIsKept ==
  [][\A a \in ActionId :
       actions[a].status = "executed" => actions'[a] = actions[a]]_actions

(* "two orgs happening to pick the same key must never collide"             *)
(* (toolActionsRepo.ts): no request for a fresh key of its org fails.       *)
KeysNeverCollide == \A r \in answers : r.action # NoAction
=============================================================================
