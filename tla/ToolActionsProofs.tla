-------------------------- MODULE ToolActionsProofs --------------------------
(***************************************************************************)
(* Proofs about ToolActions, for every catalog, every number of tenants,   *)
(* tickets, keys and requests in flight; and about the calendar of         *)
(* Eligibility, which decides what Eligible holds.                         *)
(***************************************************************************)
EXTENDS ToolActions, Eligibility, FiniteSetTheorems, TLAPS

\* A decision or an execution works on a row that exists and stays in its org.
TargetsExist ==
  \A p \in Proc :
    pc[p] \in DecisionSteps \cup ExecutionSteps =>
      Exists(job[p].action) /\ actions[job[p].action].org = job[p].org

\* The id set aside for a request is its own, and unused until it inserts.
IdsReserved ==
  \A p \in Proc :
    pc[p] \in RequestSteps =>
      /\ ~ Exists(job[p].action)
      /\ \A q \in Proc \ {p} : pc[q] \in RequestSteps => job[q].action # job[p].action

WellFormed == TablesOK /\ TargetsExist /\ IdsReserved

LEMMA RowExists ==
  ASSUME TablesOK, NEW a \in ActionId
  PROVE  /\ Exists(a) <=> actions[a] \in Row
         /\ actions[a].status \in Status \cup {"absent"}
         /\ ~ Exists(a) <=> actions[a] = NoAction
BY DEF TablesOK, Exists, Row, NoAction, Status

LEMMA IdleIsFree ==
  ASSUME TablesOK, NEW p \in Proc
  PROVE  /\ pc[p] \in RequestSteps <=> job[p] \in RequestJob
         /\ pc[p] \in DecisionSteps <=> job[p] \in DecisionJob
         /\ pc[p] \in ExecutionSteps <=> job[p] \in ExecutionJob
         /\ pc[p] = "idle" <=> job[p] = NoJob
BY DEF TablesOK, JobOK, NoJob, RequestJob, DecisionJob, ExecutionJob,
       RequestSteps, DecisionSteps, ExecutionSteps

LEMMA InitWellFormed == Init => WellFormed
BY DEF Init, WellFormed, TablesOK, TargetsExist, IdsReserved, JobOK, NoAction, NoJob,
       RequestSteps, DecisionSteps, ExecutionSteps

\* Ending a request leaves everything well formed.
LEMMA FinishWellFormed ==
  ASSUME WellFormed, NEW p \in Proc, Finish(p),
         UNCHANGED <<actions, approvals, effects, category>>,
         answers' \subseteq [org: Org, key: Key, action: ActionId \cup {NoAction}]
  PROVE  WellFormed'
BY DEF WellFormed, TablesOK, TargetsExist, IdsReserved, JobOK, Finish, NoJob, Exists,
       RequestSteps, DecisionSteps, ExecutionSteps

LEMMA AnswerTyped ==
  ASSUME WellFormed, NEW p \in Proc, NEW a \in ActionId \cup {NoAction},
         pc[p] \in RequestSteps, Answer(p, a)
  PROVE  answers' \subseteq [org: Org, key: Key, action: ActionId \cup {NoAction}]
<1>1. job[p] \in RequestJob
  BY IdleIsFree DEF WellFormed
<1>2. QED
  BY <1>1 DEF WellFormed, TablesOK, Answer, RequestJob

LEMMA ReplayWellFormed ==
  ASSUME WellFormed, NEW p \in Proc, pc[p] \in RequestSteps, Replay(p)
  PROVE  WellFormed'
BY FinishWellFormed, AnswerTyped DEF Replay

LEMMA GoWellFormed ==
  ASSUME WellFormed, NEW p \in Proc, NEW step, Go(p, step),
         UNCHANGED <<actions, effects, category, answers, job>>,
         approvals' \subseteq [action: ActionId, decision: Verdict, org: Org],
         \/ pc[p] \in RequestSteps /\ step \in RequestSteps
         \/ pc[p] \in DecisionSteps /\ step \in DecisionSteps
         \/ pc[p] \in ExecutionSteps /\ step \in ExecutionSteps
  PROVE  WellFormed'
BY DEF WellFormed, TablesOK, TargetsExist, IdsReserved, JobOK, Go, Exists,
       RequestSteps, DecisionSteps, ExecutionSteps

LEMMA InsertWellFormed ==
  ASSUME WellFormed, NEW p \in Proc, Insert(p)
  PROVE  WellFormed'
<1>1. job[p] \in RequestJob /\ pc[p] \in RequestSteps /\ ~ Exists(job[p].action)
  BY IdleIsFree DEF Insert, RequestSteps, WellFormed, IdsReserved
<1>2. NewRow(job[p]) \in Row /\ NewRow(job[p]).status # "absent"
  BY <1>1 DEF NewRow, Row, Status, RequestJob
<1>3. actions' \in [ActionId -> Row \cup {NoAction}]
  BY <1>1, <1>2 DEF Insert, TablesOK, WellFormed, RequestJob
<1>4. answers' \subseteq [org: Org, key: Key, action: ActionId \cup {NoAction}]
  BY <1>1, AnswerTyped DEF Insert, RequestJob
<1>5. TablesOK'
  BY <1>3, <1>4 DEF WellFormed, Insert, TablesOK, Finish, JobOK, NoJob,
       RequestSteps, DecisionSteps, ExecutionSteps
<1>6. \A q \in Proc \ {p} : pc'[q] = pc[q] /\ job'[q] = job[q]
  BY DEF Insert, Finish, WellFormed, TablesOK
<1>7. pc'[p] = "idle"
  BY DEF Insert, Finish, WellFormed, TablesOK
<1>8. \A a \in ActionId : a # job[p].action => actions'[a] = actions[a]
  BY <1>1 DEF Insert, WellFormed, TablesOK
<1>9. TargetsExist'
  <2> SUFFICES ASSUME NEW q \in Proc \ {p}, pc[q] \in DecisionSteps \cup ExecutionSteps
               PROVE  actions'[job[q].action] = actions[job[q].action]
    BY <1>6, <1>7 DEF TargetsExist, Exists, WellFormed, DecisionSteps, ExecutionSteps
  <2>1. Exists(job[q].action) /\ job[q].action \in ActionId
    BY IdleIsFree DEF WellFormed, TargetsExist, DecisionJob, ExecutionJob
  <2>2. QED
    BY <2>1, <1>1, <1>8
<1>10. IdsReserved'
  <2> SUFFICES ASSUME NEW q \in Proc \ {p}, pc[q] \in RequestSteps
               PROVE  actions'[job[q].action] = actions[job[q].action]
    BY <1>6, <1>7 DEF IdsReserved, Exists, WellFormed, RequestSteps
  <2>1. job[q].action # job[p].action /\ job[q].action \in ActionId
    BY <1>1, IdleIsFree DEF WellFormed, IdsReserved, RequestJob
  <2>2. QED
    BY <2>1, <1>8
<1>11. QED
  BY <1>5, <1>9, <1>10 DEF WellFormed

\* The effect fires: its number goes into the job.
LEMMA FireWellFormed ==
  ASSUME WellFormed, NEW p \in Proc, pc[p] \in ExecutionSteps, FireEffect(p),
         UNCHANGED <<actions, approvals, category, answers>>
  PROVE  WellFormed'
<1>1. job[p] \in ExecutionJob
  BY IdleIsFree DEF WellFormed
<1>2. /\ effects' \in [ActionId -> Nat]
      /\ job'[p] \in ExecutionJob
      /\ job'[p].action = job[p].action
      /\ job'[p].org = job[p].org
  BY <1>1 DEF FireEffect, ExecutionJob, WellFormed, TablesOK
<1>3. TablesOK'
  BY <1>1, <1>2 DEF FireEffect, Go, WellFormed, TablesOK, JobOK,
       RequestSteps, DecisionSteps, ExecutionSteps
<1>4. TargetsExist' /\ IdsReserved'
  BY <1>1, <1>2 DEF FireEffect, Go, WellFormed, TablesOK, TargetsExist, IdsReserved,
       Exists, RequestSteps, DecisionSteps, ExecutionSteps
<1>5. QED
  BY <1>3, <1>4 DEF WellFormed

\* Writing a status and a result into an existing row.
LEMMA RowWriteWellFormed ==
  ASSUME WellFormed, NEW p \in Proc, NEW a \in ActionId, Exists(a), Finish(p),
         NEW status \in Status, NEW result \in Nat,
         actions' = [actions EXCEPT ![a].status = status, ![a].result = result],
         UNCHANGED <<approvals, effects, category, answers>>
  PROVE  WellFormed'
<1>1. actions[a] \in Row
  BY RowExists DEF WellFormed
<1>2. actions'[a] \in Row /\ actions'[a].org = actions[a].org
  BY <1>1 DEF WellFormed, TablesOK, Row
<1>3. \A b \in ActionId \ {a} : actions'[b] = actions[b]
  BY DEF WellFormed, TablesOK
<1>4. \A b \in ActionId : Exists(b)' <=> Exists(b)
  BY <1>1, <1>2, <1>3 DEF Exists, Row, Status
<1>5. TablesOK'
  BY <1>1, <1>2, <1>3 DEF WellFormed, TablesOK, Finish, JobOK, NoJob,
       RequestSteps, DecisionSteps, ExecutionSteps
<1>6. \A b \in ActionId : actions'[b].org = actions[b].org
  BY <1>2, <1>3
<1>7. \A q \in Proc \ {p} : pc'[q] = pc[q] /\ job'[q] = job[q]
  BY DEF Finish, WellFormed, TablesOK
<1>8. pc'[p] = "idle"
  BY DEF Finish, WellFormed, TablesOK
<1>9. \A q \in Proc : pc[q] # "idle" => job[q].action \in ActionId
  BY DEF WellFormed, TablesOK, JobOK, RequestJob, DecisionJob, ExecutionJob
<1>10. TargetsExist'
  <2> SUFFICES ASSUME NEW q \in Proc, pc'[q] \in DecisionSteps \cup ExecutionSteps
               PROVE  Exists(job[q].action)' /\ actions'[job'[q].action].org = job'[q].org
    BY DEF TargetsExist, Exists
  <2>1. q # p
    BY <1>8 DEF DecisionSteps, ExecutionSteps
  <2>2. pc'[q] = pc[q] /\ job'[q] = job[q]
    BY <2>1, <1>7
  <2>3. job[q].action \in ActionId
    BY <2>2, <1>9 DEF DecisionSteps, ExecutionSteps
  <2>4. Exists(job[q].action) /\ actions[job[q].action].org = job[q].org
    BY <2>2 DEF WellFormed, TargetsExist
  <2>5. QED
    BY <2>2, <2>3, <2>4, <1>4, <1>6 DEF Exists
<1>11. IdsReserved'
  <2> SUFFICES ASSUME NEW q \in Proc, pc'[q] \in RequestSteps
               PROVE  /\ ~ Exists(job[q].action)'
                      /\ \A r \in Proc \ {q} :
                           pc'[r] \in RequestSteps => job'[r].action # job'[q].action
    BY DEF IdsReserved, Exists
  <2>1. \A r \in Proc : pc'[r] \in RequestSteps => r # p /\ pc[r] = pc'[r] /\ job[r] = job'[r]
    BY <1>7, <1>8 DEF RequestSteps
  <2>2. job[q].action \in ActionId
    BY <2>1, <1>9 DEF RequestSteps
  <2>3. pc[q] \in RequestSteps /\ job'[q] = job[q]
    BY <2>1
  <2>4. ~ Exists(job[q].action)
    BY <2>3 DEF WellFormed, IdsReserved
  <2>5. ~ Exists(job[q].action)'
    BY <2>2, <2>3, <2>4, <1>4 DEF Exists
  <2>6. \A r \in Proc \ {q} : pc'[r] \in RequestSteps => job'[r].action # job'[q].action
    BY <2>1, <2>3 DEF WellFormed, IdsReserved
  <2>7. QED
    BY <2>5, <2>6
<1>12. QED
  BY <1>5, <1>10, <1>11 DEF WellFormed

LEMMA WellFormedStep == WellFormed /\ [Next]_vars => WellFormed'
<1> USE DEF WellFormed
<1> SUFFICES ASSUME WellFormed, [Next]_vars PROVE WellFormed'
  OBVIOUS
<1>1. ASSUME NEW p \in Proc, NEW o \in Org, NEW t \in Ticket, NEW tool \in Tool,
             NEW k \in Key, NEW a \in ActionId, StartRequest(p, o, t, tool, k, a)
      PROVE  WellFormed'
  BY <1>1 DEF StartRequest, TablesOK, TargetsExist, IdsReserved, JobOK, Go, Exists, NoJob,
       RequestJob, RequestSteps, DecisionSteps, ExecutionSteps
<1>2. ASSUME NEW p \in Proc, NEW o \in Org, NEW a \in ActionId,
             NEW verdict \in Verdict, StartDecision(p, o, a, verdict)
      PROVE  WellFormed'
  BY <1>2 DEF StartDecision, TablesOK, TargetsExist, IdsReserved, JobOK, Go, Exists, NoJob,
       DecisionJob, RequestSteps, DecisionSteps, ExecutionSteps
<1>3. ASSUME NEW p \in Proc, NEW o \in Org, NEW a \in ActionId, StartExecution(p, o, a)
      PROVE  WellFormed'
  BY <1>3 DEF StartExecution, TablesOK, TargetsExist, IdsReserved, JobOK, Go, Exists, NoJob,
       ExecutionJob, RequestSteps, DecisionSteps, ExecutionSteps
<1>4. ASSUME NEW p \in Proc, FindKey(p) PROVE WellFormed'
  <2>1. pc[p] \in RequestSteps
    BY <1>4 DEF FindKey, RequestSteps
  <2>2. CASE Replay(p)
    BY <2>1, <2>2, ReplayWellFormed
  <2>3. CASE Go(p, "find_active") /\ UNCHANGED <<actions, approvals, effects, category, answers, job>>
    BY <2>1, <2>3, GoWellFormed DEF TablesOK, RequestSteps
  <2>4. QED
    BY <1>4, <2>2, <2>3 DEF FindKey
<1>5. ASSUME NEW p \in Proc, FindActive(p) PROVE WellFormed'
  BY <1>5, FinishWellFormed, GoWellFormed DEF FindActive, TablesOK, RequestSteps
<1>6. ASSUME NEW p \in Proc, Insert(p) PROVE WellFormed'
  BY <1>6, InsertWellFormed
<1>7. ASSUME NEW p \in Proc, InsertRefused(p) PROVE WellFormed'
  BY <1>7, GoWellFormed DEF InsertRefused, TablesOK, RequestSteps
<1>8. ASSUME NEW p \in Proc, FindRaced(p) PROVE WellFormed'
  <2>1. pc[p] \in RequestSteps
    BY <1>8 DEF FindRaced, RequestSteps
  <2>2. QED
    BY <2>1, <1>8, ReplayWellFormed, AnswerTyped, FinishWellFormed DEF FindRaced
<1>9. ASSUME NEW p \in Proc, CheckActive(p) PROVE WellFormed'
  BY <1>9, FinishWellFormed, GoWellFormed DEF CheckActive, TablesOK, DecisionSteps
<1>10. ASSUME NEW p \in Proc, LogDecision(p) PROVE WellFormed'
  <2>1. job[p] \in DecisionJob /\ pc[p] \in DecisionSteps
    BY <1>10, IdleIsFree DEF LogDecision, DecisionSteps
  <2>2. approvals' \subseteq [action: ActionId, decision: Verdict, org: Org]
    BY <2>1, <1>10 DEF LogDecision, DecisionJob, TablesOK
  <2>3. QED
    BY <2>1, <2>2, <1>10, GoWellFormed DEF LogDecision, DecisionSteps
<1>11. ASSUME NEW p \in Proc, WriteDecision(p) PROVE WellFormed'
  <2>1. /\ job[p] \in DecisionJob
        /\ Exists(job[p].action)
    BY <1>11, IdleIsFree DEF WriteDecision, DecisionSteps, TargetsExist
  <2>2. /\ actions[job[p].action] \in Row
        /\ job[p].action \in ActionId
        /\ job[p].verdict \in Status
    BY <2>1, RowExists DEF DecisionJob, Verdict, Status
  <2>3. actions' = [actions EXCEPT ![job[p].action].status = job[p].verdict,
                                   ![job[p].action].result = actions[job[p].action].result]
    <3> DEFINE row == actions[job[p].action]
    <3>1. [row EXCEPT !.status = job[p].verdict]
            = [[row EXCEPT !.status = job[p].verdict] EXCEPT !.result = row.result]
      BY <2>2 DEF Row
    <3>2. QED
      BY <3>1, <2>2, <1>11 DEF WriteDecision, TablesOK
  <2>4. actions[job[p].action].result \in Nat
    BY <2>2 DEF Row
  <2>5. Finish(p) /\ UNCHANGED <<approvals, effects, category, answers>>
    BY <1>11 DEF WriteDecision
  <2>6. QED
    BY <2>1, <2>2, <2>3, <2>4, <2>5, RowWriteWellFormed
<1>12. ASSUME NEW p \in Proc, Scan(p) PROVE WellFormed'
  <2>1. pc[p] \in ExecutionSteps
    BY <1>12 DEF Scan, ExecutionSteps
  <2>2. CASE FireEffect(p)
    BY <2>1, <2>2, <1>12, FireWellFormed DEF Scan
  <2>3. CASE Finish(p) /\ UNCHANGED effects
    BY <2>3, <1>12, FinishWellFormed DEF Scan, TablesOK
  <2>4. CASE Go(p, "recheck") /\ UNCHANGED <<effects, job>>
    BY <2>1, <2>4, <1>12, GoWellFormed DEF Scan, TablesOK, ExecutionSteps
  <2>5. QED
    BY <2>2, <2>3, <2>4, <1>12 DEF Scan
<1>13. ASSUME NEW p \in Proc, Recheck(p) PROVE WellFormed'
  <2>1. pc[p] \in ExecutionSteps
    BY <1>13 DEF Recheck, ExecutionSteps
  <2>2. CASE FireEffect(p)
    BY <2>1, <2>2, <1>13, FireWellFormed DEF Recheck
  <2>3. CASE Go(p, "write_failed") /\ UNCHANGED <<effects, job>>
    BY <2>1, <2>3, <1>13, GoWellFormed DEF Recheck, TablesOK, ExecutionSteps
  <2>4. QED
    BY <2>2, <2>3, <1>13 DEF Recheck
<1>14. ASSUME NEW p \in Proc, WriteExecuted(p) PROVE WellFormed'
  <2>1. job[p] \in ExecutionJob /\ Exists(job[p].action)
    BY <1>14, IdleIsFree DEF WriteExecuted, ExecutionSteps, TargetsExist
  <2>2. QED
    BY <2>1, <1>14, RowWriteWellFormed DEF WriteExecuted, ExecutionJob, Status
<1>15. ASSUME NEW p \in Proc, WriteFailed(p) PROVE WellFormed'
  <2>1. job[p] \in ExecutionJob /\ Exists(job[p].action)
    BY <1>15, IdleIsFree DEF WriteFailed, ExecutionSteps, TargetsExist
  <2>2. QED
    BY <2>1, <1>15, RowWriteWellFormed DEF WriteFailed, ExecutionJob, Status
<1>16. ASSUME NEW p \in Proc, Abort(p) PROVE WellFormed'
  BY <1>16, FinishWellFormed DEF Abort, TablesOK
<1>17. CASE Environment
  BY <1>17 DEF Environment, Triage, TablesOK, TargetsExist, IdsReserved,
       JobOK, Exists
<1>18. CASE UNCHANGED vars
  BY <1>18 DEF vars, TablesOK, TargetsExist, IdsReserved, JobOK, Exists
<1>19. QED
  BY <1>1, <1>2, <1>3, <1>4, <1>5, <1>6, <1>7, <1>8, <1>9, <1>10, <1>11, <1>12,
     <1>13, <1>14, <1>15, <1>16, <1>17, <1>18 DEF Next, Step, Arrive, Continue

(* The type invariant holds in every reachable state.                      *)
THEOREM TypeCorrect == Spec => []TypeOK
<1>1. Spec => []WellFormed
  BY InitWellFormed, WellFormedStep, PTL DEF Spec
<1>2. Spec => [](met \subseteq ActionId \X ActionId)
  <2>1. Init => met \subseteq ActionId \X ActionId
    BY DEF Init
  <2>2. met \subseteq ActionId \X ActionId /\ [Next]_vars => (met \subseteq ActionId \X ActionId)'
    BY DEF Next, Meetings, vars
  <2>3. QED
    BY <2>1, <2>2, PTL DEF Spec
<1>3. WellFormed /\ met \subseteq ActionId \X ActionId => TypeOK
  BY DEF WellFormed, TypeOK
<1>4. QED
  BY <1>1, <1>2, <1>3, PTL

-----------------------------------------------------------------------------
(* What no step takes back                                                 *)

SameRow(a) ==
  /\ actions'[a].org = actions[a].org
  /\ actions'[a].ticket = actions[a].ticket
  /\ actions'[a].tool = actions[a].tool
  /\ actions'[a].key = actions[a].key

\* A row, once there, keeps its identity; approvals are never withdrawn.
Kept ==
  /\ approvals \subseteq approvals'
  /\ \A a \in ActionId : Exists(a) => Exists(a)' /\ SameRow(a)

LEMMA StatusWriteKeeps ==
  ASSUME WellFormed, NEW a \in ActionId, Exists(a), NEW status \in Status,
         \/ actions' = [actions EXCEPT ![a].status = status]
         \/ \E result \in Nat :
              actions' = [actions EXCEPT ![a].status = status, ![a].result = result],
         UNCHANGED approvals
  PROVE  Kept /\ actions'[a].status = status
                /\ \A b \in ActionId \ {a} : actions'[b] = actions[b]
BY RowExists DEF WellFormed, TablesOK, Kept, SameRow, Exists, Row, Status

LEMMA StepKeeps == WellFormed /\ [Next]_vars => Kept
<1> SUFFICES ASSUME WellFormed, [Next]_vars PROVE Kept
  OBVIOUS
<1>1. CASE UNCHANGED actions /\ approvals \subseteq approvals'
  BY <1>1 DEF Kept, SameRow, Exists
<1>2. ASSUME NEW p \in Proc, Insert(p) PROVE Kept
  <2>1. job[p] \in RequestJob /\ ~ Exists(job[p].action)
    BY <1>2, IdleIsFree DEF Insert, RequestSteps, WellFormed, IdsReserved
  <2>2. QED
    BY <2>1, <1>2 DEF Insert, WellFormed, TablesOK, Kept, SameRow, Exists
<1>3. ASSUME NEW p \in Proc, WriteDecision(p) PROVE Kept
  <2>1. job[p] \in DecisionJob /\ Exists(job[p].action)
    BY <1>3, IdleIsFree DEF WriteDecision, DecisionSteps, TargetsExist, WellFormed
  <2>2. QED
    BY <2>1, <1>3, StatusWriteKeeps DEF WriteDecision, DecisionJob, Verdict, Status
<1>4. ASSUME NEW p \in Proc, WriteExecuted(p) PROVE Kept
  <2>1. job[p] \in ExecutionJob /\ Exists(job[p].action)
    BY <1>4, IdleIsFree DEF WriteExecuted, ExecutionSteps, TargetsExist, WellFormed
  <2>2. QED
    BY <2>1, <1>4, StatusWriteKeeps DEF WriteExecuted, ExecutionJob, Status
<1>5. ASSUME NEW p \in Proc, WriteFailed(p) PROVE Kept
  <2>1. job[p] \in ExecutionJob /\ Exists(job[p].action)
    BY <1>5, IdleIsFree DEF WriteFailed, ExecutionSteps, TargetsExist, WellFormed
  <2>2. QED
    BY <2>1, <1>5, StatusWriteKeeps DEF WriteFailed, ExecutionJob, Status
<1>6. ASSUME NEW p \in Proc, Arrive(p) PROVE UNCHANGED <<actions, approvals>>
  BY <1>6 DEF Arrive, StartRequest, StartDecision, StartExecution
<1>7. ASSUME NEW p \in Proc,
             FindKey(p) \/ FindActive(p) \/ InsertRefused(p) \/ FindRaced(p) \/ CheckActive(p)
             \/ Scan(p) \/ Recheck(p) \/ Abort(p)
      PROVE  UNCHANGED <<actions, approvals>>
  BY <1>7 DEF FindKey, FindActive, InsertRefused, FindRaced, Replay, CheckActive,
       Scan, Recheck, Abort
<1>8. ASSUME NEW p \in Proc, LogDecision(p)
      PROVE  UNCHANGED actions /\ approvals \subseteq approvals'
  BY <1>8 DEF LogDecision
<1>9. CASE Environment
  BY <1>9, <1>1 DEF Environment, Triage
<1>10. CASE UNCHANGED vars
  BY <1>10, <1>1 DEF vars
<1>11. QED
  BY <1>1, <1>2, <1>3, <1>4, <1>5, <1>6, <1>7, <1>8, <1>9, <1>10 DEF Next, Step, Continue

-----------------------------------------------------------------------------
(* Approvals                                                               *)

\* The inductive invariant: besides the two properties, what a decision about
\* to be written and an execution in progress may rely on.
ApprovalInv ==
  /\ StatusIsLogged
  /\ ApprovalPrecedesEffect
  /\ IneligibleFiresNothing
  /\ \A a \in ActionId : effects[a] > 0 => Exists(a)
  /\ \A p \in Proc :
       /\ pc[p] = "write_decision" => Logged(job[p].action, job[p].verdict)
       /\ /\ pc[p] \in ExecutionSteps
          /\ actions[job[p].action].tool \in NeedsApproval
          => Logged(job[p].action, "approved")

LEMMA LoggedKept ==
  ASSUME Kept, NEW a \in ActionId, Exists(a), NEW decision, Logged(a, decision)
  PROVE  Logged(a, decision)'
BY DEF Kept, SameRow, Logged

\* Processes other than p, and p itself when it ends, need nothing new.
OnlyMoves(p) ==
  \A q \in Proc \ {p} : pc'[q] = pc[q] /\ job'[q] = job[q]

LEMMA ApprovalInvKept ==
  ASSUME WellFormed, WellFormed', ApprovalInv, Kept,
         NEW p \in Proc, OnlyMoves(p),
         pc'[p] = "write_decision" => Logged(job[p].action, job[p].verdict)' /\ job'[p] = job[p],
         pc'[p] \in ExecutionSteps /\ actions'[job'[p].action].tool \in NeedsApproval
           => Logged(job[p].action, "approved")' /\ job'[p].action = job[p].action,
         \A a \in ActionId :
           \/ actions'[a].status = actions[a].status /\ SameRow(a)
           \/ /\ actions'[a].status = "rejected" => Logged(a, "rejected")'
              /\ /\ actions'[a].status \in {"approved", "executed", "failed"}
                 /\ actions'[a].tool \in NeedsApproval
                 => Logged(a, "approved")',
         \A a \in ActionId :
           \/ effects'[a] = effects[a]
           \/ /\ Exists(a)
              /\ actions[a].tool \in NeedsApproval => Logged(a, "approved")
              /\ actions[a].tool \in EligibilityGated => actions[a].ticket \in Eligible
  PROVE  ApprovalInv'
<1>1. \A a \in ActionId : Exists(a) => Exists(a)' /\ SameRow(a)
  BY DEF Kept
<1>2. StatusIsLogged'
  BY <1>1, LoggedKept DEF ApprovalInv, StatusIsLogged, Logged, Exists, SameRow, Kept
<1>3. \A a \in ActionId : effects'[a] > 0 => Exists(a)
  BY DEF ApprovalInv
<1>4. ApprovalPrecedesEffect'
  BY <1>1, <1>3, LoggedKept DEF ApprovalInv, ApprovalPrecedesEffect, Logged, Exists, SameRow
<1>5. IneligibleFiresNothing'
  BY <1>1, <1>3 DEF ApprovalInv, IneligibleFiresNothing, SameRow
<1>6. \A a \in ActionId : effects'[a] > 0 => Exists(a)'
  BY <1>1, <1>3
<1>7. ASSUME NEW q \in Proc
      PROVE  /\ pc'[q] = "write_decision" => Logged(job[q].action, job[q].verdict)'
             /\ /\ pc'[q] \in ExecutionSteps
                /\ actions'[job'[q].action].tool \in NeedsApproval
                => Logged(job[q].action, "approved")'
  <2>1. CASE q = p
    BY <2>1 DEF Logged
  <2>2. CASE q # p
    <3>1. pc'[q] = pc[q] /\ job'[q] = job[q]
      BY <2>2 DEF OnlyMoves
    <3>2. pc[q] \in DecisionSteps \cup ExecutionSteps =>
            job[q].action \in ActionId /\ Exists(job[q].action)
      BY IdleIsFree DEF WellFormed, TargetsExist, DecisionJob, ExecutionJob
    <3>3. QED
      BY <3>1, <3>2, <1>1, LoggedKept
         DEF ApprovalInv, Logged, SameRow, DecisionSteps, Kept
  <2>3. QED
    BY <2>1, <2>2
<1>8. QED
  BY <1>2, <1>4, <1>5, <1>6, <1>7 DEF ApprovalInv, Exists

LEMMA ApprovalStep == WellFormed /\ ApprovalInv /\ [Next]_vars => ApprovalInv'
<1> SUFFICES ASSUME WellFormed, ApprovalInv, [Next]_vars PROVE ApprovalInv'
  OBVIOUS
<1>a. WellFormed' /\ Kept
  BY WellFormedStep, StepKeeps
<1>1. ASSUME NEW p \in Proc, Arrive(p) PROVE ApprovalInv'
  <2>1. UNCHANGED <<actions, approvals, effects>> /\ OnlyMoves(p) /\ pc'[p] # "write_decision"
    BY <1>1 DEF Arrive, StartRequest, StartDecision, StartExecution, Go, OnlyMoves,
         WellFormed, TablesOK
  <2>2. ASSUME pc'[p] \in ExecutionSteps, actions'[job'[p].action].tool \in NeedsApproval
        PROVE  Logged(job[p].action, "approved")'
    <3>1. PICK o \in Org, a \in ActionId : StartExecution(p, o, a)
      BY <1>1, <2>2 DEF Arrive, StartRequest, StartDecision, Go, ExecutionSteps,
           WellFormed, TablesOK
    <3>2. job'[p].action = a /\ actions[a].status = "approved"
      BY <3>1 DEF StartExecution, WellFormed, TablesOK
    <3>3. QED
      BY <3>2, <2>1, <2>2 DEF ApprovalInv, StatusIsLogged, Logged
  <2>3. QED
    BY <2>1, <2>2 DEF ApprovalInv, StatusIsLogged, ApprovalPrecedesEffect,
         IneligibleFiresNothing, Logged, Exists, OnlyMoves
<1>2. ASSUME NEW p \in Proc,
             \/ Finish(p)
             \/ Go(p, "find_active") /\ UNCHANGED job
             \/ Go(p, "insert") /\ UNCHANGED job
             \/ Go(p, "find_raced") /\ UNCHANGED job
             \/ Go(p, "log_decision") /\ UNCHANGED job
             \/ pc[p] \in ExecutionSteps /\ Go(p, "recheck") /\ UNCHANGED job
             \/ pc[p] \in ExecutionSteps /\ Go(p, "write_failed") /\ UNCHANGED job,
             UNCHANGED <<actions, approvals, effects>>
      PROVE  ApprovalInv'
  <2>1. OnlyMoves(p)
    BY <1>2 DEF Finish, Go, OnlyMoves, WellFormed, TablesOK
  <2>2. /\ pc'[p] # "write_decision"
        /\ pc'[p] \in ExecutionSteps => pc[p] \in ExecutionSteps /\ job'[p] = job[p]
    BY <1>2 DEF Finish, Go, WellFormed, TablesOK, ExecutionSteps
  <2>3. QED
    BY <2>1, <2>2, <1>2, <1>a, ApprovalInvKept DEF ApprovalInv, Logged, SameRow
<1>3. ASSUME NEW p \in Proc, Insert(p) PROVE ApprovalInv'
  <2>1. job[p] \in RequestJob /\ ~ Exists(job[p].action)
    BY <1>3, IdleIsFree DEF Insert, RequestSteps, WellFormed, IdsReserved
  <2>2. OnlyMoves(p) /\ pc'[p] = "idle"
    BY <1>3 DEF Insert, Finish, OnlyMoves, WellFormed, TablesOK
  <2>3. actions'[job[p].action] = NewRow(job[p])
        /\ \A a \in ActionId \ {job[p].action} : actions'[a] = actions[a]
    BY <2>1, <1>3 DEF Insert, WellFormed, TablesOK, RequestJob
  <2>4. \A a \in ActionId :
          \/ actions'[a].status = actions[a].status /\ SameRow(a)
          \/ /\ actions'[a].status # "rejected"
             /\ actions'[a].status = "approval_required" \/ actions'[a].tool \notin NeedsApproval
    BY <2>3 DEF NewRow, SameRow
  <2>5. UNCHANGED <<approvals, effects>>
    BY <1>3 DEF Insert
  <2>6. QED
    BY <2>2, <2>4, <2>5, <1>a, ApprovalInvKept DEF ExecutionSteps
<1>4. ASSUME NEW p \in Proc, LogDecision(p) PROVE ApprovalInv'
  <2>1. job[p] \in DecisionJob /\ Exists(job[p].action)
        /\ actions[job[p].action].org = job[p].org
    BY <1>4, IdleIsFree DEF LogDecision, DecisionSteps, WellFormed, TargetsExist
  <2>2. OnlyMoves(p) /\ pc'[p] = "write_decision" /\ UNCHANGED <<actions, effects, job>>
    BY <1>4 DEF LogDecision, Go, OnlyMoves, WellFormed, TablesOK
  <2>3. Logged(job[p].action, job[p].verdict)'
    BY <2>1, <2>2, <1>4 DEF LogDecision, Logged
  <2>4. QED
    BY <2>2, <2>3, <1>a, ApprovalInvKept DEF SameRow, ExecutionSteps, Logged
<1>5. ASSUME NEW p \in Proc, WriteDecision(p) PROVE ApprovalInv'
  <2>1. job[p] \in DecisionJob /\ Exists(job[p].action)
    BY <1>5, IdleIsFree DEF WriteDecision, DecisionSteps, WellFormed, TargetsExist
  <2>2. PICK a \in ActionId, verdict \in Verdict : a = job[p].action /\ verdict = job[p].verdict
    BY <2>1 DEF DecisionJob
  <2>3. OnlyMoves(p) /\ pc'[p] = "idle" /\ UNCHANGED <<approvals, effects>>
    BY <1>5 DEF WriteDecision, Finish, OnlyMoves, WellFormed, TablesOK
  <2>4. /\ actions'[a].status = verdict
        /\ \A b \in ActionId \ {a} : actions'[b] = actions[b]
    BY <2>1, <2>2, <1>5, StatusWriteKeeps DEF WriteDecision, Verdict, Status
  <2>5. Logged(a, verdict)
    BY <2>2, <1>5 DEF WriteDecision, ApprovalInv
  <2>6. Logged(a, verdict)'
    BY <2>1, <2>2, <2>5, <1>a, LoggedKept
  <2>7. \A b \in ActionId \ {a} : actions'[b].status = actions[b].status /\ SameRow(b)
    BY <2>4 DEF SameRow
  <2>8. \A b \in ActionId :
          \/ actions'[b].status = actions[b].status /\ SameRow(b)
          \/ /\ actions'[b].status = "rejected" => Logged(b, "rejected")'
             /\ /\ actions'[b].status \in {"approved", "executed", "failed"}
                /\ actions'[b].tool \in NeedsApproval
                => Logged(b, "approved")'
    BY <2>4, <2>6, <2>7 DEF Verdict
  <2>9. QED
    BY <2>3, <2>8, <1>a, ApprovalInvKept DEF ExecutionSteps
<1>6. ASSUME NEW p \in Proc, FireEffect(p), pc[p] \in ExecutionSteps,
             UNCHANGED <<actions, approvals>>,
             \/ actions[job[p].action].tool \notin EligibilityGated
             \/ actions[job[p].action].ticket \in Eligible
      PROVE  ApprovalInv'
  <2>1. job[p] \in ExecutionJob /\ Exists(job[p].action)
    BY <1>6, IdleIsFree DEF WellFormed, TargetsExist
  <2>2. OnlyMoves(p) /\ pc'[p] = "write_executed" /\ job'[p].action = job[p].action
    BY <1>6, <2>1 DEF FireEffect, Go, OnlyMoves, WellFormed, TablesOK
  <2>3. \A a \in ActionId : a = job[p].action \/ effects'[a] = effects[a]
    BY <1>6 DEF FireEffect, WellFormed, TablesOK
  <2>4. actions[job[p].action].tool \in NeedsApproval => Logged(job[p].action, "approved")
    BY <1>6 DEF ApprovalInv
  <2>5. QED
    BY <2>1, <2>2, <2>3, <2>4, <1>6, <1>a, ApprovalInvKept DEF SameRow, Logged
<1>7. ASSUME NEW p \in Proc, WriteExecuted(p) \/ WriteFailed(p) PROVE ApprovalInv'
  <2>1. /\ job[p] \in ExecutionJob
        /\ Exists(job[p].action)
        /\ pc[p] \in ExecutionSteps
    BY <1>7, IdleIsFree DEF WriteExecuted, WriteFailed, ExecutionSteps, WellFormed, TargetsExist
  <2>2. OnlyMoves(p) /\ pc'[p] = "idle" /\ UNCHANGED <<approvals, effects>>
    BY <1>7 DEF WriteExecuted, WriteFailed, Finish, OnlyMoves, WellFormed, TablesOK
  <2>3. /\ actions'[job[p].action].status \in {"executed", "failed"}
        /\ \A a \in ActionId \ {job[p].action} : actions'[a] = actions[a]
    BY <2>1, <1>7, StatusWriteKeeps DEF WriteExecuted, WriteFailed, ExecutionJob, Status
  <2>4. PICK a \in ActionId : a = job[p].action
    BY <2>1 DEF ExecutionJob
  <2>5. SameRow(a)
    BY <2>1, <2>4, <1>a DEF Kept
  <2>6. actions'[a].tool \in NeedsApproval => Logged(a, "approved")
    BY <2>1, <2>4, <2>5 DEF ApprovalInv, SameRow
  <2>7. actions'[a].tool \in NeedsApproval => Logged(a, "approved")'
    BY <2>1, <2>4, <2>6, <1>a, LoggedKept
  <2>8. \A b \in ActionId \ {a} : actions'[b].status = actions[b].status /\ SameRow(b)
    BY <2>3, <2>4 DEF SameRow
  <2>9. \A b \in ActionId :
          \/ actions'[b].status = actions[b].status /\ SameRow(b)
          \/ /\ actions'[b].status = "rejected" => Logged(b, "rejected")'
             /\ /\ actions'[b].status \in {"approved", "executed", "failed"}
                /\ actions'[b].tool \in NeedsApproval
                => Logged(b, "approved")'
    BY <2>3, <2>4, <2>7, <2>8
  <2>10. QED
    BY <2>2, <2>9, <1>a, ApprovalInvKept DEF ExecutionSteps
<1>8. CASE Environment \/ UNCHANGED vars
  <2>1. UNCHANGED <<actions, approvals, effects, pc, job>>
    BY <1>8 DEF Environment, Triage, vars
  <2>2. QED
    BY <2>1 DEF ApprovalInv, StatusIsLogged, ApprovalPrecedesEffect,
         IneligibleFiresNothing, Logged, Exists
<1>9. ASSUME NEW p \in Proc, Continue(p) \/ Abort(p) PROVE ApprovalInv'
  <2>1. CASE FindKey(p) \/ FindActive(p) \/ InsertRefused(p) \/ FindRaced(p) \/ CheckActive(p) \/ Abort(p)
    BY <2>1, <1>2 DEF FindKey, FindActive, InsertRefused, FindRaced, Replay, CheckActive, Abort
  <2>2. CASE Scan(p)
    BY <2>2, <1>2, <1>6 DEF Scan, ExecutionSteps
  <2>3. CASE Recheck(p)
    BY <2>3, <1>2, <1>6 DEF Recheck, ExecutionSteps
  <2>4. QED
    BY <2>1, <2>2, <2>3, <1>3, <1>4, <1>5, <1>7, <1>9 DEF Continue
<1>10. QED
  BY <1>1, <1>8, <1>9 DEF Next, Step

LEMMA InitApproval == Init => ApprovalInv
BY DEF Init, ApprovalInv, StatusIsLogged, ApprovalPrecedesEffect, IneligibleFiresNothing,
       NoAction, Exists, ExecutionSteps

LEMMA ApprovalAlways == Spec => []ApprovalInv
<1>1. Init => WellFormed /\ ApprovalInv
  BY InitWellFormed, InitApproval
<1>2. (WellFormed /\ ApprovalInv) /\ [Next]_vars => (WellFormed /\ ApprovalInv)'
  BY WellFormedStep, ApprovalStep
<1>3. QED
  BY <1>1, <1>2, PTL DEF Spec

(* However requests interleave and fail, an effect of a tool that needs     *)
(* approval fires only after an approval of that action was recorded.       *)
THEOREM EffectsAreApproved == Spec => []ApprovalPrecedesEffect
<1>1. ApprovalInv => ApprovalPrecedesEffect
  BY DEF ApprovalInv
<1>2. QED
  BY <1>1, ApprovalAlways, PTL

(* A decided status always has its row in the approvals table.              *)
THEOREM DecisionsAreLogged == Spec => []StatusIsLogged
<1>1. ApprovalInv => StatusIsLogged
  BY DEF ApprovalInv
<1>2. QED
  BY <1>1, ApprovalAlways, PTL

(* A ticket past its return window and warranty gets no replacement and no  *)
(* refund review.                                                           *)
THEOREM IneligibleNeverExecuted == Spec => []IneligibleFiresNothing
<1>1. ApprovalInv => IneligibleFiresNothing
  BY DEF ApprovalInv
<1>2. QED
  BY <1>1, ApprovalAlways, PTL

-----------------------------------------------------------------------------
(* Idempotency keys and tenants                                            *)

UniqueKeys ==
  \A a, b \in ActionId :
    Exists(a) /\ Exists(b) /\ actions[a].key = actions[b].key => a = b

AnswersHold ==
  \A r \in answers : r.action # NoAction => HasKey(r.action, r.org, r.key)

\* The inductive invariant: rows never share a key, an answer names a row with
\* the key and org of its request, and a refused insert left its cause behind.
KeyInv ==
  /\ UniqueKeys
  /\ AnswersHold
  /\ ErrorOnlyForForeignKey
  /\ \A a \in ActionId : Exists(a) => actions[a].org = TicketOrg[actions[a].ticket]
  /\ \A r \in approvals : Exists(r.action) /\ actions[r.action].org = r.org
  /\ \A p \in Proc :
       /\ pc[p] \in RequestSteps => TicketOrg[job[p].ticket] = job[p].org
       /\ pc[p] = "find_raced" => KeyTaken(job[p].key)

\* What the rows, the approvals and the old answers owe the invariant, when a
\* step adds no row.
LEMMA KeyInvKept ==
  ASSUME WellFormed, KeyInv, Kept, NEW p \in Proc, OnlyMoves(p),
         \A a \in ActionId : Exists(a)' => Exists(a),
         \A r \in approvals' \ approvals :
           r.action \in ActionId /\ Exists(r.action) /\ actions[r.action].org = r.org,
         \A r \in answers' \ answers :
           \/ r.action \in ActionId /\ HasKey(r.action, r.org, r.key)
           \/ r.action = NoAction /\ \E a \in ActionId :
                Exists(a) /\ actions[a].key = r.key /\ actions[a].org # r.org,
         pc'[p] \in RequestSteps => TicketOrg[job'[p].ticket] = job'[p].org,
         pc'[p] = "find_raced" => job'[p] = job[p] /\ KeyTaken(job[p].key)
  PROVE  KeyInv'
<1>1. \A a \in ActionId : (Exists(a)' <=> Exists(a)) /\ (Exists(a) => SameRow(a))
  BY DEF Kept
<1>2. \A r \in answers : r.action \in ActionId \cup {NoAction}
  BY DEF WellFormed, TablesOK
<1>3. \A r \in approvals : r.action \in ActionId
  BY DEF WellFormed, TablesOK
<1>4. UniqueKeys'
  BY <1>1 DEF KeyInv, UniqueKeys, SameRow, Exists
<1>5. \A a \in ActionId : \A o, k : HasKey(a, o, k) => HasKey(a, o, k)'
  BY <1>1 DEF HasKey, SameRow, Exists
<1>6. AnswersHold'
  BY <1>2, <1>5 DEF KeyInv, AnswersHold, HasKey, Exists
<1>7. ErrorOnlyForForeignKey'
  BY <1>1, <1>2, ActionIdAssumption DEF KeyInv, ErrorOnlyForForeignKey, SameRow, Exists
<1>8. \A a \in ActionId : Exists(a)' => actions'[a].org = TicketOrg[actions'[a].ticket]
  BY <1>1 DEF KeyInv, SameRow
<1>9. \A r \in approvals' : Exists(r.action)' /\ actions'[r.action].org = r.org
  BY <1>1, <1>3 DEF KeyInv, SameRow, Exists
<1>10. ASSUME NEW q \in Proc
       PROVE  /\ pc'[q] \in RequestSteps => TicketOrg[job'[q].ticket] = job'[q].org
              /\ pc'[q] = "find_raced" => KeyTaken(job[q].key)'
  <2>1. \A k : KeyTaken(k) => KeyTaken(k)'
    BY <1>1 DEF KeyTaken, SameRow, Exists
  <2>2. CASE q = p
    BY <2>1, <2>2 DEF KeyTaken
  <2>3. CASE q # p
    <3>1. pc'[q] = pc[q] /\ job'[q] = job[q]
      BY <2>3 DEF OnlyMoves
    <3>2. /\ pc[q] \in RequestSteps => TicketOrg[job[q].ticket] = job[q].org
          /\ pc[q] = "find_raced" => KeyTaken(job[q].key)
      BY DEF KeyInv
    <3>3. KeyTaken(job[q].key) => KeyTaken(job[q].key)'
      BY <3>1, <1>1 DEF KeyTaken, SameRow, Exists
    <3>4. QED
      BY <3>1, <3>2, <3>3
  <2>4. QED
    BY <2>2, <2>3
<1>11. QED
  BY <1>4, <1>6, <1>7, <1>8, <1>9, <1>10 DEF KeyInv, Exists

LEMMA KeyStep == WellFormed /\ KeyInv /\ [Next]_vars => KeyInv'
<1> SUFFICES ASSUME WellFormed, KeyInv, [Next]_vars PROVE KeyInv'
  OBVIOUS
<1>a. Kept
  BY StepKeeps
<1>1. ASSUME NEW p \in Proc, Arrive(p) PROVE KeyInv'
  <2>1. UNCHANGED <<actions, approvals, answers>> /\ OnlyMoves(p) /\ pc'[p] # "find_raced"
    BY <1>1 DEF Arrive, StartRequest, StartDecision, StartExecution, Go, OnlyMoves,
         WellFormed, TablesOK
  <2>2. ASSUME pc'[p] \in RequestSteps PROVE TicketOrg[job'[p].ticket] = job'[p].org
    <3>1. PICK o \in Org, t \in Ticket, tool \in Tool, k \in Key, a \in ActionId :
            StartRequest(p, o, t, tool, k, a)
      BY <1>1, <2>2 DEF Arrive, StartDecision, StartExecution, Go, RequestSteps,
           WellFormed, TablesOK
    <3>2. QED
      BY <3>1 DEF StartRequest, WellFormed, TablesOK
  <2>3. QED
    BY <2>1, <2>2, <1>a, KeyInvKept DEF Exists
<1>2. ASSUME NEW p \in Proc,
             \/ Finish(p)
             \/ \E step \in {"find_active", "insert"} :
                  pc[p] \in RequestSteps /\ Go(p, step) /\ UNCHANGED job
             \/ \E step \in DecisionSteps \cup ExecutionSteps : Go(p, step),
             \/ UNCHANGED job
             \/ \E j : job' = [job EXCEPT ![p] = j],
             \A a \in ActionId : Exists(a)' => Exists(a),
             UNCHANGED <<approvals, answers>>
      PROVE  KeyInv'
  <2>1. OnlyMoves(p)
    BY <1>2 DEF Finish, Go, OnlyMoves, WellFormed, TablesOK
  <2>2. /\ pc'[p] # "find_raced"
        /\ pc'[p] \in RequestSteps => pc[p] \in RequestSteps /\ job'[p] = job[p]
    BY <1>2 DEF Finish, Go, WellFormed, TablesOK, RequestSteps, DecisionSteps, ExecutionSteps
  <2>3. QED
    BY <2>1, <2>2, <1>2, <1>a, KeyInvKept DEF KeyInv
<1>3. ASSUME NEW p \in Proc, pc[p] \in RequestSteps, Replay(p) PROVE KeyInv'
  <2>1. OnlyMoves(p) /\ pc'[p] = "idle"
    BY <1>3 DEF Replay, Finish, OnlyMoves, WellFormed, TablesOK
  <2>2. \A r \in answers' \ answers : r.action \in ActionId /\ HasKey(r.action, r.org, r.key)
    BY <1>3 DEF Replay, Answer
  <2>3. UNCHANGED <<actions, approvals>>
    BY <1>3 DEF Replay
  <2>4. QED
    BY <2>1, <2>2, <2>3, <1>a, KeyInvKept DEF Exists, RequestSteps
<1>4. ASSUME NEW p \in Proc, Insert(p) PROVE KeyInv'
  <2>1. /\ job[p] \in RequestJob
        /\ ~ Exists(job[p].action)
        /\ TicketOrg[job[p].ticket] = job[p].org
    BY <1>4, IdleIsFree DEF Insert, RequestSteps, WellFormed, IdsReserved, KeyInv
  <2>2. PICK n \in ActionId : n = job[p].action
    BY <2>1 DEF RequestJob
  <2>3. /\ actions'[n] = NewRow(job[p])
        /\ \A a \in ActionId \ {n} : actions'[a] = actions[a]
    BY <2>2, <1>4 DEF Insert, WellFormed, TablesOK
  <2>4. /\ actions'[n].org = job[p].org
        /\ actions'[n].ticket = job[p].ticket
        /\ actions'[n].key = job[p].key
        /\ actions'[n].status # "absent"
    BY <2>3 DEF NewRow
  <2>5. \A a \in ActionId \ {n} : Exists(a)' <=> Exists(a)
    BY <2>3 DEF Exists
  <2>6. \A a \in ActionId : Exists(a) => actions[a].key # job[p].key /\ a # n
    BY <2>1, <2>2, <1>4 DEF Insert, KeyTaken
  <2>7. UniqueKeys'
    BY <2>3, <2>4, <2>5, <2>6 DEF KeyInv, UniqueKeys, Exists
  <2>8. answers' = answers \cup {[org |-> job[p].org, key |-> job[p].key, action |-> n]}
        /\ UNCHANGED approvals
    BY <2>2, <1>4 DEF Insert, Answer
  <2>9. AnswersHold'
    <3> SUFFICES ASSUME NEW r \in answers', r.action # NoAction
                 PROVE  HasKey(r.action, r.org, r.key)'
      BY DEF AnswersHold, HasKey, Exists
    <3>1. CASE r \in answers
      <4>1. r.action \in ActionId /\ HasKey(r.action, r.org, r.key)
        BY <3>1 DEF KeyInv, AnswersHold, WellFormed, TablesOK
      <4>2. QED
        BY <4>1, <2>3, <2>6 DEF HasKey, Exists
    <3>2. CASE r \notin answers
      BY <3>2, <2>4, <2>8 DEF HasKey, Exists
    <3>3. QED
      BY <3>1, <3>2
  <2>10. ErrorOnlyForForeignKey'
    BY <2>2, <2>3, <2>6, <2>8, ActionIdAssumption
       DEF KeyInv, ErrorOnlyForForeignKey, Exists
  <2>11. \A a \in ActionId : Exists(a)' => actions'[a].org = TicketOrg[actions'[a].ticket]
    BY <2>1, <2>3, <2>4, <2>5 DEF KeyInv
  <2>12. \A r \in approvals' : Exists(r.action)' /\ actions'[r.action].org = r.org
    BY <2>3, <2>6, <2>8 DEF KeyInv, Exists, WellFormed, TablesOK
  <2>13. \A q \in Proc \ {p} : pc'[q] = pc[q] /\ job'[q] = job[q]
    BY <1>4 DEF Insert, Finish, WellFormed, TablesOK
  <2>14. pc'[p] = "idle"
    BY <1>4 DEF Insert, Finish, WellFormed, TablesOK
  <2>15. \A k : KeyTaken(k) => KeyTaken(k)'
    BY <2>3, <2>6 DEF KeyTaken, Exists
  <2>16. \A q \in Proc :
           /\ pc'[q] \in RequestSteps => TicketOrg[job'[q].ticket] = job'[q].org
           /\ pc'[q] = "find_raced" => KeyTaken(job[q].key)'
    BY <2>13, <2>14, <2>15 DEF KeyInv, RequestSteps, KeyTaken
  <2>17. QED
    BY <2>7, <2>9, <2>10, <2>11, <2>12, <2>16 DEF KeyInv, Exists
<1>5. ASSUME NEW p \in Proc, InsertRefused(p) PROVE KeyInv'
  <2>1. /\ OnlyMoves(p)
        /\ UNCHANGED <<actions, approvals, answers, job>>
        /\ KeyTaken(job[p].key)
        /\ pc[p] \in RequestSteps
    BY <1>5 DEF InsertRefused, Go, OnlyMoves, WellFormed, TablesOK, RequestSteps
  <2>2. QED
    BY <2>1, <1>a, KeyInvKept DEF KeyInv, Exists
<1>6. ASSUME NEW p \in Proc, pc[p] = "find_raced", KeyUnseen(p), Answer(p, NoAction), Finish(p),
             UNCHANGED <<actions, approvals, effects, category>>
      PROVE  KeyInv'
  <2>1. OnlyMoves(p) /\ pc'[p] = "idle"
    BY <1>6 DEF Finish, OnlyMoves, WellFormed, TablesOK
  <2>2. \E a \in ActionId : Exists(a) /\ actions[a].key = job[p].key /\ actions[a].org # job[p].org
    BY <1>6 DEF KeyInv, KeyTaken, KeyUnseen, HasKey
  <2>3. QED
    BY <2>1, <2>2, <1>6, <1>a, KeyInvKept DEF Answer, Exists, RequestSteps
<1>7. ASSUME NEW p \in Proc, LogDecision(p) PROVE KeyInv'
  <2>1. job[p] \in DecisionJob /\ Exists(job[p].action)
        /\ actions[job[p].action].org = job[p].org
    BY <1>7, IdleIsFree DEF LogDecision, DecisionSteps, WellFormed, TargetsExist
  <2>2. OnlyMoves(p) /\ pc'[p] = "write_decision" /\ UNCHANGED <<actions, answers, job>>
    BY <1>7 DEF LogDecision, Go, OnlyMoves, WellFormed, TablesOK
  <2>3. \A r \in approvals' \ approvals :
          r.action \in ActionId /\ Exists(r.action) /\ actions[r.action].org = r.org
    BY <2>1, <1>7 DEF LogDecision, DecisionJob
  <2>4. QED
    BY <2>2, <2>3, <1>a, KeyInvKept DEF Exists, RequestSteps
<1>8. ASSUME NEW p \in Proc, WriteDecision(p) \/ WriteExecuted(p) \/ WriteFailed(p)
      PROVE  KeyInv'
  <2>1. job[p] \in DecisionJob \cup ExecutionJob /\ Exists(job[p].action)
    BY <1>8, IdleIsFree DEF WriteDecision, WriteExecuted, WriteFailed,
         DecisionSteps, ExecutionSteps, WellFormed, TargetsExist
  <2>2. \A a \in ActionId \ {job[p].action} : actions'[a] = actions[a]
    BY <1>8 DEF WriteDecision, WriteExecuted, WriteFailed, WellFormed, TablesOK
  <2>3. QED
    BY <2>1, <2>2, <1>8, <1>2 DEF WriteDecision, WriteExecuted, WriteFailed, Finish, Exists
<1>9. ASSUME NEW p \in Proc, Scan(p) \/ Recheck(p) PROVE KeyInv'
  BY <1>9, <1>2 DEF Scan, Recheck, FireEffect, Exists, ExecutionSteps, Finish
<1>10. ASSUME NEW p \in Proc, FindActive(p) \/ CheckActive(p) \/ Abort(p) PROVE KeyInv'
  BY <1>10, <1>2 DEF FindActive, CheckActive, Abort, Exists, RequestSteps, DecisionSteps, Finish
<1>11. ASSUME NEW p \in Proc, FindKey(p) \/ FindRaced(p) PROVE KeyInv'
  BY <1>11, <1>2, <1>3, <1>6 DEF FindKey, FindRaced, Exists, RequestSteps
<1>12. CASE Environment \/ UNCHANGED vars
  <2>1. UNCHANGED <<actions, approvals, answers, pc, job>>
    BY <1>12 DEF Environment, Triage, vars
  <2>2. QED
    BY <2>1 DEF KeyInv, UniqueKeys, AnswersHold, ErrorOnlyForForeignKey, HasKey, KeyTaken, Exists
<1>13. QED
  BY <1>1, <1>4, <1>5, <1>7, <1>8, <1>9, <1>10, <1>11, <1>12 DEF Next, Step, Continue

LEMMA InitKey == Init => KeyInv
BY DEF Init, KeyInv, UniqueKeys, AnswersHold, ErrorOnlyForForeignKey, NoAction, Exists,
       RequestSteps

LEMMA KeyAlways == Spec => [](WellFormed /\ KeyInv)
<1>1. Init => WellFormed /\ KeyInv
  BY InitWellFormed, InitKey
<1>2. (WellFormed /\ KeyInv) /\ [Next]_vars => (WellFormed /\ KeyInv)'
  BY WellFormedStep, KeyStep
<1>3. QED
  BY <1>1, <1>2, PTL DEF Spec

(* Every answer an org gets for one key names the same action, also when    *)
(* requests with that key race.                                             *)
THEOREM KeysAreIdempotent == Spec => []SameKeySameAction
<1>1. WellFormed /\ KeyInv => SameKeySameAction
  BY DEF WellFormed, TablesOK, KeyInv, UniqueKeys, AnswersHold, HasKey, SameKeySameAction
<1>2. QED
  BY <1>1, KeyAlways, PTL

(* A race for a key inside one org never surfaces as an error.              *)
THEOREM RacesBecomeReplays == Spec => []ErrorOnlyForForeignKey
<1>1. WellFormed /\ KeyInv => ErrorOnlyForForeignKey
  BY DEF KeyInv
<1>2. QED
  BY <1>1, KeyAlways, PTL

(* Rows, approvals and answers of one org never refer to another.           *)
THEOREM TenantsStayApart == Spec => []OrgIsolation
<1>1. WellFormed /\ KeyInv => OrgIsolation
  BY DEF KeyInv, AnswersHold, HasKey, OrgIsolation
<1>2. QED
  BY <1>1, KeyAlways, PTL
-----------------------------------------------------------------------------
(* What is left of the product rule and the life cycle under overlap       *)

Active(a) == actions[a].status \in {"approved", "executed"}

HaveMet(a, b) == <<a, b>> \in met /\ <<b, a>> \in met

\* The active actions of ticket t, save a itself, are ones a has met.
Free(t, a) ==
  \A b \in ActionId \ {a} : Active(b) /\ actions[b].ticket = t => HaveMet(a, b)

\* What a handler learned from its reads is still so when it writes, as far as
\* the actions go that it has not met.
Ready(p) ==
  LET a == job[p].action IN
  /\ pc[p] = "insert" => Free(job[p].ticket, a)
  /\ pc[p] \in {"log_decision", "write_decision"} /\ job[p].verdict = "approved" =>
       Free(actions[a].ticket, a)
  /\ pc[p] \in ExecutionSteps => Free(actions[a].ticket, a)
  /\ pc[p] \in DecisionSteps => actions[a].status = "approval_required" \/ <<a, a>> \in met
  /\ pc[p] \in ExecutionSteps => actions[a].status = "approved" \/ <<a, a>> \in met
  /\ pc[p] = "write_executed" => job[p].effect > 0

Recorded ==
  \A p, q \in Proc : Meet(p, q) => HaveMet(job[p].action, job[q].action)

\* The inductive invariant.
OverlapInv ==
  /\ Recorded
  /\ \A a \in ActionId : Active(a) => Free(actions[a].ticket, a)
  /\ \A p \in Proc : Ready(p)

\* The history holds every meeting of the state it belongs to.
LEMMA StepRecords ==
  ASSUME WellFormed', met' = met \cup Meetings'
  PROVE  met \subseteq met' /\ Recorded'
<1>1. ASSUME NEW p \in Proc, NEW q \in Proc, Meet(p, q)'
      PROVE  HaveMet(job[p].action, job[q].action)'
  <2>1. Meet(q, p)'
    BY <1>1 DEF Meet
  <2>2. pc'[p] # "idle" /\ pc'[q] # "idle"
    BY <1>1 DEF Meet, LetIn, Cleared, DecisionSteps, ExecutionSteps
  <2>3. job'[p].action \in ActionId /\ job'[q].action \in ActionId
    BY <2>2 DEF WellFormed, TablesOK, JobOK, RequestJob, DecisionJob, ExecutionJob
  <2>4. QED
    BY <1>1, <2>1, <2>3 DEF Meetings, HaveMet
<1>2. QED
  BY <1>1 DEF Recorded

\* The row a handler may write, and no other handler's.
LEMMA TargetRow ==
  ASSUME WellFormed, NEW p \in Proc, pc[p] \in DecisionSteps \cup ExecutionSteps
  PROVE  /\ job[p].action \in ActionId
         /\ Exists(job[p].action)
         /\ actions[job[p].action] \in Row
         /\ TicketOf(p) = actions[job[p].action].ticket
<1>1. /\ job[p].action \in ActionId
      /\ Exists(job[p].action)
      /\ job[p].kind # "request"
  BY IdleIsFree DEF WellFormed, TargetsExist, DecisionJob, ExecutionJob
<1>2. QED
  BY <1>1, RowExists DEF WellFormed, TicketOf

\* All that p changes is the row a, which is of the ticket it works on.
WritesOwn(p, a) ==
  /\ Cleared(p)
  /\ a = job[p].action
  /\ \A b \in ActionId \ {a} : actions'[b] = actions[b]
  /\ actions'[a].ticket = TicketOf(p)
  /\ Exists(a) => LetIn(p) /\ actions[a].ticket = TicketOf(p)

\* A handler that has not met p on its ticket does not notice.
LEMMA OthersStayReady ==
  ASSUME WellFormed, OverlapInv, met \subseteq met', NEW p \in Proc, OnlyMoves(p),
         NEW a \in ActionId, WritesOwn(p, a),
         NEW q \in Proc \ {p}
  PROVE  Ready(q)'
<1>1. pc'[q] = pc[q] /\ job'[q] = job[q]
  BY DEF OnlyMoves
<1>2. PICK c : c = job[q].action
  OBVIOUS
<1>3. Ready(q)
  BY DEF OverlapInv
<1>4. CASE pc[q] = "insert"
  <2>1. /\ c \in ActionId \ {a}
        /\ TicketOf(q) = job[q].ticket
    <3>1. job[q] \in RequestJob /\ pc[q] \in RequestSteps
      BY <1>4, IdleIsFree DEF WellFormed, RequestSteps
    <3>2. c \in ActionId /\ ~ Exists(c) /\ TicketOf(q) = job[q].ticket
      BY <1>2, <3>1 DEF WellFormed, IdsReserved, RequestJob, TicketOf
    <3>3. CASE pc[p] \in RequestSteps
      BY <1>2, <3>1, <3>2, <3>3 DEF WellFormed, IdsReserved, WritesOwn
    <3>4. CASE pc[p] \notin RequestSteps
      <4>1. LetIn(p)
        BY <3>4 DEF WritesOwn, Cleared, LetIn, RequestSteps, DecisionSteps
      <4>2. QED
        BY <3>2, <4>1, TargetRow DEF WritesOwn, LetIn
    <3>5. QED
      BY <3>2, <3>3, <3>4
  <2>2. ASSUME NEW b \in ActionId \ {c}, Active(b)', actions'[b].ticket = job[q].ticket
        PROVE  HaveMet(c, b)'
    <3>1. CASE b = a
      <4>1. Meet(q, p)
        BY <1>4, <2>1, <2>2, <3>1 DEF Meet, Cleared, WritesOwn
      <4>2. HaveMet(c, a)
        BY <1>2, <4>1 DEF OverlapInv, Recorded, WritesOwn
      <4>3. QED
        BY <3>1, <4>2 DEF HaveMet
    <3>2. CASE b # a
      <4>1. HaveMet(c, b)
        BY <1>2, <1>3, <1>4, <2>2, <3>2 DEF WritesOwn, Ready, Free, Active
      <4>2. QED
        BY <4>1 DEF HaveMet
    <3>3. QED
      BY <3>1, <3>2
  <2>3. (Free(job[q].ticket, c))'
    BY <1>1, <2>2 DEF Free
  <2>4. QED
    BY <1>1, <1>2, <1>4, <2>3 DEF Ready, DecisionSteps, ExecutionSteps
<1>5. CASE LetIn(q)
  <2>1. /\ c \in ActionId
        /\ Exists(c)
        /\ TicketOf(q) = actions[c].ticket
    BY <1>2, <1>5, TargetRow DEF LetIn
  <2>2. actions'[c].ticket = actions[c].ticket
    BY <2>1 DEF WritesOwn
  <2>3. actions'[c] # actions[c] => <<c, c>> \in met'
    <3> SUFFICES ASSUME actions'[c] # actions[c] PROVE <<c, c>> \in met
      OBVIOUS
    <3>1. c = a /\ LetIn(p)
      BY <2>1 DEF WritesOwn
    <3>2. Meet(p, q)
      BY <1>2, <1>5, <3>1 DEF Meet, WritesOwn
    <3>3. QED
      BY <1>2, <3>1, <3>2 DEF OverlapInv, Recorded, HaveMet, WritesOwn
  <2>4. ASSUME Cleared(q), Free(actions[c].ticket, c) PROVE (Free(actions[c].ticket, c))'
    <3> SUFFICES ASSUME NEW b \in ActionId \ {c}, Active(b)', actions'[b].ticket = actions[c].ticket
                 PROVE  HaveMet(c, b)'
      BY <2>2 DEF Free
    <3>1. CASE b = a
      <4>1. Meet(q, p)
        BY <2>1, <2>4, <3>1 DEF Meet, WritesOwn
      <4>2. HaveMet(c, a)
        BY <1>2, <4>1 DEF OverlapInv, Recorded, WritesOwn
      <4>3. QED
        BY <3>1, <4>2 DEF HaveMet
    <3>2. CASE b # a
      <4>1. HaveMet(c, b)
        BY <2>4, <3>2 DEF WritesOwn, Free, Active
      <4>2. QED
        BY <4>1 DEF HaveMet
    <3>3. QED
      BY <3>1, <3>2
  <2>5. pc[q] # "insert"
    BY <1>5 DEF LetIn, DecisionSteps, ExecutionSteps
  <2>6. /\ pc[q] \in DecisionSteps => actions'[c].status = "approval_required" \/ <<c, c>> \in met'
        /\ pc[q] \in ExecutionSteps => actions'[c].status = "approved" \/ <<c, c>> \in met'
    BY <1>2, <1>3, <2>3 DEF Ready
  <2>7. pc[q] \in {"log_decision", "write_decision"} /\ job[q].verdict = "approved"
          => (Free(actions[c].ticket, c))'
    BY <1>2, <1>3, <2>4 DEF Ready, Cleared
  <2>8. pc[q] \in ExecutionSteps => (Free(actions[c].ticket, c))'
    BY <1>2, <1>3, <2>4 DEF Ready, Cleared
  <2>9. pc[q] = "write_executed" => job[q].effect > 0
    BY <1>3 DEF Ready
  <2>10. Ready(q)'
    BY <1>1, <1>2, <2>5, <2>6, <2>7, <2>8, <2>9 DEF Ready
  <2>11. QED
    BY <2>10
<1>6. CASE pc[q] # "insert" /\ ~ LetIn(q)
  BY <1>1, <1>6 DEF Ready, LetIn, DecisionSteps, ExecutionSteps
<1>7. QED
  BY <1>4, <1>5, <1>6

\* A handler that writes its row and ends.
LEMMA OverlapWrite ==
  ASSUME WellFormed, OverlapInv, met \subseteq met', Recorded', NEW p \in Proc, OnlyMoves(p),
         pc'[p] = "idle", NEW a \in ActionId, WritesOwn(p, a),
         Active(a)' => (Free(actions[a].ticket, a))'
  PROVE  OverlapInv'
<1>1. \A q \in Proc : Ready(q)'
  <2>1. \A q \in Proc \ {p} : Ready(q)'
    BY OthersStayReady
  <2>2. Ready(p)'
    BY DEF Ready, DecisionSteps, ExecutionSteps
  <2>3. QED
    BY <2>1, <2>2
<1>2. ASSUME NEW c \in ActionId \ {a}, Active(c)' PROVE (Free(actions[c].ticket, c))'
  <2>1. Free(actions[c].ticket, c) /\ actions'[c] = actions[c]
    BY <1>2 DEF OverlapInv, Active, WritesOwn
  <2> SUFFICES ASSUME NEW b \in ActionId \ {c}, Active(b)', actions'[b].ticket = actions[c].ticket
               PROVE  HaveMet(c, b)'
    BY <2>1 DEF Free
  <2>2. CASE b = a
    <3>1. HaveMet(a, c)'
      BY <1>2, <2>1, <2>2 DEF Free
    <3>2. QED
      BY <2>2, <3>1 DEF HaveMet
  <2>3. CASE b # a
    BY <2>1, <2>3 DEF WritesOwn, Free, Active, HaveMet
  <2>4. QED
    BY <2>2, <2>3
<1>3. QED
  BY <1>1, <1>2 DEF OverlapInv

\* A handler that writes no row and ends, or goes on knowing what it needs.
LEMMA OverlapRead ==
  ASSUME WellFormed, OverlapInv, met \subseteq met', Recorded', NEW p \in Proc, OnlyMoves(p),
         UNCHANGED actions, Ready(p)'
  PROVE  OverlapInv'
<1>1. \A t, a : Free(t, a) => Free(t, a)'
  BY DEF Free, Active, HaveMet
<1>2. ASSUME NEW q \in Proc \ {p} PROVE Ready(q)'
  <2>1. pc'[q] = pc[q] /\ job'[q] = job[q]
    BY DEF OnlyMoves
  <2>2. Ready(q)
    BY DEF OverlapInv
  <2>3. QED
    BY <1>1, <2>1, <2>2 DEF Ready
<1>3. QED
  BY <1>1, <1>2 DEF OverlapInv, Active

LEMMA OverlapStep ==
  ASSUME WellFormed, WellFormed', KeyInv, OverlapInv, Next
  PROVE  OverlapInv'
<1>0. met \subseteq met' /\ Recorded'
  BY StepRecords DEF Next
<1>1. ASSUME NEW p \in Proc, Arrive(p) PROVE OverlapInv'
  <2>1. UNCHANGED actions /\ OnlyMoves(p)
    BY <1>1 DEF Arrive, StartRequest, StartDecision, StartExecution, Go, OnlyMoves,
         WellFormed, TablesOK
  <2>2. ASSUME NEW o \in Org, NEW a \in ActionId, NEW t \in Ticket, NEW tool \in Tool,
               NEW k \in Key, StartRequest(p, o, t, tool, k, a)
        PROVE  Ready(p)'
    BY <2>2 DEF StartRequest, Go, WellFormed, TablesOK, Ready, DecisionSteps, ExecutionSteps
  <2>3. ASSUME NEW o \in Org, NEW a \in ActionId, NEW verdict \in Verdict,
               StartDecision(p, o, a, verdict)
        PROVE  Ready(p)'
    <3>1. /\ pc'[p] \in {"check_active", "log_decision"}
          /\ pc'[p] = "log_decision" => job'[p].verdict # "approved"
          /\ actions'[job'[p].action].status = "approval_required"
      BY <2>1, <2>3 DEF StartDecision, Go, WellFormed, TablesOK
    <3>2. QED
      BY <3>1 DEF Ready, DecisionSteps, ExecutionSteps
  <2>4. ASSUME NEW o \in Org, NEW a \in ActionId, StartExecution(p, o, a)
        PROVE  Ready(p)'
    <3>1. /\ pc'[p] = "scan" /\ job'[p].action = a
          /\ actions[a].status = "approved"
      BY <2>4 DEF StartExecution, Go, WellFormed, TablesOK
    <3>2. Free(actions[a].ticket, a)
      BY <3>1 DEF OverlapInv, Active
    <3>3. (Free(actions[a].ticket, a))'
      BY <1>0, <2>1, <3>2 DEF Free, Active, HaveMet
    <3>4. QED
      BY <2>1, <3>1, <3>3 DEF Ready, DecisionSteps, ExecutionSteps
  <2>5. Ready(p)'
    BY <1>1, <2>2, <2>3, <2>4 DEF Arrive
  <2>6. QED
    BY <1>0, <2>1, <2>5, OverlapRead
<1>2. ASSUME NEW p \in Proc, Finish(p), UNCHANGED actions PROVE OverlapInv'
  <2>1. OnlyMoves(p) /\ Ready(p)'
    BY <1>2 DEF Finish, OnlyMoves, Ready, WellFormed, TablesOK, DecisionSteps, ExecutionSteps
  <2>2. QED
    BY <1>0, <2>1, <1>2, OverlapRead
<1>3. ASSUME NEW p \in Proc, NEW step \in {"find_active", "find_raced"}, Go(p, step),
             UNCHANGED <<actions, job>>
      PROVE  OverlapInv'
  <2>1. OnlyMoves(p) /\ Ready(p)'
    BY <1>3 DEF Go, OnlyMoves, Ready, WellFormed, TablesOK, DecisionSteps, ExecutionSteps
  <2>2. QED
    BY <1>0, <2>1, <1>3, OverlapRead
<1>4. ASSUME NEW p \in Proc, FindActive(p) PROVE OverlapInv'
  <2>1. CASE Go(p, "insert") /\ UNCHANGED <<actions, job>>
               /\ \A a \in ActionId : ~ IsActive(a, job[p].org, job[p].ticket)
    <3>1. TicketOrg[job[p].ticket] = job[p].org
      BY <1>4 DEF FindActive, KeyInv, RequestSteps
    <3>2. \A b \in ActionId : Active(b) => actions[b].ticket # job[p].ticket
      BY <2>1, <3>1 DEF IsActive, Active, KeyInv, Exists
    <3>3. (Free(job[p].ticket, job[p].action))'
      BY <2>1, <3>2 DEF Free, Active
    <3>4. OnlyMoves(p) /\ pc'[p] = "insert"
      BY <2>1 DEF Go, OnlyMoves, WellFormed, TablesOK
    <3>5. Ready(p)'
      BY <3>3, <3>4 DEF Ready, DecisionSteps, ExecutionSteps
    <3>6. QED
      BY <1>0, <2>1, <3>4, <3>5, OverlapRead
  <2>2. QED
    BY <1>4, <1>2, <2>1 DEF FindActive
<1>5. ASSUME NEW p \in Proc, Insert(p) PROVE OverlapInv'
  <2>1. /\ job[p] \in RequestJob
        /\ ~ Exists(job[p].action)
        /\ Free(job[p].ticket, job[p].action)
    BY <1>5, IdleIsFree DEF Insert, RequestSteps, WellFormed, IdsReserved, OverlapInv, Ready
  <2>2. PICK n \in ActionId : n = job[p].action
    BY <2>1 DEF RequestJob
  <2>3. /\ actions'[n] = NewRow(job[p])
        /\ \A a \in ActionId \ {n} : actions'[a] = actions[a]
    BY <2>2, <1>5 DEF Insert, WellFormed, TablesOK
  <2>4. TicketOf(p) = job[p].ticket
    BY <2>1 DEF TicketOf, RequestJob
  <2>5. actions'[n].ticket = job[p].ticket
    BY <2>3 DEF NewRow
  <2>6. WritesOwn(p, n)
    BY <2>1, <2>2, <2>3, <2>4, <2>5, <1>5 DEF WritesOwn, Insert, Cleared
  <2>7. (Free(actions[n].ticket, n))'
    BY <1>0, <2>1, <2>2, <2>3, <2>5 DEF Free, Active, HaveMet
  <2>8. OnlyMoves(p) /\ pc'[p] = "idle"
    BY <1>5 DEF Insert, Finish, OnlyMoves, WellFormed, TablesOK
  <2>9. QED
    BY <1>0, <2>6, <2>7, <2>8, OverlapWrite
<1>6. ASSUME NEW p \in Proc, CheckActive(p) PROVE OverlapInv'
  <2>1. CASE Go(p, "log_decision") /\ UNCHANGED <<actions, job>>
               /\ \A b \in ActionId \ {job[p].action} :
                    ~ IsActive(b, job[p].org, actions[job[p].action].ticket)
    <3>1. /\ job[p].action \in ActionId
          /\ actions[job[p].action].org = job[p].org
          /\ Exists(job[p].action)
      BY <1>6, TargetRow DEF CheckActive, WellFormed, TargetsExist, DecisionSteps
    <3>2. Free(actions[job[p].action].ticket, job[p].action)
      BY <2>1, <3>1 DEF IsActive, Active, Free, KeyInv, Exists
    <3>3. (Free(actions[job[p].action].ticket, job[p].action))'
      BY <1>0, <2>1, <3>2 DEF Free, Active, HaveMet
    <3>4. Ready(p)
      BY DEF OverlapInv
    <3>5. OnlyMoves(p) /\ pc'[p] = "log_decision"
      BY <2>1 DEF Go, OnlyMoves, WellFormed, TablesOK
    <3>6. Ready(p)'
      BY <1>0, <1>6, <2>1, <3>3, <3>4, <3>5 DEF Ready, CheckActive, DecisionSteps, ExecutionSteps
    <3>7. QED
      BY <1>0, <2>1, <3>5, <3>6, OverlapRead
  <2>2. QED
    BY <1>6, <1>2, <2>1 DEF CheckActive
<1>7. ASSUME NEW p \in Proc, LogDecision(p) PROVE OverlapInv'
  <2>1. Ready(p)
    BY DEF OverlapInv
  <2>2. /\ OnlyMoves(p) /\ pc'[p] = "write_decision"
        /\ UNCHANGED <<actions, job>>
    BY <1>7 DEF LogDecision, Go, OnlyMoves, WellFormed, TablesOK
  <2>3. \A t, a : Free(t, a) => Free(t, a)'
    BY <1>0, <2>2 DEF Free, Active, HaveMet
  <2>4. Ready(p)'
    BY <1>0, <1>7, <2>1, <2>2, <2>3 DEF Ready, LogDecision, DecisionSteps, ExecutionSteps
  <2>5. QED
    BY <1>0, <2>2, <2>4, OverlapRead
\* The three writes of a status.
<1>8. ASSUME NEW p \in Proc, NEW a \in ActionId, a = job[p].action, LetIn(p), Cleared(p),
             Finish(p), NEW status, NEW result,
             actions' = [actions EXCEPT ![a].status = status, ![a].result = result],
             status \in {"approved", "executed"} => Free(actions[a].ticket, a)
      PROVE  OverlapInv'
  <2>1. actions[a] \in Row /\ TicketOf(p) = actions[a].ticket
    BY <1>8, TargetRow DEF LetIn
  <2>2. /\ actions'[a].status = status
        /\ actions'[a].ticket = actions[a].ticket
        /\ \A b \in ActionId \ {a} : actions'[b] = actions[b]
    BY <1>8, <2>1 DEF WellFormed, TablesOK, Row
  <2>3. WritesOwn(p, a)
    BY <1>8, <2>1, <2>2 DEF WritesOwn
  <2>4. Active(a)' => (Free(actions[a].ticket, a))'
    BY <1>0, <1>8, <2>2 DEF Free, Active, HaveMet
  <2>5. OnlyMoves(p) /\ pc'[p] = "idle"
    BY <1>8 DEF Finish, OnlyMoves, WellFormed, TablesOK
  <2>6. QED
    BY <1>0, <2>3, <2>4, <2>5, OverlapWrite
<1>9. ASSUME NEW p \in Proc, WriteDecision(p) PROVE OverlapInv'
  <2> DEFINE a == job[p].action
  <2>1. a \in ActionId /\ actions[a] \in Row
    BY <1>9, TargetRow DEF WriteDecision, DecisionSteps
  <2>2. job[p].verdict = "approved" => Free(actions[a].ticket, a)
    BY <1>9 DEF WriteDecision, OverlapInv, Ready
  <2>3. job[p].verdict # "executed"
    BY <1>9, IdleIsFree DEF WriteDecision, DecisionSteps, WellFormed, DecisionJob, Verdict
  <2>4. actions' = [actions EXCEPT ![a].status = job[p].verdict, ![a].result = actions[a].result]
    BY <1>9, <2>1 DEF WriteDecision, WellFormed, TablesOK, Row
  <2>5. LetIn(p) /\ Cleared(p) /\ Finish(p)
    BY <1>9 DEF WriteDecision, LetIn, Cleared, DecisionSteps
  <2>6. job[p].verdict \in {"approved", "executed"} => Free(actions[a].ticket, a)
    BY <2>2, <2>3
  <2> HIDE DEF a
  <2>7. a = job[p].action
    BY DEF a
  <2>8. PICK status, result : status = job[p].verdict /\ result = actions[a].result
    OBVIOUS
  <2>9. QED
    BY <1>8, <2>1, <2>4, <2>5, <2>6, <2>7, <2>8
<1>10. ASSUME NEW p \in Proc, WriteExecuted(p) \/ WriteFailed(p) PROVE OverlapInv'
  <2>1. LetIn(p) /\ Cleared(p) /\ Finish(p) /\ pc[p] \in ExecutionSteps
    BY <1>10 DEF WriteExecuted, WriteFailed, LetIn, Cleared, ExecutionSteps
  <2>2. job[p].action \in ActionId /\ Free(actions[job[p].action].ticket, job[p].action)
    BY <2>1, TargetRow DEF OverlapInv, Ready
  <2>3. QED
    BY <1>8, <1>10, <2>1, <2>2 DEF WriteExecuted, WriteFailed
<1>11. ASSUME NEW p \in Proc, pc[p] \in ExecutionSteps, UNCHANGED actions,
              FireEffect(p) \/ (Go(p, "recheck") /\ UNCHANGED job)
                            \/ (Go(p, "write_failed") /\ UNCHANGED job)
       PROVE  OverlapInv'
  <2>1. /\ Ready(p)
        /\ job[p].action \in ActionId
    BY <1>11, TargetRow DEF OverlapInv
  <2>2. pc'[p] \in ExecutionSteps /\ job'[p].action = job[p].action /\ OnlyMoves(p)
    BY <1>11 DEF FireEffect, Go, OnlyMoves, WellFormed, TablesOK, ExecutionSteps
  <2>3. pc'[p] = "write_executed" => job'[p].effect > 0
    BY <1>11, <2>1 DEF FireEffect, Go, WellFormed, TablesOK
  <2>4. \A t, a : Free(t, a) => Free(t, a)'
    BY <1>0, <1>11 DEF Free, Active, HaveMet
  <2>5. Ready(p)'
    BY <1>0, <2>1, <2>2, <2>3, <2>4, <1>11 DEF Ready, DecisionSteps, ExecutionSteps
  <2>6. QED
    BY <1>0, <2>2, <2>5, <1>11, OverlapRead
<1>12. ASSUME NEW p \in Proc, Scan(p) \/ Recheck(p) PROVE OverlapInv'
  BY <1>12, <1>2, <1>11 DEF Scan, Recheck, ExecutionSteps
<1>13. ASSUME NEW p \in Proc, FindKey(p) \/ InsertRefused(p) \/ FindRaced(p) \/ Abort(p)
       PROVE  OverlapInv'
  BY <1>13, <1>2, <1>3 DEF FindKey, InsertRefused, FindRaced, Replay, Abort
<1>14. CASE Environment
  <2>1. UNCHANGED <<actions, pc, job>>
    BY <1>14 DEF Environment, Triage
  <2>2. \A t, a : Free(t, a) => Free(t, a)'
    BY <1>0, <2>1 DEF Free, Active, HaveMet
  <2>3. \A p \in Proc : Ready(p) => Ready(p)'
    BY <1>0, <2>1, <2>2 DEF Ready
  <2>4. QED
    BY <1>0, <2>1, <2>2, <2>3 DEF OverlapInv, Active
<1>15. QED
  BY <1>1, <1>4, <1>5, <1>6, <1>7, <1>9, <1>10, <1>12, <1>13, <1>14 DEF Next, Step, Continue

LEMMA OverlapAlways == Spec => [](WellFormed /\ KeyInv /\ OverlapInv)
<1>1. Init => OverlapInv
  BY DEF Init, OverlapInv, Recorded, Meet, LetIn, Cleared, Active, Ready, NoAction,
     DecisionSteps, ExecutionSteps
<1>2. WellFormed /\ KeyInv /\ OverlapInv /\ [Next]_vars => OverlapInv'
  <2>1. CASE Next
    BY <2>1, WellFormedStep, OverlapStep
  <2>2. CASE UNCHANGED vars
    BY <2>2 DEF vars, OverlapInv, Recorded, Meet, TicketOf, LetIn, Cleared, HaveMet, Active,
       Free, Ready
  <2>3. QED
    BY <2>1, <2>2
<1>3. QED
  BY <1>1, <1>2, KeyAlways, PTL DEF Spec

(* Two active actions of a ticket were requested, approved or executed by   *)
(* handlers that were past their checks at the same time: the checks of     *)
(* requestToolAction and decideToolAction are enough for everything else.   *)
THEOREM OnlyOverlapMakesTwoActive == Spec => []OneActivePerTicket
<1>1. ASSUME OverlapInv PROVE OneActivePerTicket
  <2> SUFFICES ASSUME NEW a \in ActionId, NEW b \in ActionId,
                      LifeOf(a).status \in {"approved", "executed"},
                      LifeOf(b).status \in {"approved", "executed"},
                      LifeOf(a).ticket = LifeOf(b).ticket
               PROVE  a = b \/ <<a, b>> \in met
    BY DEF OneActivePerTicket, Lifecycle!OneActive, Lifecycle!Active
  <2>1. /\ Exists(a) /\ Active(a)
        /\ Exists(b) /\ Active(b)
    BY DEF LifeOf, NoAction, Active, Exists
  <2>2. QED
    BY <1>1, <2>1 DEF LifeOf, OverlapInv, Free, HaveMet
<1>2. QED
  BY <1>1, OverlapAlways, PTL

\* p will make its action, one of ticket t, an active one, if nothing fails.
Activates(p, t) ==
  \/ pc[p] = "insert" /\ job[p].ticket = t
  \/ /\ pc[p] \in {"log_decision", "write_decision"} /\ job[p].verdict = "approved"
     /\ actions[job[p].action].ticket = t
  \/ pc[p] \in ExecutionSteps /\ actions[job[p].action].ticket = t

Targets == {job[p].action : p \in Proc}

\* What is active on t, and what soon may be.
Claimed(t) ==
  {a \in ActionId : \/ Active(a) /\ actions[a].ticket = t
                    \/ \E p \in Proc : Activates(p, t) /\ job[p].action = a}

\* A new claim is only made while nothing of the ticket is active, and then
\* every claim is one of a request in flight.
LEMMA ClaimedStep ==
  ASSUME WellFormed, KeyInv, Next, NEW t \in Ticket
  PROVE  Claimed(t)' \subseteq Claimed(t) \/ Claimed(t)' \subseteq Targets'
<1>1. ASSUME UNCHANGED actions, NEW p \in Proc, OnlyMoves(p),
             \/ ~ Activates(p, t)'
             \/ Activates(p, t) /\ job'[p].action = job[p].action
             \/ Active(job'[p].action) /\ actions[job'[p].action].ticket = t
      PROVE  Claimed(t)' \subseteq Claimed(t)
  <2>1. \A q \in Proc \ {p} : Activates(q, t)' => Activates(q, t) /\ job'[q].action = job[q].action
    BY <1>1 DEF OnlyMoves, Activates
  <2>2. \A a \in ActionId : Active(a)' = Active(a)
    BY <1>1 DEF Active
  <2>3. QED
    BY <1>1, <2>1, <2>2 DEF Claimed
<1>2. ASSUME NEW p \in Proc, Arrive(p) PROVE Claimed(t)' \subseteq Claimed(t)
  <2>1. UNCHANGED actions /\ OnlyMoves(p)
    BY <1>2 DEF Arrive, StartRequest, StartDecision, StartExecution, Go, OnlyMoves,
         WellFormed, TablesOK
  <2>2. ASSUME NEW o \in Org, NEW a \in ActionId, NEW u \in Ticket, NEW tool \in Tool,
               NEW k \in Key, StartRequest(p, o, u, tool, k, a)
        PROVE  ~ Activates(p, t)'
    BY <2>2 DEF StartRequest, Go, WellFormed, TablesOK, Activates, ExecutionSteps
  <2>3. ASSUME NEW o \in Org, NEW a \in ActionId, NEW verdict \in Verdict,
               StartDecision(p, o, a, verdict)
        PROVE  ~ Activates(p, t)'
    <3>1. /\ pc'[p] \in {"check_active", "log_decision"}
          /\ pc'[p] = "log_decision" => job'[p].verdict # "approved"
      BY <2>3 DEF StartDecision, Go, WellFormed, TablesOK
    <3>2. QED
      BY <3>1 DEF Activates, ExecutionSteps
  <2>4. ASSUME NEW o \in Org, NEW a \in ActionId, StartExecution(p, o, a)
        PROVE  ~ Activates(p, t)' \/ (Active(job'[p].action) /\ actions[job'[p].action].ticket = t)
    <3>1. pc'[p] = "scan" /\ job'[p].action = a /\ Active(a)
      BY <2>4 DEF StartExecution, Go, WellFormed, TablesOK, Active
    <3>2. QED
      BY <2>1, <3>1 DEF Activates, ExecutionSteps
  <2>5. QED
    BY <1>1, <1>2, <2>1, <2>2, <2>3, <2>4 DEF Arrive
<1>3. ASSUME NEW p \in Proc, Finish(p), UNCHANGED actions PROVE Claimed(t)' \subseteq Claimed(t)
  <2>1. OnlyMoves(p) /\ ~ Activates(p, t)'
    BY <1>3 DEF Finish, OnlyMoves, WellFormed, TablesOK, Activates, ExecutionSteps
  <2>2. QED
    BY <1>1, <1>3, <2>1
<1>4. ASSUME NEW p \in Proc, NEW step \in {"find_active", "find_raced"}, Go(p, step),
             UNCHANGED <<actions, job>>
      PROVE  Claimed(t)' \subseteq Claimed(t)
  <2>1. OnlyMoves(p) /\ ~ Activates(p, t)'
    BY <1>4 DEF Go, OnlyMoves, WellFormed, TablesOK, Activates, ExecutionSteps
  <2>2. QED
    BY <1>1, <1>4, <2>1
\* The two checks.
<1>5. ASSUME NEW p \in Proc, UNCHANGED <<actions, job>>, OnlyMoves(p),
             \A b \in ActionId : Active(b) /\ actions[b].ticket = t => b = job[p].action
      PROVE  Claimed(t)' \subseteq Targets'
  <2>1. \A a \in ActionId : Active(a)' = Active(a)
    BY <1>5 DEF Active
  <2>2. QED
    BY <1>5, <2>1 DEF Claimed, Targets
<1>6. ASSUME NEW p \in Proc, FindActive(p)
      PROVE  Claimed(t)' \subseteq Claimed(t) \/ Claimed(t)' \subseteq Targets'
  <2>1. CASE Go(p, "insert") /\ UNCHANGED <<actions, job>>
               /\ \A a \in ActionId : ~ IsActive(a, job[p].org, job[p].ticket)
    <3>1. OnlyMoves(p) /\ pc'[p] = "insert"
      BY <2>1 DEF Go, OnlyMoves, WellFormed, TablesOK
    <3>2. CASE job[p].ticket = t
      <4>1. TicketOrg[t] = job[p].org
        BY <1>6, <3>2 DEF FindActive, KeyInv, RequestSteps
      <4>2. \A b \in ActionId : Active(b) => actions[b].ticket # t
        BY <2>1, <3>2, <4>1 DEF IsActive, Active, KeyInv, Exists
      <4>3. QED
        BY <1>5, <2>1, <3>1, <4>2
    <3>3. CASE job[p].ticket # t
      <4>1. ~ Activates(p, t)'
        BY <2>1, <3>1, <3>3 DEF Activates, ExecutionSteps
      <4>2. QED
        BY <1>1, <2>1, <3>1, <4>1
    <3>4. QED
      BY <3>2, <3>3
  <2>2. QED
    BY <1>6, <1>3, <2>1 DEF FindActive
<1>7. ASSUME NEW p \in Proc, CheckActive(p)
      PROVE  Claimed(t)' \subseteq Claimed(t) \/ Claimed(t)' \subseteq Targets'
  <2>1. CASE Go(p, "log_decision") /\ UNCHANGED <<actions, job>>
               /\ \A b \in ActionId \ {job[p].action} :
                    ~ IsActive(b, job[p].org, actions[job[p].action].ticket)
    <3>1. OnlyMoves(p) /\ pc'[p] = "log_decision"
      BY <2>1 DEF Go, OnlyMoves, WellFormed, TablesOK
    <3>2. /\ job[p].action \in ActionId
          /\ actions[job[p].action].org = job[p].org
          /\ Exists(job[p].action)
      BY <1>7, TargetRow DEF CheckActive, WellFormed, TargetsExist, DecisionSteps
    <3>3. CASE actions[job[p].action].ticket = t
      <4>1. \A b \in ActionId : Active(b) /\ actions[b].ticket = t => b = job[p].action
        BY <2>1, <3>2, <3>3 DEF IsActive, Active, KeyInv, Exists
      <4>2. QED
        BY <1>5, <2>1, <3>1, <4>1
    <3>4. CASE actions[job[p].action].ticket # t
      <4>1. ~ Activates(p, t)'
        BY <2>1, <3>1, <3>4 DEF Activates, ExecutionSteps
      <4>2. QED
        BY <1>1, <2>1, <3>1, <4>1
    <3>5. QED
      BY <3>3, <3>4
  <2>2. QED
    BY <1>7, <1>3, <2>1 DEF CheckActive
\* The writes.
<1>8. ASSUME NEW p \in Proc, NEW a \in ActionId, a = job[p].action, OnlyMoves(p), pc'[p] = "idle",
             \A b \in ActionId \ {a} : actions'[b] = actions[b],
             Exists(a) => actions'[a].ticket = actions[a].ticket,
             \A q \in Proc \ {p} : pc[q] = "insert" \/ ~ LetIn(q) \/ Exists(job[q].action),
             \A q \in Proc \ {p} : LetIn(q) => job[q].action \in ActionId,
             Active(a)' /\ actions'[a].ticket = t => Activates(p, t)
      PROVE  Claimed(t)' \subseteq Claimed(t)
  <2>1. ~ Activates(p, t)'
    BY <1>8 DEF Activates, ExecutionSteps
  <2>2. ASSUME NEW q \in Proc \ {p}, Activates(q, t)'
        PROVE  Activates(q, t) /\ job'[q].action = job[q].action
    <3>1. pc'[q] = pc[q] /\ job'[q] = job[q]
      BY <1>8 DEF OnlyMoves
    <3>2. CASE pc[q] = "insert"
      BY <2>2, <3>1, <3>2 DEF Activates, ExecutionSteps
    <3>3. CASE LetIn(q)
      <4>1. actions'[job[q].action].ticket = actions[job[q].action].ticket
        BY <1>8, <3>3 DEF LetIn, DecisionSteps, ExecutionSteps
      <4>2. QED
        BY <2>2, <3>1, <3>3, <4>1 DEF Activates, LetIn, DecisionSteps, ExecutionSteps
    <3>4. CASE pc[q] # "insert" /\ ~ LetIn(q)
      BY <2>2, <3>1, <3>4 DEF Activates, LetIn, DecisionSteps, ExecutionSteps
    <3>5. QED
      BY <3>2, <3>3, <3>4
  <2>3. ASSUME NEW b \in ActionId, Active(b)', actions'[b].ticket = t PROVE b \in Claimed(t)
    <3>1. CASE b = a
      BY <1>8, <2>3, <3>1 DEF Claimed
    <3>2. CASE b # a
      BY <1>8, <2>3, <3>2 DEF Claimed, Active
    <3>3. QED
      BY <3>1, <3>2
  <2>4. QED
    BY <2>1, <2>2, <2>3 DEF Claimed
<1>9. /\ \A q \in Proc : LetIn(q) => job[q].action \in ActionId /\ Exists(job[q].action)
  BY TargetRow DEF LetIn
<1>10. ASSUME NEW p \in Proc, Insert(p) PROVE Claimed(t)' \subseteq Claimed(t)
  <2>1. PICK n \in ActionId : n = job[p].action /\ ~ Exists(n)
    BY <1>10, IdleIsFree DEF Insert, RequestSteps, WellFormed, IdsReserved, RequestJob
  <2>2. /\ actions'[n] = NewRow(job[p])
        /\ \A a \in ActionId \ {n} : actions'[a] = actions[a]
        /\ OnlyMoves(p) /\ pc'[p] = "idle"
    BY <2>1, <1>10 DEF Insert, Finish, OnlyMoves, WellFormed, TablesOK
  <2>3. actions'[n].ticket = t => Activates(p, t)
    BY <1>10, <2>2 DEF NewRow, Activates, Insert
  <2>4. QED
    BY <1>8, <1>9, <2>1, <2>2, <2>3
<1>11. ASSUME NEW p \in Proc, WriteDecision(p) \/ WriteExecuted(p) \/ WriteFailed(p)
       PROVE  Claimed(t)' \subseteq Claimed(t)
  <2>1. PICK a : a = job[p].action
    OBVIOUS
  <2>2. LetIn(p) /\ pc[p] \in {"write_decision", "write_executed", "write_failed"}
    BY <1>11 DEF WriteDecision, WriteExecuted, WriteFailed, LetIn, DecisionSteps, ExecutionSteps
  <2>3. a \in ActionId /\ actions[a] \in Row
    BY <2>1, <2>2, TargetRow DEF LetIn
  <2>4. /\ actions'[a].ticket = actions[a].ticket
        /\ \A b \in ActionId \ {a} : actions'[b] = actions[b]
        /\ OnlyMoves(p) /\ pc'[p] = "idle"
    BY <1>11, <2>1, <2>3 DEF WriteDecision, WriteExecuted, WriteFailed, Finish, OnlyMoves,
         WellFormed, TablesOK, Row
  <2>5. Active(a)' /\ actions[a].ticket = t => Activates(p, t)
    <3>1. CASE WriteDecision(p)
      <4>1. job[p].verdict \in Verdict
        BY <3>1, IdleIsFree DEF WriteDecision, DecisionSteps, WellFormed, DecisionJob
      <4>2. actions'[a].status = job[p].verdict /\ pc[p] = "write_decision"
        BY <2>1, <2>3, <3>1 DEF WriteDecision, WellFormed, TablesOK, Row
      <4>3. QED
        BY <2>1, <4>1, <4>2 DEF Active, Activates, Verdict
    <3>2. CASE WriteExecuted(p) \/ WriteFailed(p)
      BY <2>1, <3>2 DEF WriteExecuted, WriteFailed, Activates, ExecutionSteps
    <3>3. QED
      BY <1>11, <3>1, <3>2
  <2>6. QED
    BY <1>8, <1>9, <2>1, <2>3, <2>4, <2>5
<1>12. ASSUME NEW p \in Proc, LogDecision(p) PROVE Claimed(t)' \subseteq Claimed(t)
  <2>1. /\ OnlyMoves(p) /\ pc'[p] = "write_decision"
        /\ UNCHANGED <<actions, job>>
    BY <1>12 DEF LogDecision, Go, OnlyMoves, WellFormed, TablesOK
  <2>2. ~ Activates(p, t)' \/ Activates(p, t)
    BY <1>12, <2>1 DEF LogDecision, Activates, ExecutionSteps
  <2>3. QED
    BY <1>1, <2>1, <2>2
<1>13. ASSUME NEW p \in Proc, Scan(p) \/ Recheck(p) PROVE Claimed(t)' \subseteq Claimed(t)
  <2>1. CASE Finish(p)
    BY <1>3, <1>13, <2>1 DEF Scan, Recheck
  <2>2. CASE FireEffect(p) \/ (Go(p, "recheck") /\ UNCHANGED job)
                           \/ (Go(p, "write_failed") /\ UNCHANGED job)
    <3>1. /\ UNCHANGED actions /\ OnlyMoves(p) /\ pc[p] \in ExecutionSteps
          /\ job'[p].action = job[p].action
      BY <1>13, <2>2 DEF Scan, Recheck, FireEffect, Go, OnlyMoves, WellFormed, TablesOK,
           ExecutionSteps
    <3>2. pc'[p] \in ExecutionSteps
      BY <2>2 DEF FireEffect, Go, WellFormed, TablesOK, ExecutionSteps
    <3>3. Activates(p, t)' => Activates(p, t)
      BY <3>1, <3>2 DEF Activates, ExecutionSteps
    <3>4. QED
      BY <1>1, <3>1, <3>3
  <2>3. QED
    BY <1>13, <2>1, <2>2 DEF Scan, Recheck
<1>14. ASSUME NEW p \in Proc, FindKey(p) \/ InsertRefused(p) \/ FindRaced(p) \/ Abort(p)
       PROVE  Claimed(t)' \subseteq Claimed(t)
  BY <1>14, <1>3, <1>4 DEF FindKey, InsertRefused, FindRaced, Replay, Abort
<1>15. CASE Environment
  <2>1. UNCHANGED <<actions, pc, job>>
    BY <1>15 DEF Environment, Triage
  <2>2. QED
    BY <2>1 DEF Claimed, Active, Activates
<1>16. QED
  BY <1>2, <1>6, <1>7, <1>10, <1>11, <1>12, <1>13, <1>14, <1>15 DEF Next, Step, Continue

BoundInv ==
  \A t \in Ticket :
    IsFiniteSet(Claimed(t)) /\ Cardinality(Claimed(t)) <= Cardinality(Proc)

LEMMA BoundStep == WellFormed /\ KeyInv /\ BoundInv /\ [Next]_vars => BoundInv'
<1> SUFFICES ASSUME WellFormed, KeyInv, BoundInv, [Next]_vars, NEW t \in Ticket
             PROVE  /\ IsFiniteSet(Claimed(t)')
                    /\ Cardinality(Claimed(t)') <= Cardinality(Proc)
  BY DEF BoundInv
<1>1. PICK old, new, targets : old = Claimed(t) /\ new = Claimed(t)' /\ targets = Targets'
  OBVIOUS
<1>2. new \subseteq old \/ new \subseteq targets
  <2>1. CASE UNCHANGED vars
    BY <1>1, <2>1 DEF vars, Claimed, Active, Activates
  <2>2. CASE Next
    BY <1>1, <2>2, ClaimedStep
  <2>3. QED
    BY <2>1, <2>2
<1>3. /\ IsFiniteSet(old) /\ Cardinality(old) <= Cardinality(Proc)
      /\ Cardinality(old) \in Nat /\ Cardinality(Proc) \in Nat
  BY <1>1, ProcAssumption, FS_CardinalityType DEF BoundInv
<1>4. /\ IsFiniteSet(targets) /\ Cardinality(targets) <= Cardinality(Proc)
      /\ Cardinality(targets) \in Nat
  <2>1. PICK f : f = [p \in Proc |-> job'[p].action]
    OBVIOUS
  <2>2. targets = {f[p] : p \in Proc}
    BY <1>1, <2>1 DEF Targets
  <2>3. f \in Surjection(Proc, targets)
    BY <2>1, <2>2 DEF Surjection
  <2>4. IsFiniteSet(targets) /\ Cardinality(targets) <= Cardinality(Proc)
    BY <2>3, ProcAssumption, FS_Surjection
  <2>5. QED
    BY <2>4, FS_CardinalityType
<1>5. IsFiniteSet(new) /\ Cardinality(new) <= Cardinality(Proc)
  <2>1. CASE new \subseteq old
    BY <1>3, <2>1, FS_Subset, FS_CardinalityType
  <2>2. CASE new \subseteq targets
    BY <1>3, <1>4, <2>2, FS_Subset, FS_CardinalityType
  <2>3. QED
    BY <1>2, <2>1, <2>2
<1>6. QED
  BY <1>1, <1>5

(* However many requests overlap, a ticket never has more active actions    *)
(* than requests can be in flight at once: a check lets nothing through as  *)
(* long as one of them is active.                                           *)
THEOREM OverrunIsBounded == Spec => []ActiveOverrunIsBounded
<1>1. Init => BoundInv
  <2> SUFFICES ASSUME Init, NEW t \in Ticket
               PROVE  IsFiniteSet(Claimed(t)) /\ Cardinality(Claimed(t)) <= Cardinality(Proc)
    BY DEF BoundInv
  <2>1. Claimed(t) = {}
    BY DEF Init, Claimed, Active, Activates, NoAction, ExecutionSteps
  <2>2. QED
    BY <2>1, ProcAssumption, FS_EmptySet, FS_CardinalityType
<1>2. Spec => []BoundInv
  BY <1>1, BoundStep, KeyAlways, PTL DEF Spec
<1>3. BoundInv => ActiveOverrunIsBounded
  <2> SUFFICES ASSUME BoundInv, NEW t \in Ticket
               PROVE  Cardinality({a \in ActionId : Exists(a) /\ IsActive(a, actions[a].org, t)})
                        <= Cardinality(Proc)
    BY DEF ActiveOverrunIsBounded
  <2>1. PICK part, all : /\ part = {a \in ActionId : Exists(a) /\ IsActive(a, actions[a].org, t)}
                         /\ all = Claimed(t)
    OBVIOUS
  <2>2. part \subseteq all
    BY <2>1 DEF IsActive, Active, Claimed
  <2>3. IsFiniteSet(all) /\ Cardinality(all) <= Cardinality(Proc)
    BY <2>1 DEF BoundInv
  <2>4. QED
    BY <2>1, <2>2, <2>3, FS_Subset, FS_CardinalityType, ProcAssumption
<1>4. QED
  BY <1>2, <1>3, PTL

-----------------------------------------------------------------------------
(* The service implements the life cycle                                   *)

\* The rows as the life cycle sees them.
Life == [a \in ActionId |-> LifeOf(a)]

\* What a step does to one row it does to one life.
LEMMA LifeChange ==
  ASSUME NEW a \in ActionId, NEW r, LifeOf(a)' = r,
         \A b \in ActionId \ {a} : actions'[b] = actions[b]
  PROVE  Life' = [Life EXCEPT ![a] = r]
<1>1. \A b \in ActionId \ {a} : LifeOf(b)' = LifeOf(b)
  BY DEF LifeOf, Exists
<1>2. QED
  BY <1>1 DEF Life

\* Free, as the life cycle sees it.
LEMMA FreeInLife ==
  ASSUME NEW t, NEW a, Free(t, a)
  PROVE  \A b \in ActionId \ {a} :
           Life[b].status \in Lifecycle!Active /\ Life[b].ticket = t => <<a, b>> \in met
BY DEF Life, LifeOf, Exists, Active, Lifecycle!Active, NoAction, Free, HaveMet

\* An insert is a request of the life cycle.
LEMMA InsertRequests ==
  ASSUME WellFormed, WellFormed', OverlapInv, met \subseteq met', NEW p \in Proc, Insert(p)
  PROVE  Lifecycle!Next
<1>1. /\ job[p] \in RequestJob
      /\ ~ Exists(job[p].action)
      /\ Free(job[p].ticket, job[p].action)
  BY IdleIsFree DEF Insert, RequestSteps, WellFormed, IdsReserved, OverlapInv, Ready
<1>2. PICK n \in ActionId : n = job[p].action
  BY <1>1 DEF RequestJob
<1>3. /\ actions'[n] = NewRow(job[p])
      /\ \A a \in ActionId \ {n} : actions'[a] = actions[a]
  BY <1>2 DEF Insert, WellFormed, TablesOK
<1>4. PICK t \in Ticket : t = job[p].ticket
  BY <1>1 DEF RequestJob
<1>5. PICK gated \in BOOLEAN : gated <=> job[p].tool \in NeedsApproval
  BY Zenon
<1>6. Life[n] = Lifecycle!NotRequested
  BY <1>1, <1>2 DEF Life, LifeOf, NoAction, Lifecycle!NotRequested
<1>7. /\ actions'[n].ticket = t
      /\ actions'[n].tool = job[p].tool
      /\ actions'[n].result = 0
      /\ actions'[n].status = IF gated THEN "approval_required" ELSE "approved"
  BY <1>3, <1>4, <1>5 DEF NewRow
<1>8. LifeOf(n)' = [ticket |-> t, gated |-> gated, result |-> 0,
                    status |-> IF gated THEN "approval_required" ELSE "approved"]
  <2>1. Exists(n)'
    BY <1>7 DEF Exists
  <2>2. LifeOf(n)' = [ticket |-> actions'[n].ticket, gated |-> gated,
                      result |-> actions'[n].result, status |-> actions'[n].status]
    BY <1>5, <1>7, <2>1, Zenon DEF LifeOf
  <2>3. QED
    BY <1>7, <2>2
<1>9. Life' = [Life EXCEPT ![n] =
        [ticket |-> t, gated |-> gated, result |-> 0,
         status |-> IF gated THEN "approval_required" ELSE "approved"]]
  BY <1>3, <1>8, LifeChange
<1>10. \A b \in ActionId \ {n} :
         Life[b].status \in Lifecycle!Active /\ Life[b].ticket = t => <<n, b>> \in met
  BY <1>1, <1>2, <1>4, FreeInLife
<1>11. Lifecycle!Request(n, t, gated)
  BY <1>6, <1>9, <1>10 DEF Lifecycle!Request, Lifecycle!FreeOfOthers, Life
<1>12. QED
  BY <1>11 DEF Lifecycle!Next

\* The row p works on, as the life cycle sees it before and after a write.
LEMMA StatusWrite ==
  ASSUME WellFormed, NEW a \in ActionId, actions[a] \in Row,
         NEW status \in Status, NEW result \in Nat,
         actions' = [actions EXCEPT ![a].status = status, ![a].result = result]
  PROVE  /\ Life[a].status = actions[a].status
         /\ Life[a].ticket = actions[a].ticket
         /\ Life[a].result = actions[a].result
         /\ Life'[a].result = result
         /\ Life' = [Life EXCEPT ![a].status = status, ![a].result = result]
         /\ result = actions[a].result => Life' = [Life EXCEPT ![a].status = status]
<1>1. PICK gated \in BOOLEAN : gated <=> actions[a].tool \in NeedsApproval
  BY Zenon
<1>2. /\ actions'[a].status = status
      /\ actions'[a].result = result
      /\ actions'[a].ticket = actions[a].ticket
      /\ actions'[a].tool = actions[a].tool
      /\ \A b \in ActionId \ {a} : actions'[b] = actions[b]
  BY DEF WellFormed, TablesOK, Row
<1>3. Exists(a) /\ Exists(a)'
  BY <1>2, RowExists DEF WellFormed, Exists, Status
<1>4. LifeOf(a) = [ticket |-> actions[a].ticket, gated |-> gated,
                   result |-> actions[a].result, status |-> actions[a].status]
  BY <1>1, <1>3, Zenon DEF LifeOf
<1>5. LifeOf(a)' = [ticket |-> actions[a].ticket, gated |-> gated,
                    result |-> result, status |-> status]
  BY <1>1, <1>2, <1>3, Zenon DEF LifeOf
<1>6. Life[a] = LifeOf(a)
  BY DEF Life
<1>7. Life' = [Life EXCEPT ![a] = [ticket |-> actions[a].ticket, gated |-> gated,
                                   result |-> result, status |-> status]]
  BY <1>2, <1>5, LifeChange
<1>8. /\ Life[a].status = actions[a].status
      /\ Life[a].ticket = actions[a].ticket
      /\ Life[a].result = actions[a].result
      /\ Life'[a].result = result
  BY <1>4, <1>6, <1>7 DEF Life
<1>9. [Life[a] EXCEPT !.status = status] =
        [ticket |-> actions[a].ticket, gated |-> gated,
         result |-> actions[a].result, status |-> status]
  BY <1>4, <1>6
<1>10. [Life EXCEPT ![a].status = status, ![a].result = result] =
         [Life EXCEPT ![a] = [[Life[a] EXCEPT !.status = status] EXCEPT !.result = result]]
  BY DEF Life
<1>11. [Life EXCEPT ![a].status = status] =
         [Life EXCEPT ![a] = [Life[a] EXCEPT !.status = status]]
  OBVIOUS
<1>12. [[Life[a] EXCEPT !.status = status] EXCEPT !.result = result] =
         [ticket |-> actions[a].ticket, gated |-> gated, result |-> result, status |-> status]
  <2>1. [[ticket |-> actions[a].ticket, gated |-> gated,
           result |-> actions[a].result, status |-> status] EXCEPT !.result = result] =
          [ticket |-> actions[a].ticket, gated |-> gated, result |-> result, status |-> status]
    OBVIOUS
  <2>2. QED
    BY <1>9, <2>1, Zenon
<1>13. QED
  BY <1>7, <1>8, <1>9, <1>10, <1>11, <1>12

\* Every other step is one too, or leaves the life cycle alone.
LEMMA LifeStep ==
  ASSUME WellFormed, WellFormed', OverlapInv, Next
  PROVE  Lifecycle!Next
<1>0. met \subseteq met'
  BY DEF Next
<1>1. ASSUME NEW p \in Proc, Insert(p) PROVE Lifecycle!Next
  BY <1>0, <1>1, InsertRequests
\* What a handler that writes a status knows of its row.
<1>2. ASSUME NEW p \in Proc, LetIn(p), NEW a, a = job[p].action
      PROVE  /\ a \in ActionId
             /\ actions[a] \in Row
             /\ Life[a] = LifeOf(a)
             /\ Life[a] # Lifecycle!NotRequested
             /\ Life[a].ticket = actions[a].ticket
             /\ Life[a].status = actions[a].status
  <2>1. a \in ActionId /\ actions[a] \in Row /\ Exists(a)
    BY <1>2, TargetRow DEF LetIn
  <2>2. /\ Life[a] = LifeOf(a)
        /\ Life[a].ticket = actions[a].ticket
        /\ Life[a].status = actions[a].status
    BY <2>1 DEF Life, LifeOf
  <2>3. Life[a] # Lifecycle!NotRequested
    BY <2>1, <2>2 DEF Exists, Lifecycle!NotRequested
  <2>4. QED
    BY <2>1, <2>2, <2>3
<1>3. ASSUME NEW p \in Proc, WriteDecision(p) PROVE Lifecycle!Next
  <2>1. PICK a : a = job[p].action
    OBVIOUS
  <2>2. LetIn(p) /\ pc[p] \in DecisionSteps
    BY <1>3 DEF WriteDecision, LetIn, DecisionSteps
  <2>3. /\ a \in ActionId
        /\ actions[a] \in Row
        /\ Life[a] # Lifecycle!NotRequested
        /\ Life[a].ticket = actions[a].ticket
        /\ Life[a].status = actions[a].status
    BY <1>2, <2>1, <2>2
  <2>4. job[p].verdict \in Verdict /\ actions[a].result \in Nat
    BY <2>2, <2>3, IdleIsFree DEF WellFormed, DecisionJob, Row
  <2>5. actions' = [actions EXCEPT ![a].status = job[p].verdict, ![a].result = actions[a].result]
    BY <1>3, <2>1, <2>3 DEF WriteDecision, WellFormed, TablesOK, Row
  <2>6. Life' = [Life EXCEPT ![a].status = job[p].verdict]
    <3>1. job[p].verdict \in Status
      BY <2>4 DEF Verdict, Status
    <3>2. PICK status \in Status, result \in Nat :
            status = job[p].verdict /\ result = actions[a].result
      BY <2>4, <3>1
    <3>3. actions' = [actions EXCEPT ![a].status = status, ![a].result = result]
      BY <2>5, <3>2
    <3>4. Life' = [Life EXCEPT ![a].status = status]
      BY <2>3, <3>2, <3>3, StatusWrite
    <3>5. QED
      BY <3>2, <3>4
  <2>7. Lifecycle!At(a, "approval_required")
    BY <1>3, <2>1, <2>2, <2>3 DEF OverlapInv, Ready, Lifecycle!At, Life
  <2>8. CASE job[p].verdict = "approved"
    <3>1. Free(actions[a].ticket, a)
      BY <1>3, <2>1, <2>8 DEF WriteDecision, OverlapInv, Ready
    <3>2. \A b \in ActionId \ {a} :
            Life[b].status \in Lifecycle!Active /\ Life[b].ticket = Life[a].ticket => <<a, b>> \in met
      BY <2>3, <3>1, FreeInLife
    <3>3. Lifecycle!Approve(a)
      BY <2>6, <2>7, <2>8, <3>2 DEF Lifecycle!Approve, Lifecycle!FreeOfOthers, Life
    <3>4. QED
      BY <1>0, <2>3, <3>3 DEF Lifecycle!Next
  <2>9. CASE job[p].verdict = "rejected"
    <3>1. Lifecycle!Reject(a)
      BY <2>6, <2>7, <2>9 DEF Lifecycle!Reject, Life
    <3>2. QED
      BY <1>0, <2>3, <3>1 DEF Lifecycle!Next
  <2>10. QED
    BY <2>4, <2>8, <2>9 DEF Verdict
<1>4. ASSUME NEW p \in Proc, WriteExecuted(p) PROVE Lifecycle!Next
  <2>1. PICK a : a = job[p].action
    OBVIOUS
  <2>2. LetIn(p) /\ pc[p] \in ExecutionSteps
    BY <1>4 DEF WriteExecuted, LetIn, ExecutionSteps
  <2>3. /\ a \in ActionId
        /\ actions[a] \in Row
        /\ Life[a] # Lifecycle!NotRequested
        /\ Life[a].ticket = actions[a].ticket
        /\ Life[a].status = actions[a].status
    BY <1>2, <2>1, <2>2
  <2>4. job[p].effect \in Nat /\ job[p].effect > 0
    BY <1>4, <2>2, IdleIsFree DEF WriteExecuted, WellFormed, ExecutionJob, OverlapInv, Ready
  <2>5. actions' = [actions EXCEPT ![a].status = "executed", ![a].result = job[p].effect]
    BY <1>4, <2>1 DEF WriteExecuted
  <2>6. /\ Life'[a].result = job[p].effect
        /\ Life' = [Life EXCEPT ![a].status = "executed", ![a].result = job[p].effect]
    BY <2>3, <2>4, <2>5, StatusWrite DEF Status
  <2>7. Lifecycle!At(a, "approved") /\ Free(actions[a].ticket, a)
    BY <1>4, <2>1, <2>2, <2>3 DEF OverlapInv, Ready, Lifecycle!At, Life
  <2>8. Lifecycle!FreeOfOthers(Life[a].ticket, a)
    <3>1. \A b \in ActionId \ {a} :
            Life[b].status \in Lifecycle!Active /\ Life[b].ticket = Life[a].ticket => <<a, b>> \in met
      BY <2>3, <2>7, FreeInLife
    <3>2. QED
      BY <3>1 DEF Lifecycle!FreeOfOthers, Life
  <2>9. Life' = [Life EXCEPT ![a].status = "executed", ![a].result = Life'[a].result]
    BY <2>6
  <2>10. Life'[a].result \in Nat \ {0}
    BY <2>4, <2>6
  <2>11. Lifecycle!Execute(a)
    BY <2>7, <2>8, <2>9, <2>10, Zenon DEF Lifecycle!Execute, Life
  <2>12. QED
    BY <1>0, <2>3, <2>11 DEF Lifecycle!Next
<1>5. ASSUME NEW p \in Proc, WriteFailed(p) PROVE Lifecycle!Next
  <2>1. PICK a : a = job[p].action
    OBVIOUS
  <2>2. LetIn(p) /\ pc[p] \in ExecutionSteps
    BY <1>5 DEF WriteFailed, LetIn, ExecutionSteps
  <2>3. /\ a \in ActionId
        /\ actions[a] \in Row
        /\ Life[a] # Lifecycle!NotRequested
        /\ Life[a].status = actions[a].status
    BY <1>2, <2>1, <2>2
  <2>4. actions' = [actions EXCEPT ![a].status = "failed", ![a].result = 0]
    BY <1>5, <2>1 DEF WriteFailed
  <2>5. Life' = [Life EXCEPT ![a].status = "failed", ![a].result = 0]
    BY <2>3, <2>4, StatusWrite DEF Status
  <2>6. Lifecycle!At(a, "approved")
    BY <1>5, <2>1, <2>2, <2>3 DEF OverlapInv, Ready, Lifecycle!At, Life
  <2>7. Lifecycle!Fail(a)
    BY <2>5, <2>6 DEF Lifecycle!Fail, Life
  <2>8. QED
    BY <1>0, <2>3, <2>7 DEF Lifecycle!Next
<1>6. ASSUME UNCHANGED actions PROVE Lifecycle!Next
  <2>1. UNCHANGED Life
    BY <1>6 DEF Life, LifeOf, Exists
  <2>2. QED
    BY <1>0, <2>1 DEF Lifecycle!Next, Life
<1>7. ASSUME NEW p \in Proc,
             \/ Arrive(p) \/ FindKey(p) \/ FindActive(p) \/ InsertRefused(p) \/ FindRaced(p)
             \/ CheckActive(p) \/ LogDecision(p) \/ Scan(p) \/ Recheck(p) \/ Abort(p)
      PROVE  UNCHANGED actions
  BY <1>7 DEF Arrive, StartRequest, StartDecision, StartExecution, FindKey, FindActive,
       InsertRefused, FindRaced, Replay, CheckActive, LogDecision, Scan, Recheck, Abort
<1>8. CASE Environment
  BY <1>6, <1>8 DEF Environment, Triage
<1>9. QED
  BY <1>1, <1>3, <1>4, <1>5, <1>6, <1>7, <1>8 DEF Next, Step, Continue

LEMMA LifecycleInit == Init => Lifecycle!Init
BY DEF Init, Lifecycle!Init, Lifecycle!NotRequested, LifeOf, Exists, NoAction

(* The service implements the life cycle of HLD 4.3: every write to a row   *)
(* is a request, an approval, a rejection, an execution or a failure of     *)
(* that action, taken when it may be taken, save for actions that two       *)
(* requests were at work on at once.                                        *)
THEOREM ServiceFollowsLifecycle == Spec => FollowsLifecycle
<1>1. Life = [a \in ActionId |-> LifeOf(a)]
  BY DEF Life
<1>2. WellFormed /\ WellFormed' /\ OverlapInv /\ [Next]_vars
        => [Lifecycle!Next]_<<[a \in ActionId |-> LifeOf(a)], met>>
  <2>1. ASSUME UNCHANGED vars PROVE UNCHANGED <<[a \in ActionId |-> LifeOf(a)], met>>
    BY <2>1 DEF vars, LifeOf, Exists
  <2>2. QED
    BY <2>1, LifeStep
<1>3. QED
  BY <1>2, LifecycleInit, OverlapAlways, PTL DEF Spec, FollowsLifecycle, Lifecycle!Spec

-----------------------------------------------------------------------------
(* What is final                                                           *)

\* Nobody is at work on an action that is done with, unless two were at once.
LEMMA SettledStays ==
  ASSUME WellFormed, OverlapInv, Next, NEW a \in ActionId,
         actions[a].status \in {"rejected", "executed", "failed"}, <<a, a>> \notin met
  PROVE  actions'[a] = actions[a] /\ effects'[a] = effects[a]
<1>1. ASSUME NEW p \in Proc, LetIn(p) PROVE a # job[p].action
  BY <1>1 DEF LetIn, OverlapInv, Ready
<1>2. ASSUME NEW p \in Proc, WriteDecision(p) \/ WriteExecuted(p) \/ WriteFailed(p)
      PROVE  actions'[a] = actions[a] /\ effects'[a] = effects[a]
  BY <1>1, <1>2 DEF WriteDecision, WriteExecuted, WriteFailed, LetIn, DecisionSteps,
       ExecutionSteps, WellFormed, TablesOK
<1>3. ASSUME NEW p \in Proc, Insert(p)
      PROVE  actions'[a] = actions[a] /\ effects'[a] = effects[a]
  BY <1>3 DEF Insert, RequestSteps, WellFormed, TablesOK, IdsReserved, Exists
<1>4. ASSUME NEW p \in Proc, Scan(p) \/ Recheck(p)
      PROVE  actions'[a] = actions[a] /\ effects'[a] = effects[a]
  BY <1>1, <1>4 DEF Scan, Recheck, FireEffect, LetIn, ExecutionSteps, WellFormed, TablesOK
<1>5. ASSUME NEW p \in Proc,
             \/ Arrive(p) \/ FindKey(p) \/ FindActive(p) \/ InsertRefused(p) \/ FindRaced(p)
             \/ CheckActive(p) \/ LogDecision(p) \/ Abort(p)
      PROVE  actions'[a] = actions[a] /\ effects'[a] = effects[a]
  BY <1>5 DEF Arrive, StartRequest, StartDecision, StartExecution, FindKey, FindActive,
       InsertRefused, FindRaced, Replay, CheckActive, LogDecision, Abort
<1>6. CASE Environment
  BY <1>6 DEF Environment, Triage
<1>7. QED
  BY <1>2, <1>3, <1>4, <1>5, <1>6 DEF Next, Step, Continue

(* A rejection stays a rejection (decideToolAction: "Rejection is           *)
(* terminal") unless two requests were at work on the action at once.       *)
THEOREM RejectionStands == Spec => RejectionSettles
<1>1. WellFormed /\ OverlapInv /\ [Next]_vars
        => [\A a \in ActionId :
              actions[a].status = "rejected" /\ <<a, a>> \notin met
                => actions'[a] = actions[a]]_vars
  BY SettledStays
<1>2. QED
  BY <1>1, OverlapAlways, PTL DEF Spec, RejectionSettles

(* The first result of an executed action is the one every later caller is  *)
(* given, and its effect fires no more (HLD 4.3), unless two requests were  *)
(* at work on the action at once.                                           *)
THEOREM FirstResultStands == Spec => ResultSettles
<1>1. WellFormed /\ OverlapInv /\ [Next]_vars
        => [\A a \in ActionId :
              actions[a].status = "executed" /\ <<a, a>> \notin met
                => actions'[a] = actions[a] /\ effects'[a] = effects[a]]_vars
  BY SettledStays
<1>2. QED
  BY <1>1, OverlapAlways, PTL DEF Spec, ResultSettles

\* ----- the calendar ------------------------------------------------------
\* A month has 28 days at least and 31 at most, and December has 31.
LEMMA DaysInMonth ==
  ASSUME NEW y \in Nat, NEW m \in 1 .. 12
  PROVE  DaysIn(y, m) \in 28 .. 31 /\ (m = 12 => DaysIn(y, m) = 31)
<1>1. m \in {4, 6, 9, 11} => DaysIn(y, m) = 30
  BY DEF DaysIn
<1>2. m = 2 => DaysIn(y, m) \in 28 .. 29
  BY DEF DaysIn
<1>3. m \notin {2, 4, 6, 9, 11} => DaysIn(y, m) = 31
  BY DEF DaysIn
<1> QED
  BY <1>1, <1>2, <1>3

\* The month n months later is a month of a year that is not earlier.
LEMMA LaterMonth ==
  ASSUME NEW t \in Instant, NEW n \in Nat
  PROVE  YearAfter(t, n) \in Nat /\ MonthAfter(t, n) \in 1 .. 12
<1>1. t.year \in Nat /\ t.month \in 1 .. 12
  BY DEF Instant
<1>2. (t.month - 1 + n) \div 12 \in Nat /\ (t.month - 1 + n) % 12 \in 0 .. 11
  BY <1>1, Z3
<1>3. YearAfter(t, n) \in Nat
  <2>1. PICK q \in Nat : q = (t.month - 1 + n) \div 12
    BY <1>2
  <2>2. YearAfter(t, n) = t.year + q
    BY <2>1 DEF YearAfter
  <2> QED
    BY <1>1, <2>1, <2>2
<1>4. MonthAfter(t, n) \in 1 .. 12
  BY <1>2 DEF MonthAfter
<1> QED
  BY <1>3, <1>4

\* AddMonths returns an instant of the calendar, whatever the day it starts from
\* (services/eligibility.ts, addMonths).
THEOREM AddMonthsIsInstant ==
  ASSUME NEW t \in Instant, NEW n \in Nat
  PROVE  AddMonths(t, n) \in Instant
<1> DEFINE y == YearAfter(t, n)
           m == MonthAfter(t, n)
<1>1. y \in Nat /\ m \in 1 .. 12
  BY LaterMonth
<1>2. DaysIn(y, m) \in 28 .. 31 /\ (m = 12 => DaysIn(y, m) = 31)
  BY <1>1, DaysInMonth
<1>3. t.day \in 1 .. 31
  BY DEF Instant
<1> HIDE DEF y, m
<1>4. CASE t.day <= DaysIn(y, m)
  <2>1. AddMonths(t, n) = [year |-> y, month |-> m, day |-> t.day, time |-> t.time]
    BY <1>4 DEF AddMonths, y, m
  <2> QED
    BY <1>1, <1>3, <1>4, <2>1 DEF Instant
<1>5. CASE ~(t.day <= DaysIn(y, m))
  <2>1. AddMonths(t, n) = [year |-> y, month |-> m + 1, day |-> t.day - DaysIn(y, m), time |-> t.time]
    BY <1>5 DEF AddMonths, y, m
  <2>2. m + 1 \in 1 .. 12 /\ t.day - DaysIn(y, m) \in 1 .. 3
    BY <1>1, <1>2, <1>3, <1>5
  <2>3. DaysIn(y, m + 1) \in 28 .. 31
    BY <1>1, <2>2, DaysInMonth
  <2> QED
    BY <1>1, <2>1, <2>2, <2>3 DEF Instant
<1> QED
  BY <1>4, <1>5

\* A warranty never ends before its last month does, unless on the day of the
\* month it began, and never more than three days into the month after.
THEOREM WarrantyNeverShort ==
  ASSUME NEW t \in Instant, NEW n \in Nat
  PROVE  LET end == AddMonths(t, n) IN
         \/ end = [year |-> YearAfter(t, n), month |-> MonthAfter(t, n), day |-> t.day, time |-> t.time]
         \/ /\ end.year = YearAfter(t, n) /\ end.month = MonthAfter(t, n) + 1
            /\ end.day \in 1 .. 3
<1> DEFINE y == YearAfter(t, n)
           m == MonthAfter(t, n)
<1>1. DaysIn(y, m) \in 28 .. 31
  BY LaterMonth, DaysInMonth
<1>2. t.day \in 1 .. 31
  BY DEF Instant
<1>3. CASE t.day <= DaysIn(y, m)
  BY <1>3 DEF AddMonths
<1>4. CASE ~(t.day <= DaysIn(y, m))
  <2>1. AddMonths(t, n) = [year |-> y, month |-> m + 1, day |-> t.day - DaysIn(y, m), time |-> t.time]
    BY <1>4 DEF AddMonths
  <2>2. t.day - DaysIn(y, m) \in 1 .. 3
    BY <1>1, <1>2, <1>4
  <2> QED
    BY <2>1, <2>2
<1> QED
  BY <1>3, <1>4

\* An ordinary warranty never ends earlier for an order that was delivered later,
\* unless the earlier one was delivered on a leap day: that one may run until a
\* later hour of March 1 than one delivered early on March 1.  (An extended one
\* may also end earlier otherwise: 18 months from August 31 end on March 3, 18
\* months from September 1 on March 1.)
THEOREM YearlongIsMonotone ==
  ASSUME NEW s \in Instant, NEW t \in Instant, NotAfter(s, t), ~ (s.month = 2 /\ s.day = 29)
  PROVE  NotAfter(AddMonths(s, 12), AddMonths(t, 12))
<1>1. \A d \in Instant : YearAfter(d, 12) = d.year + 1 /\ MonthAfter(d, 12) = d.month
  <2> SUFFICES ASSUME NEW d \in Instant
               PROVE  YearAfter(d, 12) = d.year + 1 /\ MonthAfter(d, 12) = d.month
    OBVIOUS
  <2>1. d.year \in Nat /\ d.month \in 1 .. 12
    BY DEF Instant
  <2>2. (d.month - 1 + 12) \div 12 = 1 /\ (d.month - 1 + 12) % 12 = d.month - 1
    BY <2>1, Z3
  <2>3. YearAfter(d, 12) = d.year + 1
    BY <2>2 DEF YearAfter
  <2>4. MonthAfter(d, 12) = d.month
    BY <2>1, <2>2 DEF MonthAfter
  <2> QED
    BY <2>3, <2>4
<1>2. \A d \in Instant : d.day > DaysIn(d.year + 1, d.month)
                       => d.month = 2 /\ d.day = 29 /\ DaysIn(d.year + 1, 2) = 28
  <2> SUFFICES ASSUME NEW d \in Instant, d.day > DaysIn(d.year + 1, d.month)
               PROVE  d.month = 2 /\ d.day = 29 /\ DaysIn(d.year + 1, 2) = 28
    OBVIOUS
  <2>1. d.month \in 1 .. 12 /\ d.day \in 1 .. 31 /\ d.day <= DaysIn(d.year, d.month)
    BY DEF Instant
  <2>2. d.month = 2
    BY <2>1 DEF DaysIn
  <2> QED
    BY <2>1, <2>2 DEF DaysIn
<1>3. \A d \in Instant :
        AddMonths(d, 12) =
          IF d.day <= DaysIn(d.year + 1, d.month)
          THEN [year |-> d.year + 1, month |-> d.month, day |-> d.day, time |-> d.time]
          ELSE [year |-> d.year + 1, month |-> d.month + 1,
                day |-> d.day - DaysIn(d.year + 1, d.month), time |-> d.time]
  BY <1>1 DEF AddMonths
<1>4. \A d \in Instant : d.year \in Nat /\ d.month \in 1 .. 12 /\ d.day \in 1 .. 31
                         /\ d.time \in Nat /\ (d.month = 2 => d.day <= 29)
                         /\ DaysIn(d.year + 1, d.month) \in 28 .. 31
  <2> SUFFICES ASSUME NEW d \in Instant
               PROVE  d.year \in Nat /\ d.month \in 1 .. 12 /\ d.day \in 1 .. 31
                      /\ d.time \in Nat /\ (d.month = 2 => d.day <= 29)
                      /\ DaysIn(d.year + 1, d.month) \in 28 .. 31
    OBVIOUS
  <2>1. d.year \in Nat /\ d.month \in 1 .. 12 /\ d.day \in 1 .. 31 /\ d.time \in Nat
    BY DEF Instant
  <2>2. d.month = 2 => d.day <= 29
    BY DEF Instant, DaysIn
  <2>3. DaysIn(d.year + 1, d.month) \in 28 .. 31
    BY <2>1, DaysInMonth
  <2> QED
    BY <2>1, <2>2, <2>3
<1>5. PICK a : a = AddMonths(s, 12)
  OBVIOUS
<1>6. PICK b : b = AddMonths(t, 12)
  OBVIOUS
<1>7. a.year = s.year + 1 /\ a.month = s.month /\ a.day = s.day /\ a.time = s.time
  <2>1. s.day <= DaysIn(s.year + 1, s.month)
    BY <1>2, <1>4
  <2> QED
    BY <1>3, <1>5, <2>1
<1>8. \/ b.year = t.year + 1 /\ b.month = t.month /\ b.day = t.day /\ b.time = t.time
      \/ t.month = 2 /\ t.day = 29 /\ b.year = t.year + 1 /\ b.month = 3
  <2>1. CASE t.day <= DaysIn(t.year + 1, t.month)
    BY <1>3, <1>6, <2>1
  <2>2. CASE ~ (t.day <= DaysIn(t.year + 1, t.month))
    <3>1. t.month = 2 /\ t.day = 29
      BY <1>2, <1>4, <2>2
    <3>2. b.year = t.year + 1 /\ b.month = t.month + 1
      BY <1>3, <1>6, <2>2
    <3> QED
      BY <3>1, <3>2
  <2> QED
    BY <2>1, <2>2
<1>9. /\ s.year \in Nat /\ s.month \in 1 .. 12 /\ s.day \in 1 .. 31 /\ s.time \in Nat
      /\ t.year \in Nat /\ t.month \in 1 .. 12 /\ t.day \in 1 .. 31 /\ t.time \in Nat
  BY <1>4
<1>10. \/ s.year < t.year
       \/ s.year = t.year /\ s.month < t.month
       \/ s.year = t.year /\ s.month = t.month /\ s.day < t.day
       \/ s.year = t.year /\ s.month = t.month /\ s.day = t.day /\ s.time <= t.time
  BY DEF NotAfter
<1>11. NotAfter(a, b)
  BY <1>7, <1>8, <1>9, <1>10 DEF NotAfter
<1> QED
  BY <1>5, <1>6, <1>11
=============================================================================
