--------------------------- MODULE DraftingProofs ----------------------------
(***************************************************************************)
(* Proofs about Drafting, for any number of runs and documents and any     *)
(* answers of the model.                                                   *)
(***************************************************************************)
EXTENDS Drafting, SequenceTheorems, TLAPS

\* ----- the inductive invariant -------------------------------------------
\* What is true of a run at step p with local variables j.  Most steps change
\* nothing else, so it is stated for any p and j.
Over == {"idle", "done", "failed"}
ToTriage == {"read_inbound", "triage_call"}
Classified == {"save_triage", "log_triage", "reread"}
ToDraft == {"read_thread", "search", "fetch", "similar", "draft_call"}
Scanned == {"read_org", "judge_call", "insert"}
Stored == {"log_draft", "auto_send", "score"}
Steps == Over \cup ToTriage \cup Classified \cup {"log_failed"} \cup ToDraft
         \cup {"reread_kb"} \cup Scanned \cup Stored

Leaks == {"prompt", "secret", "register", "other_customer", "policy"}
IsInternal(body) == \E x \in Doc : kb[x].internal /\ body = kb[x].text
Fits(a) == triage.category \in AllowedIn[a.tool]

\* A run that has not begun has no draft; only a finished one has a score; an
\* eval run is not judged and sends nothing.
RunsOnce(r, p, j) ==
  /\ p = "idle" => \A i \in 1 .. Len(drafts) : drafts[i].run # r
  /\ p \notin Over => j.kind # "none"
  /\ p # "done" => j.score = "none"
  /\ p \in {"judge_call", "auto_send"} => j.kind # "eval"

\* A run that is blocked holds the template, and has stored it.
BlocksFully(r, p, j) ==
  /\ p \in ToTriage \cup Classified \cup ToDraft \cup {"log_failed", "judge_call"} => ~j.blocked
  /\ p \in {"reread_kb", "read_org", "insert"} /\ j.blocked => j.answer = Template
  /\ j.answer.body = "template" => j.answer.resolution = "escalated"
  /\ p \in Stored => /\ j.draft \in 1 .. Len(drafts) /\ drafts[j.draft].run = r
                     /\ j.blocked => drafts[j.draft].resolution = "escalated"

\* Past the scans.
Vetted(r, p, j) ==
  p \in Scanned =>
    /\ j.answer.body \notin Leaks \ {"policy"}
    /\ p # "read_org" => j.answer.body # "policy"
    /\ p = "insert" /\ j.kind # "eval" => j.answer.body # "tone"
    /\ \A a \in j.answer.actions : a.tool \in Catalog

\* What a run knows of the documents and the triage, while nobody changes them.
UpToDate(r, p, j) ==
  /\ r \notin reingested =>
       /\ p \in Scanned => ~IsInternal(j.answer.body)
       /\ p = "log_draft" => ~IsInternal(drafts[j.draft].body)
  /\ r \notin retriaged =>
       /\ p \in ToDraft \cup Scanned \cup {"reread_kb"} => j.triage.category = triage.category
       /\ p \in Scanned => \A a \in j.answer.actions : Fits(a)
       /\ p = "log_draft" => \A a \in drafts[j.draft].actions : Fits(a)

\* The flag of the input scan overrides the model, up to the score.
Escalates(r, p, j) ==
  j.kind = "eval" =>
    /\ p \in Classified \cup ToDraft \cup Scanned \cup Stored \cup {"reread_kb"} /\ j.flagged
         => j.triage.escalate
    /\ p = "done" /\ (j.flagged \/ j.blocked) => j.score \in {"escalated", "failed"}

RunOk(r, p, j) ==
  RunsOnce(r, p, j) /\ BlocksFully(r, p, j) /\ Vetted(r, p, j) /\ UpToDate(r, p, j)
  /\ Escalates(r, p, j)

\* The drafts rows.
RowsOk ==
  \A i \in 1 .. Len(drafts) :
    /\ drafts[i].body \notin Leaks
    /\ drafts[i].body = "tone" => job[drafts[i].run].kind \in {"eval", "none"}
    /\ drafts[i].body = "template" => drafts[i].resolution = "escalated"
    /\ \A a \in drafts[i].actions : a.gated <=> a.tool \in Gated \/ a.tool \notin Catalog

IInv ==
  /\ TypeOK /\ pc \in [Run -> Steps]
  /\ RowsOk /\ AutoSentIsSafe
  /\ \A r \in Run : RunOk(r, pc[r], job[r])

USE AnswersAssumption, CatalogAssumption, TextNames, DraftingBounds

LEMMA TemplateIsAnswer == Template \in Answer
BY DEF Template, Answer, Body, Resolution

LEMMA NoJobIsJob == ASSUME TypeOK PROVE NoJob \in Job
<1>1. Len(drafts) \in Nat
  BY DEF TypeOK
<1>2. QED
  BY <1>1, TemplateIsAnswer DEF NoJob, NoTriage, Job

LEMMA JobsTyped ==
  ASSUME IInv, NEW r \in Run
  PROVE  /\ TypeOK /\ job \in [Run -> Job] /\ job[r] \in Job
         /\ pc \in [Run -> Steps] /\ pc[r] \in Steps
         /\ RunOk(r, pc[r], job[r]) /\ AutoSentIsSafe /\ sent \subseteq 1 .. Len(drafts)
BY DEF IInv, TypeOK

LEMMA InitIInv == Init => IInv
<1> SUFFICES ASSUME Init PROVE IInv
  OBVIOUS
<1>1. drafts = << >> /\ Len(drafts) = 0 /\ drafts \in Seq(Row)
  BY DEF Init
<1>2. NoJob \in Job
  BY <1>1, TemplateIsAnswer DEF NoJob, NoTriage, Job
<1>3. TypeOK /\ pc \in [Run -> Steps]
  <2>1. NoTriage \in [category : Category \cup {"none"}, escalate : BOOLEAN]
    BY DEF NoTriage
  <2>2. QED
    BY <1>1, <1>2, <2>1 DEF Init, TypeOK, Steps, Over
<1>4. RowsOk /\ AutoSentIsSafe
  BY <1>1 DEF Init, RowsOk, AutoSentIsSafe
<1>5. ASSUME NEW r \in Run PROVE RunOk(r, "idle", NoJob)
  BY <1>1 DEF RunOk, RunsOnce, BlocksFully, Vetted, UpToDate, Escalates, NoJob, Template,
              Over, ToTriage, Classified, ToDraft, Scanned, Stored
<1>6. QED
  BY <1>3, <1>4, <1>5 DEF Init, IInv

\* ----- a step of one run that stores no draft and no triage --------------
LEMMA LocalStep ==
  ASSUME IInv, NEW r \in Run, NEW p \in Steps, NEW j \in Job,
         pc' = [pc EXCEPT ![r] = p], job' = [job EXCEPT ![r] = j],
         UNCHANGED <<triage, drafts, kb, latest, reingested, retriaged>>,
         sent' \subseteq 1 .. Len(drafts), AutoSentIsSafe',
         j.kind \in {job[r].kind, "none"} \/ pc[r] = "idle",
         RunOk(r, p, j)
  PROVE  IInv'
<1>1. TypeOK /\ pc \in [Run -> Steps] /\ job \in [Run -> Job] /\ RowsOk
  BY DEF IInv, TypeOK
<1>2. /\ pc'[r] = p /\ job'[r] = j
      /\ \A q \in Run \ {r} : pc'[q] = pc[q] /\ job'[q] = job[q]
  BY <1>1
<1>3. pc' \in [Run -> Steps] /\ job' \in [Run -> Job]
  BY <1>1
<1>4. TypeOK'
  BY <1>1, <1>3 DEF TypeOK, Job
<1>5. ASSUME NEW q \in Run, NEW o, NEW k, RunOk(q, o, k) PROVE RunOk(q, o, k)'
  BY <1>5 DEF RunOk, RunsOnce, BlocksFully, Vetted, UpToDate, Escalates, IsInternal, Fits
<1>6. \A q \in Run : RunOk(q, pc[q], job[q])'
  BY <1>2, <1>5 DEF IInv
<1>7. RowsOk'
  BY <1>1, <1>2 DEF IInv, RunOk, RunsOnce, RowsOk
<1>8. QED
  BY <1>3, <1>4, <1>6, <1>7 DEF IInv

\* The usual case: nothing but the run's own variables changes.
LEMMA OwnStep ==
  ASSUME IInv, NEW r \in Run, NEW p \in Steps, NEW j \in Job, Goto(r, p),
         job' = [job EXCEPT ![r] = j], UNCHANGED <<triage, drafts, sent, world, retriaged>>,
         j.kind \in {job[r].kind, "none"} \/ pc[r] = "idle", RunOk(r, p, j)
  PROVE  IInv'
<1>1. AutoSentIsSafe' /\ sent' \subseteq 1 .. Len(drafts)
  BY JobsTyped DEF AutoSentIsSafe
<1>2. QED
  BY <1>1, LocalStep DEF Goto, world

LEMMA Resets ==
  ASSUME IInv, NEW r \in Run
  PROVE  LET j == Reset(job[r])
         IN /\ j.kind = job[r].kind /\ j.triage = job[r].triage /\ j.flagged = job[r].flagged
            /\ j.blocked = job[r].blocked /\ j.score = job[r].score /\ j.answer = job[r].answer
            /\ j.draft = job[r].draft /\ j \in Job
<1>1. Reset(job[r]) = [job[r] EXCEPT !.attempt = 0, !.tries = 0]
  BY DEF Reset
<1> DEFINE j == Reset(job[r])
<1>2. job[r] \in Job /\ 0 \in 0 .. 1 /\ 0 \in 0 .. MaxRetries
  BY JobsTyped
<1>3. j \in Job
  BY <1>1, <1>2 DEF Job
<1>4. /\ j.kind = job[r].kind /\ j.triage = job[r].triage /\ j.flagged = job[r].flagged
      /\ j.blocked = job[r].blocked /\ j.score = job[r].score
  BY <1>1, <1>2 DEF Job
<1>5. j.answer = job[r].answer /\ j.draft = job[r].draft
  BY <1>1, <1>2 DEF Job
<1>6. QED
  BY <1>3, <1>4, <1>5

LEMMA Blocks ==
  ASSUME IInv, NEW r \in Run
  PROVE  LET j == Block(job[r])
         IN /\ j.kind = job[r].kind /\ j.triage = job[r].triage /\ j.flagged = job[r].flagged
            /\ j.blocked /\ j.score = job[r].score /\ j.answer = Template /\ j \in Job
<1>1. Block(job[r]) = [Reset(job[r]) EXCEPT !.answer = Template, !.blocked = TRUE]
  BY DEF Block
<1>2. Reset(job[r]) \in Job /\ Template \in Answer
  BY Resets, TemplateIsAnswer
<1>3. Block(job[r]) \in Job
  BY <1>1, <1>2 DEF Job
<1>4. QED
  BY <1>1, <1>2, <1>3, Resets DEF Job

LEMMA BeginKeeps ==
  ASSUME IInv, NEW r \in Run, NEW kind \in {"intake", "triage", "draft", "eval"}, Begin(r, kind)
  PROVE  IInv'
<1> DEFINE j == [NoJob EXCEPT !.kind = kind, !.triage = triage]
           p == IF kind = "draft" THEN "read_thread" ELSE "read_inbound"
<1>1. /\ pc[r] = "idle" /\ Goto(r, p) /\ job' = [job EXCEPT ![r] = j]
      /\ UNCHANGED <<rows, world, retriaged>>
  BY DEF Begin
<1>2. /\ j.kind = kind /\ j.triage = triage /\ j.flagged = FALSE /\ j.blocked = FALSE
      /\ j.score = "none" /\ j.answer = Template
  BY DEF NoJob
<1>3. j \in Job /\ p \in Steps
  <2>1. TypeOK /\ NoJob \in Job
    BY NoJobIsJob, JobsTyped
  <2>2. triage \in [category : Category \cup {"none"}, escalate : BOOLEAN]
    BY <2>1 DEF TypeOK
  <2>3. QED
    BY <2>1, <2>2 DEF Job, Steps, ToTriage, ToDraft
<1> HIDE DEF j
<1>4. RunOk(r, p, j)
  BY <1>2 DEF RunOk, RunsOnce, BlocksFully, Vetted, UpToDate, Escalates, Template,
              Over, ToTriage, Classified, ToDraft, Scanned, Stored
<1>5. QED
  BY <1>1, <1>3, <1>4, OwnStep DEF rows

\* A run that gives up holds nothing.
LEMMA FailsKeeps ==
  ASSUME IInv, NEW r \in Run, Goto(r, "failed"), job' = [job EXCEPT ![r] = NoJob],
         UNCHANGED <<rows, world, retriaged>>
  PROVE  IInv'
<1>1. RunOk(r, "failed", NoJob)
  BY DEF RunOk, RunsOnce, BlocksFully, Vetted, UpToDate, Escalates, NoJob, Template,
         Over, ToTriage, Classified, ToDraft, Scanned, Stored
<1>2. NoJob \in Job /\ "failed" \in Steps /\ NoJob.kind = "none"
  BY NoJobIsJob, JobsTyped DEF Steps, Over, NoJob
<1>3. QED
  BY <1>1, <1>2, OwnStep DEF rows

\* Attempts, documents found and texts seen do not matter to what is kept.
LEMMA ViewMatters ==
  ASSUME NEW r, NEW p, NEW k, NEW j, RunOk(r, p, k),
         j.kind = k.kind, j.triage = k.triage, j.flagged = k.flagged, j.blocked = k.blocked,
         j.score = k.score, j.answer = k.answer, j.draft = k.draft
  PROVE  RunOk(r, p, j)
BY DEF RunOk, RunsOnce, BlocksFully, Vetted, UpToDate, Escalates

LEMMA RequestFailsKeeps == ASSUME IInv, NEW r \in Run, RequestFails(r) PROVE IInv'
<1> DEFINE j == [job[r] EXCEPT !.tries = @ + 1]
<1>1. /\ job[r] \in Job /\ pc[r] \in Steps /\ RunOk(r, pc[r], job[r])
      /\ job[r].tries < MaxRetries /\ UNCHANGED <<rows, world, retriaged, pc>>
      /\ job' = [job EXCEPT ![r] = j] /\ Goto(r, pc[r])
  BY JobsTyped DEF RequestFails, Goto
<1>2. j \in Job
  <2>1. job[r].tries + 1 \in 0 .. MaxRetries
    BY <1>1 DEF Job
  <2>2. QED
    BY <1>1, <2>1 DEF Job
<1>4. /\ j.kind = job[r].kind /\ j.triage = job[r].triage /\ j.flagged = job[r].flagged
      /\ j.blocked = job[r].blocked /\ j.score = job[r].score
  BY <1>1 DEF Job
<1>5. j.answer = job[r].answer /\ j.draft = job[r].draft
  BY <1>1 DEF Job
<1> HIDE DEF j
<1>6. RunOk(r, pc[r], j)
  BY <1>1, <1>4, <1>5, ViewMatters
<1>7. QED
  BY <1>1, <1>2, <1>4, <1>6, OwnStep DEF rows

\* A run that is blocked on its way from the model's answer.
LEMMA BlockedOk ==
  ASSUME IInv, NEW r \in Run, NEW p \in {"reread_kb", "read_org", "insert"}, NEW j,
         pc[r] \in {"draft_call", "reread_kb", "read_org", "judge_call"},
         j.kind = job[r].kind, j.triage = job[r].triage, j.flagged = job[r].flagged,
         j.blocked, j.score = job[r].score, j.answer = Template
  PROVE  RunOk(r, p, j)
<1>1. RunOk(r, pc[r], job[r]) /\ kb \in [Doc -> Entry]
  BY JobsTyped DEF TypeOK
<1>2. ~ IsInternal(Template.body)
  BY <1>1 DEF IsInternal, Template, Entry, Absent
<1>3. Template.body = "template" /\ Template.actions = {} /\ Template.resolution = "escalated"
  BY DEF Template
<1>4. pc[r] \notin Over /\ pc[r] # "done" /\ p \notin Over /\ p \notin Stored /\ p # "done"
  BY DEF Over, Stored
<1>5. RunsOnce(r, p, j) /\ BlocksFully(r, p, j)
  BY <1>1, <1>3, <1>4 DEF RunOk, RunsOnce, BlocksFully, ToTriage, Classified, ToDraft
<1>6. Vetted(r, p, j)
  BY <1>3 DEF Vetted, Leaks
<1>7. UpToDate(r, p, j) /\ Escalates(r, p, j)
  BY <1>1, <1>2, <1>3, <1>4 DEF RunOk, UpToDate, Escalates, ToDraft, Scanned
<1>8. QED
  BY <1>5, <1>6, <1>7 DEF RunOk

LEMMA CallThrowsKeeps == ASSUME IInv, NEW r \in Run, CallThrows(r) PROVE IInv'
BY FailsKeeps DEF CallThrows

LEMMA QueryThrowsKeeps == ASSUME IInv, NEW r \in Run, QueryThrows(r) PROVE IInv'
BY FailsKeeps DEF QueryThrows

LEMMA UnusableKeeps == ASSUME IInv, NEW r \in Run, Unusable(r) PROVE IInv'
<1>1. /\ job[r] \in Job /\ pc[r] \in Steps /\ RunOk(r, pc[r], job[r])
      /\ UNCHANGED <<rows, world, retriaged>>
  BY JobsTyped DEF Unusable
<1>2. CASE AttemptLeft(r) /\ AnotherAttempt(r) /\ UNCHANGED pc
  <2> DEFINE j == [job[r] EXCEPT !.attempt = @ + 1, !.tries = 0]
  <2>1. job' = [job EXCEPT ![r] = j] /\ Goto(r, pc[r]) /\ job[r].attempt = 0
    BY <1>2, JobsTyped DEF AnotherAttempt, AttemptLeft, Goto
  <2>2. job[r].attempt + 1 \in 0 .. 1 /\ 0 \in 0 .. MaxRetries
    BY <2>1
  <2>3. j \in Job
    BY <1>1, <2>2 DEF Job
  <2>4. /\ j.kind = job[r].kind /\ j.triage = job[r].triage /\ j.flagged = job[r].flagged
        /\ j.blocked = job[r].blocked /\ j.score = job[r].score /\ j.answer = job[r].answer
        /\ j.draft = job[r].draft
    BY <1>1 DEF Job
  <2> HIDE DEF j
  <2>5. RunOk(r, pc[r], j)
    BY <1>1, <2>4, ViewMatters
  <2>6. QED
    BY <1>1, <2>1, <2>3, <2>4, <2>5, OwnStep DEF rows
<1>3. CASE pc[r] = "triage_call" /\ Goto(r, "log_failed") /\ job' = [job EXCEPT ![r] = Reset(@)]
  <2> DEFINE j == Reset(job[r])
  <2>1. /\ j.kind = job[r].kind /\ j.triage = job[r].triage /\ j.flagged = job[r].flagged
        /\ j.blocked = job[r].blocked /\ j.score = job[r].score /\ j.answer = job[r].answer
        /\ j.draft = job[r].draft /\ j \in Job /\ job' = [job EXCEPT ![r] = j]
    BY <1>3, Resets
  <2> HIDE DEF j
  <2>2. RunOk(r, "log_failed", job[r])
    BY <1>1, <1>3 DEF RunOk, RunsOnce, BlocksFully, Vetted, UpToDate, Escalates,
                      Over, ToTriage, Classified, ToDraft, Scanned, Stored
  <2>3. RunOk(r, "log_failed", j) /\ "log_failed" \in Steps
    BY <2>1, <2>2, ViewMatters DEF Steps
  <2>4. QED
    BY <1>1, <1>3, <2>1, <2>3, OwnStep DEF rows
<1>4. ASSUME NEW p \in {"reread_kb", "insert"}, pc[r] \in {"draft_call", "judge_call"}, Goto(r, p),
             job' = [job EXCEPT ![r] = Block(@)]
      PROVE  IInv'
  <2> DEFINE j == Block(job[r])
  <2>1. /\ j.kind = job[r].kind /\ j.triage = job[r].triage /\ j.flagged = job[r].flagged
        /\ j.blocked /\ j.score = job[r].score /\ j.answer = Template
        /\ j \in Job /\ job' = [job EXCEPT ![r] = j]
    BY <1>4, Blocks
  <2> HIDE DEF j
  <2>2. RunOk(r, p, j)
    BY <1>1, <1>4, <2>1, BlockedOk
  <2>3. QED
    BY <1>1, <1>4, <2>1, <2>2, OwnStep DEF rows, Steps, Scanned
<1>5. QED
  BY <1>2, <1>3, <1>4 DEF Unusable

\* ----- the steps of a run ------------------------------------------------
LEMMA SidewaysOk ==
  ASSUME NEW r, NEW p, NEW q, NEW j, RunOk(r, p, j),
         \/ p \in ToDraft /\ q \in ToDraft
         \/ p \in Classified /\ q \in Classified
  PROVE  RunOk(r, q, j)
BY DEF RunOk, RunsOnce, BlocksFully, Vetted, UpToDate, Escalates,
       Over, ToTriage, Classified, ToDraft, Scanned, Stored

LEMMA ReadInboundKeeps == ASSUME IInv, NEW r \in Run, ReadInbound(r) PROVE IInv'
<1>1. /\ job[r] \in Job /\ job \in [Run -> Job] /\ RunOk(r, pc[r], job[r])
      /\ UNCHANGED <<rows, world, retriaged>>
  BY JobsTyped DEF ReadInbound
<1>2. CASE pc[r] = "read_inbound"
  <2> DEFINE j == [job[r] EXCEPT !.flagged = (latest = "flagged")]
  <2>1. Goto(r, "triage_call") /\ job' = [job EXCEPT ![r] = j]
    BY <1>2, <1>1 DEF ReadInbound
  <2>2. (latest = "flagged") \in BOOLEAN
    OBVIOUS
  <2>3. j \in Job
    BY <1>1, <2>2 DEF Job
  <2>4. /\ j.kind = job[r].kind /\ j.blocked = job[r].blocked /\ j.score = job[r].score
        /\ j.answer = job[r].answer
    BY <1>1 DEF Job
  <2> HIDE DEF j
  <2>5. RunOk(r, "triage_call", j)
    BY <1>1, <1>2, <2>4 DEF RunOk, RunsOnce, BlocksFully, Vetted, UpToDate, Escalates,
                            Over, ToTriage, Classified, ToDraft, Scanned, Stored
  <2>6. QED
    BY <1>1, <2>1, <2>3, <2>4, <2>5, OwnStep DEF rows, Steps, ToTriage
<1>3. CASE pc[r] = "read_thread"
  <2>1. Goto(r, "search") /\ job' = [job EXCEPT ![r] = job[r]]
    BY <1>1, <1>3 DEF ReadInbound, Job
  <2>2. RunOk(r, "search", job[r])
    <3>1. RunOk(r, "read_thread", job[r]) /\ "read_thread" \in ToDraft /\ "search" \in ToDraft
      BY <1>1, <1>3 DEF ToDraft
    <3>2. QED
      BY <3>1, SidewaysOk
  <2>3. QED
    BY <1>1, <2>1, <2>2, OwnStep DEF rows, Steps, ToDraft
<1>4. QED
  BY <1>2, <1>3 DEF ReadInbound

LEMMA TriageAnsweredKeeps == ASSUME IInv, NEW r \in Run, TriageAnswered(r) PROVE IInv'
<1>1. /\ pc[r] = "triage_call" /\ RunOk(r, pc[r], job[r]) /\ job[r] \in Job
      /\ Goto(r, "save_triage") /\ UNCHANGED <<rows, world, retriaged>>
  BY JobsTyped DEF TriageAnswered
<1>2. PICK answer \in TriageAnswers \ {Invalid} :
        job' = [job EXCEPT ![r] = [Reset(@) EXCEPT !.triage = Override(answer, job[r].flagged)]]
  BY DEF TriageAnswered
<1> DEFINE t == Override(answer, job[r].flagged)
           k == Reset(job[r])
           j == [k EXCEPT !.triage = t]
<1>3. /\ t \in [category : Category \cup {"none"}, escalate : BOOLEAN]
      /\ job[r].flagged => t.escalate
  BY DEF Override, Triaged
<1>4. /\ k \in Job /\ k.kind = job[r].kind /\ k.flagged = job[r].flagged
      /\ k.blocked = job[r].blocked /\ k.score = job[r].score /\ k.answer = job[r].answer
  BY Resets
<1>5. job' = [job EXCEPT ![r] = j]
  BY <1>2
<1> HIDE DEF t, k
<1>6. /\ j \in Job /\ j.triage = t /\ j.kind = job[r].kind /\ j.flagged = job[r].flagged
      /\ j.blocked = job[r].blocked /\ j.score = job[r].score /\ j.answer = job[r].answer
  BY <1>3, <1>4 DEF Job
<1> HIDE DEF j
<1>7. RunOk(r, "save_triage", j)
  BY <1>1, <1>3, <1>6 DEF RunOk, RunsOnce, BlocksFully, Vetted, UpToDate, Escalates,
                          Over, ToTriage, Classified, ToDraft, Scanned, Stored
<1>8. QED
  BY <1>1, <1>5, <1>6, <1>7, OwnStep DEF rows, Steps, Classified

LEMMA LogTriageKeeps == ASSUME IInv, NEW r \in Run, LogTriage(r) PROVE IInv'
<1> DEFINE p == IF job[r].kind = "triage" THEN "done" ELSE "reread"
<1>1. /\ pc[r] = "log_triage" /\ RunOk(r, pc[r], job[r]) /\ job[r] \in Job
      /\ Goto(r, p) /\ UNCHANGED <<triage, drafts, sent, world, retriaged>>
      /\ job' = [job EXCEPT ![r] = job[r]]
  BY JobsTyped DEF LogTriage
<1>2. RunOk(r, p, job[r])
  BY <1>1 DEF RunOk, RunsOnce, BlocksFully, Vetted, UpToDate, Escalates,
              Over, ToTriage, Classified, ToDraft, Scanned, Stored
<1>3. QED
  BY <1>1, <1>2, OwnStep DEF Steps, Over, Classified

LEMMA LogFailedKeeps == ASSUME IInv, NEW r \in Run, LogFailed(r) PROVE IInv'
<1> DEFINE sc == IF job[r].score = "none" /\ job[r].kind = "eval" THEN "failed" ELSE job[r].score
           j == [job[r] EXCEPT !.score = sc]
<1>1. /\ pc[r] = "log_failed" /\ RunOk(r, pc[r], job[r]) /\ job[r] \in Job
      /\ Goto(r, "done") /\ UNCHANGED <<triage, drafts, sent, world, retriaged>>
      /\ job' = [job EXCEPT ![r] = j]
  BY JobsTyped DEF LogFailed
<1>2. job[r].score = "none" /\ sc \in {"none", "failed"} /\ (job[r].kind = "eval" => sc = "failed")
  BY <1>1 DEF RunOk, RunsOnce
<1> HIDE DEF sc
<1>3. /\ j \in Job /\ j.score = sc /\ j.kind = job[r].kind /\ j.flagged = job[r].flagged
      /\ j.blocked = job[r].blocked /\ j.answer = job[r].answer
  BY <1>1, <1>2 DEF Job
<1> HIDE DEF j
<1>4. RunOk(r, "done", j)
  BY <1>1, <1>2, <1>3 DEF RunOk, RunsOnce, BlocksFully, Vetted, UpToDate, Escalates,
                          Over, ToTriage, Classified, ToDraft, Scanned, Stored
<1>5. QED
  BY <1>1, <1>3, <1>4, OwnStep DEF Steps, Over

LEMMA RereadKeeps == ASSUME IInv, NEW r \in Run, Reread(r) PROVE IInv'
<1> DEFINE t == [category |-> triage.category, escalate |-> job[r].triage.escalate]
           j == [job[r] EXCEPT !.triage = t]
<1>1. /\ pc[r] = "reread" /\ RunOk(r, pc[r], job[r]) /\ job[r] \in Job /\ TypeOK
      /\ Goto(r, "read_thread") /\ UNCHANGED <<rows, world, retriaged>>
      /\ job' = [job EXCEPT ![r] = j]
  BY JobsTyped DEF Reread
<1>2. /\ t \in [category : Category \cup {"none"}, escalate : BOOLEAN]
      /\ t.category = triage.category /\ t.escalate = job[r].triage.escalate
  <2>1. triage.category \in Category \cup {"none"}
    BY <1>1 DEF TypeOK
  <2>2. QED
    BY <1>1, <2>1 DEF Job
<1> HIDE DEF t
<1>3. /\ j \in Job /\ j.triage = t /\ j.kind = job[r].kind /\ j.flagged = job[r].flagged
      /\ j.blocked = job[r].blocked /\ j.score = job[r].score /\ j.answer = job[r].answer
  BY <1>1, <1>2 DEF Job
<1> HIDE DEF j
<1>4. RunOk(r, "read_thread", j)
  BY <1>1, <1>2, <1>3 DEF RunOk, RunsOnce, BlocksFully, Vetted, UpToDate, Escalates,
                          Over, ToTriage, Classified, ToDraft, Scanned, Stored
<1>5. QED
  BY <1>1, <1>3, <1>4, OwnStep DEF rows, Steps, ToDraft

\* A step of the retrieval that takes ids or texts.
LEMMA RetrievalKeeps ==
  ASSUME IInv, NEW r \in Run, NEW p \in ToDraft, NEW j \in Job,
         pc[r] \in ToDraft, Goto(r, p), UNCHANGED <<rows, world, retriaged>>,
         job' = [job EXCEPT ![r] = j],
         j.kind = job[r].kind, j.triage = job[r].triage, j.flagged = job[r].flagged,
         j.blocked = job[r].blocked, j.score = job[r].score, j.answer = job[r].answer,
         j.draft = job[r].draft
  PROVE  IInv'
<1>1. job[r] \in Job /\ RunOk(r, pc[r], job[r])
  BY JobsTyped
<1>2. RunOk(r, p, j)
  <2>1. RunOk(r, p, job[r])
    BY <1>1, SidewaysOk
  <2>2. QED
    BY <2>1, ViewMatters
<1>3. QED
  BY <1>2, OwnStep DEF rows, Steps

LEMMA SearchKeeps == ASSUME IInv, NEW r \in Run, Search(r) PROVE IInv'
<1>1. job[r] \in Job /\ job \in [Run -> Job]
  BY JobsTyped
<1>2. PICK ids \in SUBSET Doc :
        /\ job' = [job EXCEPT ![r].ids = ids, ![r].asked = ids]
        /\ Goto(r, IF ids = {} THEN Retrieved(r) ELSE "fetch")
  BY DEF Search
<1> DEFINE j == [job[r] EXCEPT !.ids = ids, !.asked = ids]
<1>3. job' = [job EXCEPT ![r] = j]
  BY <1>2
<1>4. /\ j.kind = job[r].kind /\ j.triage = job[r].triage /\ j.flagged = job[r].flagged
      /\ j.blocked = job[r].blocked /\ j.score = job[r].score /\ j.answer = job[r].answer
      /\ j.draft = job[r].draft /\ j \in Job
  BY <1>1 DEF Job
<1> HIDE DEF j
<1>5. QED
  BY <1>2, <1>3, <1>4, RetrievalKeeps DEF Search, Retrieved, ToDraft

LEMMA FetchKeeps == ASSUME IInv, NEW r \in Run, Fetch(r) PROVE IInv'
<1>1. job[r] \in Job /\ job \in [Run -> Job]
  BY JobsTyped
<1>2. PICK x \in job[r].asked :
        /\ job' = [job EXCEPT ![r].asked = @ \ {x}, ![r].seen = @ \cup ({kb[x].text} \cap Text)]
        /\ Goto(r, IF job[r].asked = {x} THEN Retrieved(r) ELSE "fetch")
  BY DEF Fetch
<1> DEFINE left == job[r].asked \ {x}
           seen == job[r].seen \cup ({kb[x].text} \cap Text)
           j == [job[r] EXCEPT !.asked = left, !.seen = seen]
<1>3. job' = [job EXCEPT ![r] = j]
  BY <1>2
<1>4. left \in SUBSET Doc /\ seen \in SUBSET Text
  BY <1>1 DEF Job
<1> HIDE DEF left, seen
<1>5. /\ j.kind = job[r].kind /\ j.triage = job[r].triage /\ j.flagged = job[r].flagged
      /\ j.blocked = job[r].blocked /\ j.score = job[r].score /\ j.answer = job[r].answer
      /\ j.draft = job[r].draft /\ j \in Job
  BY <1>1, <1>4 DEF Job
<1> HIDE DEF j
<1>6. QED
  BY <1>2, <1>3, <1>5, RetrievalKeeps DEF Fetch, Retrieved, ToDraft

LEMMA SimilarKeeps == ASSUME IInv, NEW r \in Run, SimilarResolutions(r) PROVE IInv'
<1>1. job[r] \in Job /\ job \in [Run -> Job]
  BY JobsTyped
<1>2. PICK found \in SUBSET Text : job' = [job EXCEPT ![r].seen = job[r].seen \cup found]
  BY DEF SimilarResolutions
<1> DEFINE seen == job[r].seen \cup found
           j == [job[r] EXCEPT !.seen = seen]
<1>3. job' = [job EXCEPT ![r] = j]
  BY <1>2
<1>4. seen \in SUBSET Text
  BY <1>1 DEF Job
<1> HIDE DEF seen
<1>5. /\ j.kind = job[r].kind /\ j.triage = job[r].triage /\ j.flagged = job[r].flagged
      /\ j.blocked = job[r].blocked /\ j.score = job[r].score /\ j.answer = job[r].answer
      /\ j.draft = job[r].draft /\ j \in Job
  BY <1>1, <1>4 DEF Job
<1> HIDE DEF j
<1>6. QED
  BY <1>3, <1>5, RetrievalKeeps DEF SimilarResolutions, ToDraft

LEMMA DraftAnsweredKeeps == ASSUME IInv, NEW r \in Run, DraftAnswered(r) PROVE IInv'
<1>1. /\ pc[r] = "draft_call" /\ RunOk(r, pc[r], job[r]) /\ job[r] \in Job
      /\ Goto(r, "reread_kb") /\ UNCHANGED <<rows, world, retriaged>>
  BY JobsTyped DEF DraftAnswered
<1>2. PICK answer \in DraftAnswers \ {Invalid} :
        \E body \in IF answer.body = "quote" THEN job[r].seen ELSE {answer.body} :
          job' = [job EXCEPT ![r] = [Reset(@) EXCEPT !.seen = {},
                                                     !.answer = [answer EXCEPT !.body = body]]]
  BY DEF DraftAnswered
<1>3. PICK body \in IF answer.body = "quote" THEN job[r].seen ELSE {answer.body} :
        job' = [job EXCEPT ![r] = [Reset(@) EXCEPT !.seen = {},
                                                   !.answer = [answer EXCEPT !.body = body]]]
  BY <1>2
<1> DEFINE d == [answer EXCEPT !.body = body]
           k == Reset(job[r])
           j == [k EXCEPT !.seen = {}, !.answer = d]
<1>4. answer \in RawDraft /\ body \in Sort \cup Text
  BY <1>1, <1>2, <1>3 DEF RawDraft, Job
<1>5. d \in Answer /\ d.body # "template"
  <2>1. d.body = body /\ body \in Body /\ body # "template"
    BY <1>4 DEF Body, Sort, RawDraft
  <2>2. QED
    BY <1>4, <2>1 DEF RawDraft, Answer
<1>6. /\ k \in Job /\ k.kind = job[r].kind /\ k.triage = job[r].triage
      /\ k.flagged = job[r].flagged /\ k.blocked = job[r].blocked /\ k.score = job[r].score
  BY Resets
<1>7. job' = [job EXCEPT ![r] = j]
  BY <1>3
<1> HIDE DEF d, k
<1>8. /\ j \in Job /\ j.answer = d /\ j.kind = job[r].kind /\ j.triage = job[r].triage
      /\ j.flagged = job[r].flagged /\ j.blocked = job[r].blocked /\ j.score = job[r].score
  BY <1>5, <1>6 DEF Job
<1> HIDE DEF j
<1>9. RunOk(r, "reread_kb", j)
  BY <1>1, <1>5, <1>8 DEF RunOk, RunsOnce, BlocksFully, Vetted, UpToDate, Escalates,
                          Over, ToTriage, Classified, ToDraft, Scanned, Stored
<1>10. QED
  BY <1>1, <1>7, <1>8, <1>9, OwnStep DEF rows, Steps

\* What passes the output scan, with the actions that are left.
LEMMA ScanOutputKeeps == ASSUME IInv, NEW r \in Run, ScanOutput(r) PROVE IInv'
<1> DEFINE d == job[r].answer
           acts == SanitizedActions(d, job[r].triage.category)
<1>1. /\ pc[r] = "reread_kb" /\ RunOk(r, "reread_kb", job[r]) /\ job[r] \in Job
      /\ UNCHANGED <<rows, world, retriaged>> /\ job \in [Run -> Job]
  BY JobsTyped DEF ScanOutput
<1>2. ASSUME NEW p \in {"insert", "read_org"}, Goto(r, p), NEW j \in Job, job' = [job EXCEPT ![r] = j],
             j.kind = job[r].kind, j.triage = job[r].triage, j.flagged = job[r].flagged,
             j.blocked, j.score = job[r].score, j.answer = Template
      PROVE  IInv'
  <2>1. RunOk(r, p, j)
    BY <1>1, <1>2, BlockedOk
  <2>2. QED
    BY <1>1, <1>2, <2>1, OwnStep DEF rows, Steps, Scanned
<1>3. CASE job[r].blocked /\ Goto(r, "insert") /\ UNCHANGED job
  <2>1. job' = [job EXCEPT ![r] = job[r]] /\ job[r].answer = Template
    BY <1>1, <1>3 DEF RunOk, BlocksFully
  <2>2. QED
    BY <1>1, <1>2, <1>3, <2>1
<1>4. CASE Goto(r, "read_org") /\ job' = [job EXCEPT ![r] = Block(@)]
  <2> DEFINE j == Block(job[r])
  <2>1. /\ j.kind = job[r].kind /\ j.triage = job[r].triage /\ j.flagged = job[r].flagged
        /\ j.blocked /\ j.score = job[r].score /\ j.answer = Template
        /\ j \in Job /\ job' = [job EXCEPT ![r] = j]
    BY <1>4, Blocks
  <2> HIDE DEF j
  <2>2. QED
    BY <1>2, <1>4, <2>1
<1>5. CASE /\ ~job[r].blocked /\ Goto(r, "read_org") /\ OutputScan(d, job[r].ids)
           /\ job' = [job EXCEPT ![r] = [job[r] EXCEPT !.answer.actions = acts]]
  <2> DEFINE j == [job[r] EXCEPT !.answer.actions = acts]
  <2>1. job' = [job EXCEPT ![r] = j]
    BY <1>5
  <2>2. /\ d \in Answer /\ acts \subseteq d.actions
        /\ \A a \in acts : a.tool \in Catalog /\ job[r].triage.category \in AllowedIn[a.tool]
    BY <1>1 DEF Job, SanitizedActions, Valid
  <2>3. /\ ~job[r].blocked /\ ~IsInternal(d.body) /\ d.body \notin Leaks \ {"policy"}
    BY <1>5 DEF OutputScan, InternalLeak, FailClosed, Leaks, IsInternal
  <2> HIDE DEF acts
  <2>4. /\ j.answer = [d EXCEPT !.actions = acts] /\ j.kind = job[r].kind
        /\ j.triage = job[r].triage /\ j.flagged = job[r].flagged
        /\ j.blocked = job[r].blocked /\ j.score = job[r].score
    BY <1>1 DEF Job
  <2>5. /\ j.answer \in Answer /\ j.answer.body = d.body /\ j.answer.actions = acts
        /\ j.answer.resolution = d.resolution
    BY <2>2, <2>4 DEF Answer
  <2>6. j \in Job
    BY <1>1, <2>4, <2>5 DEF Job
  <2> HIDE DEF j
  <2>7. RunsOnce(r, "read_org", j)
    BY <1>1, <2>4 DEF RunOk, RunsOnce, Over
  <2>8. BlocksFully(r, "read_org", j)
    BY <1>1, <2>3, <2>4, <2>5
    DEF RunOk, BlocksFully, ToTriage, Classified, ToDraft, Stored
  <2>9. Vetted(r, "read_org", j)
    BY <2>2, <2>3, <2>5 DEF Vetted
  <2>10. UpToDate(r, "read_org", j)
    BY <1>1, <2>2, <2>3, <2>4, <2>5 DEF RunOk, UpToDate, Fits, Scanned
  <2>11. Escalates(r, "read_org", j)
    BY <1>1, <2>4 DEF RunOk, Escalates, Scanned
  <2>12. QED
    BY <1>1, <1>5, <2>1, <2>4, <2>6, <2>7, <2>8, <2>9, <2>10, <2>11, OwnStep
    DEF rows, RunOk, Steps, Scanned
<1>6. QED
  BY <1>3, <1>4, <1>5 DEF ScanOutput

\* What passes the rules of the org as well.
LEMMA ScanPolicyKeeps == ASSUME IInv, NEW r \in Run, ScanPolicy(r) PROVE IInv'
<1> DEFINE passed == ~job[r].blocked /\ OrgPolicyScan(job[r].answer)
           p == IF passed /\ Judged(r) THEN "judge_call" ELSE "insert"
<1>1. /\ pc[r] = "read_org" /\ RunOk(r, "read_org", job[r]) /\ job[r] \in Job
      /\ Goto(r, p) /\ UNCHANGED <<rows, world, retriaged>> /\ job \in [Run -> Job]
  BY JobsTyped DEF ScanPolicy
<1>2. CASE ~passed
  <2> DEFINE j == Block(job[r])
  <2>1. /\ j.kind = job[r].kind /\ j.triage = job[r].triage /\ j.flagged = job[r].flagged
        /\ j.blocked /\ j.score = job[r].score /\ j.answer = Template
        /\ j \in Job /\ job' = [job EXCEPT ![r] = j]
    BY <1>2, Blocks DEF ScanPolicy
  <2> HIDE DEF j
  <2>2. RunOk(r, "insert", j)
    BY <1>1, <2>1, BlockedOk
  <2>3. QED
    BY <1>1, <1>2, <2>1, <2>2, OwnStep DEF rows, Steps, Scanned
<1>3. CASE passed
  <2>1. job' = [job EXCEPT ![r] = job[r]]
    BY <1>3 DEF ScanPolicy
  <2>2. ~job[r].blocked /\ job[r].answer.body # "policy" /\ p \in {"judge_call", "insert"}
        /\ (p = "judge_call" <=> job[r].kind # "eval")
    BY <1>3 DEF OrgPolicyScan, Judged
  <2> HIDE DEF p
  <2>3. RunsOnce(r, p, job[r])
    BY <1>1, <2>2 DEF RunOk, RunsOnce, Over
  <2>4. BlocksFully(r, p, job[r])
    BY <1>1, <2>2 DEF RunOk, BlocksFully, ToTriage, Classified, ToDraft, Stored
  <2>5. Vetted(r, p, job[r])
    BY <1>1, <2>2 DEF RunOk, Vetted, Scanned
  <2>6. UpToDate(r, p, job[r])
    BY <1>1, <2>2 DEF RunOk, UpToDate, Scanned
  <2>7. Escalates(r, p, job[r])
    BY <1>1, <2>2 DEF RunOk, Escalates, Scanned
  <2>8. QED
    BY <1>1, <2>1, <2>2, <2>3, <2>4, <2>5, <2>6, <2>7, OwnStep
    DEF rows, RunOk, Steps, Scanned
<1>4. QED
  BY <1>2, <1>3

LEMMA JudgeKeeps == ASSUME IInv, NEW r \in Run, Judge(r) PROVE IInv'
<1>1. /\ pc[r] = "judge_call" /\ RunOk(r, pc[r], job[r]) /\ job[r] \in Job
      /\ Goto(r, "insert") /\ UNCHANGED <<rows, world, retriaged>>
  BY JobsTyped DEF Judge
<1>2. CASE job' = [job EXCEPT ![r] = Block(@)]
  <2> DEFINE j == Block(job[r])
  <2>1. /\ j.kind = job[r].kind /\ j.triage = job[r].triage /\ j.flagged = job[r].flagged
        /\ j.blocked /\ j.score = job[r].score /\ j.answer = Template
        /\ j \in Job /\ job' = [job EXCEPT ![r] = j]
    BY <1>2, Blocks
  <2> HIDE DEF j
  <2>2. RunOk(r, "insert", j)
    BY <1>1, <2>1, BlockedOk
  <2>3. QED
    BY <1>1, <2>1, <2>2, OwnStep DEF rows, Steps, Scanned
<1>3. CASE job[r].answer.body # "tone" /\ job' = [job EXCEPT ![r] = Reset(@)]
  <2> DEFINE j == Reset(job[r])
  <2>1. /\ j.kind = job[r].kind /\ j.triage = job[r].triage /\ j.flagged = job[r].flagged
        /\ j.blocked = job[r].blocked /\ j.score = job[r].score /\ j.answer = job[r].answer
        /\ j.draft = job[r].draft /\ j \in Job /\ job' = [job EXCEPT ![r] = j]
    BY <1>3, Resets
  <2> HIDE DEF j
  <2>2. RunOk(r, "insert", job[r])
    BY <1>1, <1>3 DEF RunOk, RunsOnce, BlocksFully, Vetted, UpToDate, Escalates,
                      Over, ToTriage, Classified, ToDraft, Scanned, Stored
  <2>3. RunOk(r, "insert", j)
    BY <2>1, <2>2, ViewMatters
  <2>4. QED
    BY <1>1, <2>1, <2>3, OwnStep DEF rows, Steps, Scanned
<1>4. QED
  BY <1>2, <1>3 DEF Judge, Verdict

LEMMA LogDraftKeeps == ASSUME IInv, NEW r \in Run, LogDraft(r) PROVE IInv'
<1> DEFINE p == IF job[r].kind = "eval" THEN "score" ELSE "auto_send"
<1>1. /\ pc[r] = "log_draft" /\ RunOk(r, pc[r], job[r]) /\ job[r] \in Job
      /\ Goto(r, p) /\ UNCHANGED <<triage, drafts, sent, world, retriaged>>
      /\ job' = [job EXCEPT ![r] = job[r]]
  BY JobsTyped DEF LogDraft
<1>2. RunOk(r, p, job[r])
  BY <1>1 DEF RunOk, RunsOnce, BlocksFully, Vetted, UpToDate, Escalates,
              Over, ToTriage, Classified, ToDraft, Scanned, Stored
<1>3. QED
  BY <1>1, <1>2, OwnStep DEF Steps, Stored

LEMMA ScoreCaseKeeps == ASSUME IInv, NEW r \in Run, ScoreCase(r) PROVE IInv'
<1> DEFINE sc == IF Escalated(r) THEN "escalated" ELSE "handled"
           j == [job[r] EXCEPT !.score = sc]
<1>1. /\ pc[r] = "score" /\ RunOk(r, pc[r], job[r]) /\ job[r] \in Job
      /\ Goto(r, "done") /\ UNCHANGED <<rows, world, retriaged>>
      /\ job' = [job EXCEPT ![r] = j]
  BY JobsTyped DEF ScoreCase
<1>2. /\ sc \in {"escalated", "handled"}
      /\ job[r].kind = "eval" /\ (job[r].flagged \/ job[r].blocked) => sc = "escalated"
  BY <1>1 DEF RunOk, BlocksFully, Escalates, Stored, Escalated
<1> HIDE DEF sc
<1>3. /\ j \in Job /\ j.score = sc /\ j.kind = job[r].kind /\ j.flagged = job[r].flagged
      /\ j.blocked = job[r].blocked /\ j.answer = job[r].answer
  BY <1>1, <1>2 DEF Job
<1> HIDE DEF j
<1>4. RunOk(r, "done", j)
  BY <1>1, <1>2, <1>3 DEF RunOk, RunsOnce, BlocksFully, Vetted, UpToDate, Escalates,
                          Over, ToTriage, Classified, ToDraft, Scanned, Stored
<1>5. QED
  BY <1>1, <1>3, <1>4, OwnStep DEF rows, Steps, Over

LEMMA AutoSendKeeps == ASSUME IInv, NEW r \in Run, AutoSend(r) PROVE IInv'
<1>1. /\ pc[r] = "auto_send" /\ RunOk(r, pc[r], job[r]) /\ job[r] \in Job
      /\ TypeOK /\ RowsOk /\ AutoSentIsSafe /\ sent \subseteq 1 .. Len(drafts)
      /\ Goto(r, "done") /\ UNCHANGED <<triage, drafts, agentRuns, world, retriaged, job>>
  BY JobsTyped DEF AutoSend, IInv
<1>2. RunOk(r, "done", job[r])
  BY <1>1 DEF RunOk, RunsOnce, BlocksFully, Vetted, UpToDate, Escalates,
              Over, ToTriage, Classified, ToDraft, Scanned, Stored
<1>3. CASE UNCHANGED sent
  BY <1>1, <1>2, <1>3, OwnStep, JobsTyped DEF Steps, Over
<1>4. CASE EvaluateAutoSend(drafts[job[r].draft]) /\ sent' = sent \cup {job[r].draft}
  <2> DEFINE n == job[r].draft
  <2>1. /\ n \in 1 .. Len(drafts) /\ drafts[n].run = r /\ job[r].kind \notin {"eval", "none"}
    BY <1>1 DEF RunOk, BlocksFully, RunsOnce, Stored, Over
  <2>2. /\ drafts[n].resolution = "answered" /\ drafts[n].body \notin {"template", "tone"}
        /\ \A a \in drafts[n].actions : a.tool \notin Gated
    BY <1>1, <1>4, <2>1 DEF RowsOk, EvaluateAutoSend
  <2>3. AutoSentIsSafe' /\ sent' \subseteq 1 .. Len(drafts)
    BY <1>1, <1>4, <2>1, <2>2 DEF AutoSentIsSafe
  <2>4. job' = [job EXCEPT ![r] = job[r]] /\ pc' = [pc EXCEPT ![r] = "done"] /\ "done" \in Steps
    BY <1>1, JobsTyped DEF Goto, Steps, Over
  <2>5. QED
    BY <1>1, <1>2, <2>3, <2>4, LocalStep DEF world
<1>5. QED
  BY <1>3, <1>4 DEF AutoSend

\* ----- steps that others can see -----------------------------------------
LEMMA ClassifiedOk ==
  ASSUME IInv, NEW r \in Run, pc[r] = "save_triage", UNCHANGED <<drafts, job>>
  PROVE  RunOk(r, "log_triage", job[r])'
<1>1. RunOk(r, "save_triage", job[r])
  BY JobsTyped
<1>2. RunsOnce(r, "log_triage", job[r])' /\ BlocksFully(r, "log_triage", job[r])'
  BY <1>1 DEF RunOk, RunsOnce, BlocksFully, Over, ToTriage, Classified, ToDraft, Stored
<1>3. Vetted(r, "log_triage", job[r])' /\ UpToDate(r, "log_triage", job[r])'
  BY DEF Vetted, UpToDate, Scanned, ToDraft
<1>4. Escalates(r, "log_triage", job[r])'
  BY <1>1 DEF RunOk, Escalates, Classified
<1>5. QED
  BY <1>2, <1>3, <1>4 DEF RunOk

\* A run that stores its triage makes every other one in flight out of date.
LEMMA SaveTriageKeeps == ASSUME IInv, NEW r \in Run, SaveTriage(r) PROVE IInv'
<1>1. /\ pc[r] = "save_triage" /\ triage' = job[r].triage /\ TypeOK /\ pc \in [Run -> Steps]
      /\ pc' = [pc EXCEPT ![r] = "log_triage"] /\ retriaged' = retriaged \cup (InFlight \ {r})
      /\ UNCHANGED <<drafts, sent, agentRuns, kb, latest, changes, reingested, job>>
      /\ job[r] \in Job
  BY JobsTyped DEF SaveTriage, Goto, world
<1>2. pc'[r] = "log_triage" /\ \A q \in Run \ {r} : pc'[q] = pc[q]
  BY <1>1
<1>3. ASSUME NEW q \in Run PROVE RunOk(q, pc[q], job[q])'
  <2> UNCHANGED <<drafts, kb, reingested, job>>
    BY <1>1
  <2>1. RunOk(q, pc[q], job[q])
    BY JobsTyped
  <2>2. CASE q = r
    <3>1. RunOk(q, "log_triage", job[q])'
      BY <1>1, <2>1, <2>2, ClassifiedOk
    <3>2. QED
      BY <1>2, <2>2, <3>1 DEF RunOk
  <2>3. CASE q # r /\ pc[q] \in Over
    <3>1. pc'[q] = pc[q]
      BY <1>2, <2>3
    <3>2. QED
      BY <2>1, <2>3, <3>1 DEF RunOk, RunsOnce, BlocksFully, Vetted, UpToDate, Escalates,
       Over, ToTriage, Classified, ToDraft, Scanned, Stored
  <2>4. CASE q # r /\ pc[q] \notin Over
    <3>1. q \in retriaged' /\ pc'[q] = pc[q]
      BY <1>1, <1>2, <2>4 DEF InFlight, Over
    <3>2. UpToDate(q, pc[q], job[q])'
      BY <2>1, <3>1 DEF RunOk, UpToDate, IsInternal
    <3>3. QED
      BY <2>1, <3>1, <3>2 DEF RunOk, RunsOnce, BlocksFully, Vetted, Escalates
  <2>5. QED
    BY <2>2, <2>3, <2>4
<1>4. TypeOK' /\ pc' \in [Run -> Steps]
  <2>1. job[r].triage \in [category : Category \cup {"none"}, escalate : BOOLEAN]
    BY <1>1 DEF Job
  <2>2. InFlight \subseteq Run
    BY DEF InFlight
  <2>3. retriaged' \subseteq Run
    BY <1>1, <2>2 DEF TypeOK
  <2>4. QED
    BY <1>1, <2>1, <2>3 DEF TypeOK, Job, Steps, Classified
<1>5. RowsOk' /\ AutoSentIsSafe'
  BY <1>1 DEF IInv, RowsOk, AutoSentIsSafe
<1>6. QED
  BY <1>1, <1>3, <1>4, <1>5 DEF IInv

\* A run that stores its draft.
LEMMA InsertDraftKeeps == ASSUME IInv, NEW r \in Run, InsertDraft(r) PROVE IInv'
<1> DEFINE d == job[r].answer
           row == [run |-> r, body |-> d.body, cites |-> d.cites,
                   resolution |-> d.resolution, actions |-> Recommended(d.actions)]
           n == Len(drafts) + 1
           j == [job[r] EXCEPT !.draft = n, !.ids = {}, !.answer = Template]
<1>1. /\ pc[r] = "insert" /\ RunOk(r, pc[r], job[r]) /\ job[r] \in Job /\ job \in [Run -> Job]
      /\ TypeOK /\ pc \in [Run -> Steps] /\ RowsOk /\ AutoSentIsSafe
      /\ pc' = [pc EXCEPT ![r] = "log_draft"] /\ drafts' = Append(drafts, row)
      /\ UNCHANGED <<triage, sent, agentRuns, kb, latest, changes, reingested, retriaged>>
      /\ job' = [job EXCEPT ![r] = j]
  BY JobsTyped DEF InsertDraft, Goto, world, IInv
<1>2. d \in Answer /\ Len(drafts) \in Nat /\ drafts \in Seq(Row)
  BY <1>1 DEF Job, TypeOK
<1>3. /\ \A a \in d.actions : a.tool \in Catalog
      /\ \A a \in Recommended(d.actions) :
           /\ \E b \in d.actions : a.tool = b.tool
           /\ a \in [tool : Catalog, gated : BOOLEAN]
           /\ a.gated <=> a.tool \in Gated \/ a.tool \notin Catalog
  <2>1. \A a \in d.actions : a.tool \in Catalog
    BY <1>1 DEF RunOk, Vetted, Scanned
  <2>2. ASSUME NEW a \in Recommended(d.actions)
        PROVE  \E b \in d.actions : a = [tool |-> b.tool, gated |-> b.tool \in Gated \/ b.tool \notin Catalog]
    BY DEF Recommended
  <2>3. ASSUME NEW a \in Recommended(d.actions)
        PROVE  /\ \E b \in d.actions : a.tool = b.tool
               /\ a \in [tool : Catalog, gated : BOOLEAN]
               /\ a.gated <=> a.tool \in Gated \/ a.tool \notin Catalog
    <3>1. PICK b \in d.actions :
            a = [tool |-> b.tool, gated |-> b.tool \in Gated \/ b.tool \notin Catalog]
      BY <2>2
    <3>2. a.tool = b.tool /\ (a.gated <=> b.tool \in Gated \/ b.tool \notin Catalog)
      BY <3>1
    <3>3. (b.tool \in Gated \/ b.tool \notin Catalog) \in BOOLEAN
      OBVIOUS
    <3>4. a \in [tool : Catalog, gated : BOOLEAN]
      BY <2>1, <3>1, <3>3
    <3>5. QED
      BY <3>2, <3>4
  <2>4. QED
    BY <2>1, <2>3
<1>4. row \in Row /\ row.run = r /\ row.body = d.body /\ row.resolution = d.resolution
      /\ row.actions = Recommended(d.actions)
  BY <1>2, <1>3 DEF Row, Answer
<1> HIDE DEF row
<1>5. /\ drafts' \in Seq(Row) /\ Len(drafts') = n /\ drafts'[n] = row
      /\ \A i \in 1 .. Len(drafts) : drafts'[i] = drafts[i]
  BY <1>1, <1>2, <1>4, AppendProperties
<1>6. /\ j.draft = n /\ j.answer = Template /\ j.kind = job[r].kind /\ j.triage = job[r].triage
      /\ j.flagged = job[r].flagged /\ j.blocked = job[r].blocked /\ j.score = job[r].score
  BY <1>1 DEF Job
<1>7. j \in Job' /\ Job \subseteq Job'
  <2>1. n \in 0 .. Len(drafts') /\ 0 .. Len(drafts) \subseteq 0 .. Len(drafts')
    BY <1>2, <1>5
  <2>2. Job \subseteq Job'
    BY <2>1 DEF Job
  <2>3. QED
    BY <1>1, <2>1, <2>2, TemplateIsAnswer DEF Job
<1>8. /\ pc'[r] = "log_draft" /\ job'[r] = j
      /\ \A q \in Run \ {r} : pc'[q] = pc[q] /\ job'[q] = job[q]
  BY <1>1
<1> HIDE DEF j
<1>9. TypeOK' /\ pc' \in [Run -> Steps]
  <2>1. job' \in [Run -> Job']
    BY <1>1, <1>7
  <2>2. sent' \subseteq 1 .. Len(drafts')
    BY <1>1, <1>2, <1>5 DEF TypeOK
  <2>3. QED
    BY <1>1, <1>5, <2>1, <2>2 DEF TypeOK, Steps, Stored
<1>10. RowsOk'
  <2> SUFFICES ASSUME NEW i \in 1 .. n
               PROVE  /\ drafts'[i].body \notin Leaks
                      /\ drafts'[i].body = "tone" => job'[drafts'[i].run].kind \in {"eval", "none"}
                      /\ drafts'[i].body = "template" => drafts'[i].resolution = "escalated"
                      /\ \A a \in drafts'[i].actions : a.gated <=> a.tool \in Gated \/ a.tool \notin Catalog
    BY <1>5 DEF RowsOk
  <2>1. CASE i \in 1 .. Len(drafts)
    <3>0. drafts[i] \in Row
      BY <1>2, <2>1
    <3>1. drafts'[i] = drafts[i] /\ drafts[i].run \in Run
      BY <1>5, <2>1, <3>0 DEF Row
    <3>2. job'[drafts[i].run].kind = job[drafts[i].run].kind
      BY <1>6, <1>8, <3>1
    <3>3. QED
      BY <1>1, <2>1, <3>1, <3>2 DEF RowsOk
  <2>2. CASE i = n
    BY <1>1, <1>3, <1>4, <1>5, <1>6, <1>8, <2>2 DEF RunOk, Vetted, BlocksFully, Scanned
  <2>3. QED
    BY <1>2, <2>1, <2>2
<1>11. AutoSentIsSafe'
  BY <1>1, <1>5 DEF AutoSentIsSafe, TypeOK
<1>12. ASSUME NEW q \in Run \ {r} PROVE RunOk(q, pc[q], job[q])'
  <2>1. RunOk(q, pc[q], job[q]) /\ pc'[q] = pc[q] /\ job'[q] = job[q]
    BY <1>8, JobsTyped
  <2>2. RunsOnce(q, pc[q], job[q])'
    BY <1>2, <1>4, <1>5, <2>1 DEF RunOk, RunsOnce
  <2>3. BlocksFully(q, pc[q], job[q])'
    BY <1>2, <1>5, <2>1 DEF RunOk, BlocksFully
  <2>4. Vetted(q, pc[q], job[q])' /\ Escalates(q, pc[q], job[q])'
    BY <2>1 DEF RunOk, Vetted, Escalates
  <2>5. UpToDate(q, pc[q], job[q])'
    <3>1. pc[q] = "log_draft" => drafts'[job[q].draft] = drafts[job[q].draft]
      BY <1>5, <2>1 DEF RunOk, BlocksFully, Stored
    <3>2. QED
      BY <1>1, <2>1, <3>1 DEF RunOk, UpToDate, IsInternal, Fits
  <2>6. QED
    BY <2>2, <2>3, <2>4, <2>5 DEF RunOk
<1>13. RunOk(r, pc[r], job[r])'
  <2>1. /\ pc'[r] = "log_draft" /\ job'[r].draft = n /\ job'[r].answer = Template
        /\ job'[r].kind = job[r].kind /\ job'[r].triage = job[r].triage
        /\ job'[r].flagged = job[r].flagged /\ job'[r].blocked = job[r].blocked
        /\ job'[r].score = job[r].score
    BY <1>6, <1>8
  <2>2. pc[r] = "insert" /\ RunOk(r, "insert", job[r]) /\ UNCHANGED <<triage, kb, reingested, retriaged>>
    BY <1>1
  <2>3. RunsOnce(r, pc[r], job[r])' /\ Vetted(r, pc[r], job[r])' /\ Escalates(r, pc[r], job[r])'
    BY <2>1, <2>2 DEF RunOk, RunsOnce, Vetted, Escalates, Over, Scanned, Stored
  <2>4. BlocksFully(r, pc[r], job[r])'
    <3>1. n \in 1 .. Len(drafts') /\ drafts'[n].run = r /\ drafts'[n].resolution = d.resolution
      BY <1>2, <1>4, <1>5
    <3>2. job[r].blocked => d.resolution = "escalated"
      BY <2>2 DEF RunOk, BlocksFully, Template
    <3>3. Template.resolution = "escalated"
      BY DEF Template
    <3>4. QED
      BY <2>1, <3>1, <3>2, <3>3 DEF BlocksFully, ToTriage, Classified, ToDraft
  <2>5. UpToDate(r, pc[r], job[r])'
    <3>1. r \notin reingested => ~IsInternal(d.body)
      BY <2>2 DEF RunOk, UpToDate, Scanned
    <3>2. r \notin retriaged => \A a \in Recommended(d.actions) : Fits(a)
      BY <1>3, <2>2 DEF RunOk, UpToDate, Scanned, Fits
    <3>3. drafts'[n].body = d.body /\ drafts'[n].actions = Recommended(d.actions)
      BY <1>4, <1>5
    <3>4. QED
      BY <2>1, <2>2, <3>1, <3>2, <3>3 DEF UpToDate, IsInternal, Fits, ToDraft, Scanned
  <2>6. QED
    BY <2>3, <2>4, <2>5 DEF RunOk
<1>14. QED
  BY <1>9, <1>10, <1>11, <1>12, <1>13 DEF IInv

\* A document that changes makes every run in flight out of date.
LEMMA IngestKeeps == ASSUME IInv, NEW x \in Doc, Ingest(x) PROVE IInv'
<1>1. /\ TypeOK /\ UNCHANGED <<triage, drafts, sent, agentRuns, latest, retriaged, pc, job>>
      /\ reingested' = reingested \cup InFlight /\ InFlight \subseteq Run
      /\ \E e \in Entry : kb' = [kb EXCEPT ![x] = e]
  BY DEF Ingest, rows, IInv, InFlight
<1>2. TypeOK'
  BY <1>1 DEF TypeOK, Job
<1>3. ASSUME NEW q \in Run PROVE RunOk(q, pc[q], job[q])'
  <2>1. RunOk(q, pc[q], job[q]) /\ (pc[q] \notin Over => q \in reingested')
    BY <1>1, JobsTyped DEF InFlight, Over
  <2>2. UpToDate(q, pc[q], job[q])'
    BY <1>1, <2>1 DEF RunOk, UpToDate, Fits, Over, ToDraft, Scanned
  <2>3. QED
    BY <1>1, <2>1, <2>2 DEF RunOk, RunsOnce, BlocksFully, Vetted, Escalates
<1>4. QED
  BY <1>1, <1>2, <1>3 DEF IInv, RowsOk, AutoSentIsSafe

LEMMA CustomerWritesKeeps == ASSUME IInv, CustomerWrites PROVE IInv'
<1>1. /\ TypeOK /\ UNCHANGED <<triage, drafts, sent, agentRuns, kb, reingested, retriaged, pc, job>>
      /\ latest' \in {"fine", "flagged"}
  BY DEF CustomerWrites, rows, IInv
<1>2. TypeOK'
  BY <1>1 DEF TypeOK, Job
<1>3. ASSUME NEW q \in Run PROVE RunOk(q, pc[q], job[q])'
  BY <1>1, JobsTyped DEF RunOk, RunsOnce, BlocksFully, Vetted, UpToDate, Escalates, IsInternal, Fits
<1>4. QED
  BY <1>1, <1>2, <1>3 DEF IInv, RowsOk, AutoSentIsSafe

\* ----- every step --------------------------------------------------------
LEMMA StepKeeps == IInv /\ [Next]_vars => IInv'
<1> SUFFICES ASSUME IInv, [Next]_vars PROVE IInv'
  OBVIOUS
<1>1. CASE UNCHANGED vars
  <2>1. ASSUME NEW q \in Run PROVE RunOk(q, pc[q], job[q])'
    BY <1>1, JobsTyped DEF vars, rows, world, RunOk, RunsOnce, BlocksFully, Vetted, UpToDate,
                           Escalates, IsInternal, Fits
  <2>2. QED
    BY <1>1, <2>1 DEF vars, rows, world, IInv, TypeOK, Job, RowsOk, AutoSentIsSafe
<1>2. ASSUME NEW r \in Run, CallModel(r) PROVE IInv'
  BY <1>2, RequestFailsKeeps, UnusableKeeps, CallThrowsKeeps, TriageAnsweredKeeps,
     DraftAnsweredKeeps, JudgeKeeps DEF CallModel
<1>3. ASSUME NEW r \in Run, Continue(r) PROVE IInv'
  BY <1>2, <1>3, ReadInboundKeeps, SaveTriageKeeps, LogTriageKeeps, LogFailedKeeps, RereadKeeps,
     SearchKeeps, FetchKeeps, SimilarKeeps, ScanOutputKeeps, ScanPolicyKeeps, InsertDraftKeeps, LogDraftKeeps, AutoSendKeeps,
     ScoreCaseKeeps, QueryThrowsKeeps DEF Continue
<1>4. ASSUME NEW r \in Run, NEW kind \in KindsOf[r], Begin(r, kind) PROVE IInv'
  BY <1>4, BeginKeeps
<1>5. QED
  BY <1>1, <1>3, <1>4, IngestKeeps, CustomerWritesKeeps DEF Next

LEMMA Inductive == Spec => []IInv
BY InitIInv, StepKeeps, PTL DEF Spec

\* ----- theorems ----------------------------------------------------------
\* The rows and the runs stay well formed, and no step is attempted a third
\* time, whatever the model answers and however often its calls fail.
THEOREM TypeCorrect == Spec => []TypeOK
BY Inductive, PTL DEF IInv

\* No answer of a model that one of the scans knows is ever stored: outputScan,
\* orgPolicyScan and semanticJudgeScan have the last word on every path of
\* generateDraft, the second attempts and the blocked ones included.
THEOREM ScansHaveTheLastWord == Spec => []OnlyVettedIsKept
<1>1. IInv => OnlyVettedIsKept
  BY DEF IInv, RowsOk, OnlyVettedIsKept, Leaks
<1>2. QED
  BY <1>1, Inductive, PTL

\* What is sent without a person is an answer that passed every check and does
\* nothing that needs approval.
THEOREM AutoSendsAreSafe == Spec => []AutoSentIsSafe
BY Inductive, PTL DEF IInv

\* While nobody ingests a document, no draft quotes an internal one the moment
\* it is stored.
THEOREM NothingInternalIsQuoted == Spec => []QuotesNoInternalText
<1>1. IInv => QuotesNoInternalText
  BY DEF IInv, RunOk, UpToDate, IsInternal, QuotesNoInternalText
<1>2. QED
  BY <1>1, Inductive, PTL

\* While nobody classifies the ticket anew, a draft recommends only actions of
\* the ticket's category.
THEOREM RecommendationsFit == Spec => []ActionsFitTicket
<1>1. IInv => ActionsFitTicket
  BY DEF IInv, RunOk, UpToDate, Fits, ActionsFitTicket
<1>2. QED
  BY <1>1, Inductive, PTL

\* An eval case that was flagged or blocked counts as escalated, through both
\* attempts, the re-read of the ticket and the template.
THEOREM EvalScoresTheFlag == Spec => []FlaggedIsScoredEscalated
<1>1. IInv => FlaggedIsScoredEscalated
  BY DEF IInv, RunOk, Escalates, FlaggedIsScoredEscalated
<1>2. QED
  BY <1>1, Inductive, PTL
=============================================================================
