----------------------------- MODULE RunEvents ------------------------------
(***************************************************************************)
(* The stage events of one run and the viewers that follow it.  The run is *)
(* a triage, a draft or an eval; its emitStage calls store an event in     *)
(* run_events and then tell the listeners of this process.  A viewer opens *)
(* an SSE stream that replays the table and then listens                   *)
(* (pipelineEventBus, tickets.ts, evalRuns.ts, evalRunner, RunStepper,     *)
(* EvalRunStepper).                                                        *)
(*                                                                         *)
(* The pool runs queries side by side, so the moment a query takes effect  *)
(* and the moment its answer is handled are two steps.                     *)
(***************************************************************************)
EXTENDS Naturals, Sequences, SequencesExt

CONSTANTS
  Viewer,  \* the SSE connections
  Kind,    \* what may run: a subset of {"triage", "draft", "eval"}
  Cases    \* how many cases an eval run has; the case_ids asked for may match none

ASSUME KindAssumption == Kind \subseteq {"triage", "draft", "eval"} /\ Kind # {}
ASSUME CasesAssumption == Cases \in Nat

VARIABLES
  kind,      \* what runs
  stored,    \* the run_events rows of the run
  published, \* how many of them the listeners were told
  run,       \* the run: "starting", "running", "over", or "dead" when it threw
  row,       \* its agent_runs or eval_runs row: "absent", "pending", "done"
  stream,    \* stream[v]: what the server holds of v's connection
  sent,      \* sent[v]: the positions of the events written to it
  got        \* got[v]: how many of those the page has handled

vars == <<kind, stored, published, run, row, stream, sent, got>>

Event(stage, status, case) == [stage |-> stage, status |-> status, case |-> case]
Stage(stage, status) == Event(stage, status, 0)
Case(i, status) == Event("eval_case", status, i)

Finished(stages) ==
  [i \in 1 .. 2 * Len(stages) |->
     Stage(stages[(i + 1) \div 2], IF i % 2 = 1 THEN "started" ELSE "completed")]

\* runTriage: the model's answer parses, or both attempts fail.
TriagePlans ==
  {Finished(<<"input_scan">>) \o <<Stage("triage", "started"), Stage("triage", result)>> :
     result \in {"completed", "failed"}}

\* generateDraft: no output to scan, or a scan that passes or blocks it.
DraftPlans ==
  LET sofar == Finished(<<"input_scan", "retrieval", "eligibility">>)
               \o <<Stage("draft_generation", "started")>>
  IN {sofar \o <<Stage("draft_generation", "failed")>>} \cup
     {sofar \o <<Stage("draft_generation", "completed"), Stage("output_scan", "started"),
                 Stage("output_scan", verdict)>> : verdict \in {"completed", "blocked"}}

\* runEvalSet: every case completes, or the one numbered n + 1 throws.
EvalPlans ==
  LET done(n) == [i \in 1 .. 2 * n |->
                    Case((i + 1) \div 2, IF i % 2 = 1 THEN "started" ELSE "completed")]
  IN {done(Cases)} \cup
     {done(n) \o <<Case(n + 1, "started"), Case(n + 1, "failed")>> : n \in 0 .. Cases - 1}

Plans == CASE kind = "triage" -> TriagePlans
           [] kind = "draft" -> DraftPlans
           [] kind = "eval" -> EvalPlans

\* Mutant: the status that is easy to forget.
IsTerminalEventMutant(e) ==
  \/ e.stage = "triage" /\ e.status = "completed"
  \/ e.stage = "output_scan"
  \/ e.stage = "draft_generation" /\ e.status = "failed"
  \/ e.stage = "eval_case" /\ e.status \in {"completed", "failed"} /\ e.case = Cases

IsTerminalEvent(e) ==
  \/ e.stage = "triage" /\ e.status \in {"completed", "failed"}
  \/ e.stage = "output_scan"
  \/ e.stage = "draft_generation" /\ e.status = "failed"
  \/ e.stage = "eval_case" /\ e.status \in {"completed", "failed"} /\ e.case = Cases

\* The page's own copy of the rule: RunStepper for a ticket run, EvalRunStepper.
PageIsTerminal(e) == IsTerminalEvent(e)

\* ----- the run -----------------------------------------------------------
\* POST /eval-runs/start.
StartEval ==
  /\ kind = "eval" /\ run = "starting" /\ row = "absent"
  /\ row' = "pending"
  /\ UNCHANGED <<kind, stored, published, run, stream, sent, got>>

\* POST /eval-runs, or the triage or draft handler.
Begin ==
  /\ run = "starting"
  /\ run' = "running"
  /\ UNCHANGED <<kind, stored, published, row, stream, sent, got>>

\* Mutant: the caller does not wait for the event it emitted before.
PersistMutant ==
  /\ run = "running"
  /\ \E plan \in Plans :
       /\ Len(plan) > Len(stored) /\ IsPrefix(stored, plan)
       /\ stored' = Append(stored, plan[Len(stored) + 1])
  /\ UNCHANGED <<kind, published, run, row, stream, sent, got>>

\* emitStage, first half: insertRunEvent.  The caller awaits it and the second
\* half, so one event is under way at a time.
Persist ==
  /\ run = "running" /\ published = Len(stored)
  /\ \E plan \in Plans :
       /\ Len(plan) > Len(stored)
       /\ IsPrefix(stored, plan)
       /\ stored' = Append(stored, plan[Len(stored) + 1])
  /\ UNCHANGED <<kind, published, run, row, stream, sent, got>>

\* emitStage, second half: every listener writes the event to its response, and
\* ends it if the event is terminal.
Publish ==
  /\ run = "running" /\ published < Len(stored)
  /\ LET k == published + 1
         told == {v \in Viewer : stream[v].listening}
     IN /\ published' = k
        /\ sent' = [v \in Viewer |-> IF v \in told THEN Append(sent[v], k) ELSE sent[v]]
        /\ stream' =
             [v \in Viewer |->
                IF v \in told /\ IsTerminalEvent(stored[k])
                THEN [stream[v] EXCEPT !.listening = FALSE, !.ended = TRUE]
                ELSE stream[v]]
  /\ UNCHANGED <<kind, stored, run, row, got>>

\* The row is written after the last event.  An eval that a case ended has none.
Complete ==
  /\ run = "running" /\ published = Len(stored) /\ stored \in Plans
  /\ kind = "eval" /\ stored # << >> => stored[Len(stored)].status = "completed"
  /\ run' = "over" /\ row' = "done"
  /\ UNCHANGED <<kind, stored, published, stream, sent, got>>

\* A query or the model throws, the process of an eval ends at its thrown case.
Throw ==
  /\ run = "running" /\ published = Len(stored)
  /\ run' = "dead"
  /\ UNCHANGED <<kind, stored, published, row, stream, sent, got>>

\* ----- the streams -------------------------------------------------------
\* "from" is history: how many events had been told when the replay was written.
NoStream ==
  [at |-> "idle", gone |-> FALSE, row |-> "absent", events |-> 0, from |-> 0,
   listening |-> FALSE, ended |-> FALSE]

ReadRow(v) == [stream[v] EXCEPT !.row = row]
ReadEvents(v) == [stream[v] EXCEPT !.events = Len(stored)]

\* Mutant: both routes read the events first.
RowFirstMutant == FALSE

\* A ticket run's row is read before its events, an eval run's after them.
RowFirst == kind # "eval"

\* The page mounts its EventSource and the handler's first query runs.
Open(v) ==
  /\ stream[v].at = "idle"
  /\ stream' = [stream EXCEPT ![v] =
       [(IF RowFirst THEN ReadRow(v) ELSE ReadEvents(v)) EXCEPT
          !.at = "asked"]]
  /\ UNCHANGED <<kind, stored, published, run, row, sent, got>>

\* Mutant: listens as soon as the last query has run.
ReadOtherMutant(v) ==
  /\ stream[v].at = "asked"
  /\ stream' = [stream EXCEPT ![v] =
       [(IF RowFirst THEN ReadEvents(v) ELSE ReadRow(v)) EXCEPT
          !.at = "read", !.listening = TRUE]]
  /\ UNCHANGED <<kind, stored, published, run, row, sent, got>>

\* The second query.
ReadOther(v) ==
  /\ stream[v].at = "asked"
  /\ stream' = [stream EXCEPT ![v] =
       [(IF RowFirst THEN ReadEvents(v) ELSE ReadRow(v)) EXCEPT !.at = "read"]]
  /\ UNCHANGED <<kind, stored, published, run, row, sent, got>>

\* The run's row says that nothing will follow.
RowIsFinal(v) == stream[v].row = "done"

NotFound(v) == stream[v].row = "absent" /\ stream[v].events = 0

\* A connection that closed before the close handler was set stays subscribed.
Opened(v) == IF stream[v].gone THEN "closed" ELSE "open"

\* The rest of the handler is synchronous: 404, or replay and then end or listen.
Answer(v) ==
  /\ stream[v].at = "read"
  /\ IF NotFound(v)
     THEN /\ stream' = [stream EXCEPT ![v].at = "refused"]
          /\ UNCHANGED sent
     ELSE /\ sent' = [sent EXCEPT ![v] = @ \o [i \in 1 .. stream[v].events |-> i]]
          /\ stream' = [stream EXCEPT ![v].at = Opened(v), ![v].from = published,
                                      ![v].ended = RowIsFinal(v),
                                      ![v].listening = ~RowIsFinal(v)]
  /\ UNCHANGED <<kind, stored, published, run, row, got>>

\* ----- the page ----------------------------------------------------------
Close(v) == stream' = [stream EXCEPT ![v].at = "closed", ![v].listening = FALSE]

\* onmessage: the page takes the next event and closes on one it holds terminal.
Receive(v) ==
  /\ stream[v].at = "open" /\ got[v] < Len(sent[v])
  /\ got' = [got EXCEPT ![v] = @ + 1]
  /\ IF PageIsTerminal(stored[sent[v][got[v] + 1]]) THEN Close(v) ELSE UNCHANGED stream
  /\ UNCHANGED <<kind, stored, published, run, row, sent>>

\* onerror: the server's end of the stream, everything on it handled.
Ended(v) ==
  /\ stream[v].at = "open" /\ stream[v].ended /\ got[v] = Len(sent[v])
  /\ Close(v)
  /\ UNCHANGED <<kind, stored, published, run, row, sent, got>>

\* The page unmounts, perhaps before the server has answered.
Leave(v) ==
  /\ \/ stream[v].at = "open" /\ Close(v)
     \/ /\ stream[v].at \in {"asked", "read"} /\ ~stream[v].gone
        /\ stream' = [stream EXCEPT ![v].gone = TRUE]
  /\ UNCHANGED <<kind, stored, published, run, row, sent, got>>

Init ==
  /\ kind \in Kind
  /\ stored = << >> /\ published = 0 /\ run = "starting" /\ row = "absent"
  /\ stream = [v \in Viewer |-> NoStream]
  /\ sent = [v \in Viewer |-> << >>]
  /\ got = [v \in Viewer |-> 0]

Advance == Persist \/ Publish \/ Complete \/ Throw
Follow(v) == ReadOther(v) \/ Answer(v) \/ Receive(v) \/ Ended(v)
Next == StartEval \/ Begin \/ Advance \/ \E v \in Viewer : Follow(v) \/ Open(v) \/ Leave(v)

Spec == Init /\ [][Next]_vars

\* A run goes on or throws, a request gets its queries answered, a page that is
\* open handles its events; nobody has to open a stream, start a run or leave.
FairSpec ==
  /\ Spec
  /\ WF_vars(Advance)
  /\ \A v \in Viewer : WF_vars(Follow(v))

-----------------------------------------------------------------------------
\* ----- properties --------------------------------------------------------
At == {"idle", "asked", "read", "refused", "open", "closed"}

\* The rows, the streams and the positions written to them are well formed.
TypeOK ==
  /\ kind \in Kind
  /\ \E plan \in Plans : IsPrefix(stored, plan)
  /\ published \in {Len(stored), Len(stored) - 1} \cap Nat
  /\ run \in {"starting", "running", "over", "dead"}
  /\ row \in {"absent", "pending", "done"}
  /\ stream \in [Viewer ->
       [at : At, gone : BOOLEAN, row : {"absent", "pending", "done"},
        events : 0 .. Len(stored), from : 0 .. published,
        listening : BOOLEAN, ended : BOOLEAN]]
  /\ sent \in [Viewer -> Seq(1 .. Len(stored))]
  /\ got \in [Viewer -> Nat] /\ \A v \in Viewer : got[v] <= Len(sent[v])

Hears(v) == stream[v].listening /\ stream[v].at = "open"

\* What the code's replay and subscription make of a stream: the events that the
\* second query found, then those told since the replay was written, in order and
\* to the last.  So it repeats one event at most, and the ones it lacks are
\* exactly those told while the handler waited for its query.
SeamIsExact ==
  \A v \in Viewer : stream[v].at \in {"open", "closed"} =>
    LET st == stream[v]
        replayed == 1 .. st.events
    IN /\ st.events <= Len(sent[v]) /\ st.events <= st.from + 1
       /\ \A i \in 1 .. Len(sent[v]) :
            sent[v][i] = IF i \in replayed THEN i ELSE st.from + (i - st.events)
       /\ Hears(v) => st.from + (Len(sent[v]) - st.events) = published

\* "a client that subscribes a moment later never misses an event that already
\* made it into the table": a stream that listens was sent every event that was
\* stored and told.
StoredIsNeverMissed ==
  \A v \in Viewer : Hears(v) => 1 .. published \subseteq Range(sent[v])

\* A ticket run's stream that ends without listening has replayed the whole
\* run: the row is read before the events, so no event is newer than the row.
ReplayIsWhole ==
  \A v \in Viewer :
    kind # "eval" /\ stream[v].at \in {"open", "closed"} /\ stream[v].row = "done"
      => Len(sent[v]) = Len(stored) /\ stored \in Plans

\* A page that listens before its run has told the terminal event does not wait
\* for ever: its stream is ended or it closes, unless the run throws.  (An eval
\* run that matched no case tells nothing.)
ListenersHearTheEnd ==
  \A v \in Viewer :
    Hears(v) /\ run = "running" /\ (kind = "eval" => Cases > 0)
    /\ ~(\E k \in 1 .. published : IsTerminalEvent(stored[k]))
      ~> stream[v].at = "closed" \/ run = "dead"

\* isTerminalEvent tells the route "when it has seen the last event for a run":
\* a page that closed on a terminal event missed none of the run's events.
TerminalIsLast ==
  \A v \in Viewer :
    stream[v].at = "closed" /\ got[v] > 0 /\ PageIsTerminal(stored[sent[v][got[v]]])
      => stored \in Plans /\ sent[v][got[v]] = Len(stored)

\* "an SSE subscriber's connection always ends deterministically rather than
\* hanging on a thrown case": once a case has failed, every listener closes.
ThrownCaseEndsStreams ==
  \A v \in Viewer :
    Hears(v) /\ stored # << >> /\ stored[Len(stored)].status = "failed"
      ~> stream[v].at = "closed"
=============================================================================
