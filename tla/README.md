# TrustDesk in TLA+

A verification project for TrustDesk, an Express and PostgreSQL server that triages
customer tickets with a language model, drafts replies, lets support agents approve and
execute tool actions, and talks to customers over a portal. Paths below are relative to
the repository root; line numbers are in `PROJECT.json` (`map`).

## How the server runs, and what a step is

One Node process serves every request. A handler is an `async` function: it runs without
interruption from one `await` to the next, and every `await pool.query(...)` lets any other
handler run. There is no database transaction anywhere in the code, so each query is atomic
and nothing larger is. Two consequences decide how the modules are written:

* one action per query, together with the synchronous code up to the next query or the
  response. What a handler read earlier lives in its local variables and may be stale;
* a query may fail, or the process may die, between any two steps. What was written stays
  written; the rest of the handler does not run (`Abort`).

## Inventory

| Part | State | Operations | What is hard about it | What makes it correct | Module |
|---|---|---|---|---|---|
| Tool actions (`services/toolActions.ts`, `toolActionsRepo.ts`, `approvalsRepo.ts`) | `tool_actions`, `approvals` | request, approve, reject, execute | check-then-write over several queries, idempotency keys, insert races, failures between the log and the status | no effect without approval; decisions logged; one action per key; one active action per ticket, overlaps aside; tenants apart | `ToolActions` |
| Eligibility (`services/eligibility.ts`) | none | the facts of a ticket | months without the day, leap years, boundary days | agrees with a count of days | `Eligibility` |
| Ticket thread (`services/ticketThread.ts`, `ticketStatus.ts`, `routes/tickets.ts`, `routes/drafts.ts`) | `tickets.status`, `human_owned`, `ticket_messages`, `drafts.status` | customer message, send draft, manual reply, resolve, close | `canTransition` runs on a row read earlier and the write does not look | each handler moves the ticket as the table allows from the status it read; no claim without its message; the customer is answered once | `TicketThread` |
| Intake pipeline (`services/ticketIntake.ts`, `triage.ts`, `draft.ts`) | `tickets.triage`, `drafts`, `agent_runs` | create ticket, triage, draft, auto-send, fallback | long handlers (model calls) that overlap people's work; failures half way | a gated draft is never auto-sent; the customer is never met with silence | `TicketThread`, `Drafting` |
| Guardrails (`services/guardrails`), retrieval, retries (`adapters/httpRetry.ts`) | none | scans, judge, search, attempts | which failure blocks what; the knowledge base read twice | only vetted drafts are stored, only safe ones sent; every run ends | `Drafting` |
| Run events (`events/pipelineEventBus.ts`, SSE routes, the console's steppers) | `run_events`, listeners | emit, replay, subscribe, end | events between the replay and the subscription, terminal events | a stream lacks what was told in the gap, and nothing else; listeners hear the end | `RunEvents` |
| Eval runner (`services/evalRunner.ts`, `evalScorer.ts`) | `eval_runs`, and the seeded tickets' triage and drafts | start, run, score | a case that throws half way; a flag that must survive; it triages and drafts real tickets, whoever owns them | as above; flagged cases score as escalated | `RunEvents`, `Drafting`, `TicketThread` |
| Customer chat (`ws/customerChatServer.ts`, `events/customerThreadBus.ts`) | one subscription per socket | connect, replay, frame, close | replay, then subscribe, across awaits; two frames without a ticket | customers stay apart; an open chat hears its ticket; answers come back | `CustomerChat` |
| Magic links (`routes/customerAuth.ts`) | `customer_magic_links` | request, consume, verify | count-then-insert, find-then-consume, expiry | a link opens one session, its owner's | `MagicLinks` |
| Org onboarding (`services/orgOnboarding.ts`), invitations, documents, consent, platform views | `orgs`, `users`, `kb_documents`, `customers` | signup, create org, invite, ingest, consent, view | check-then-insert over many tables; consent read before the rows | what was answered is whole; its admin gets in; views are allowed | `Tenants` |
| Seeding (`db/seed.ts`, `scripts/seedIfEmpty.ts`, `docker-entrypoint.sh`) | all seeded tables | first boot, restart | a crash between two rows | no restart undoes work | `Tenants` |
| Console (`frontend/src`: `App`, `AuthenticatedApp`, `api.ts`, `components`) | session, page, ticket page, requests in flight; `localStorage` | login, navigation, every button that calls the API | answers that arrive late or in another order, handlers that outlive their page, a second tab | a ticket page shows one ticket and acts on it; a tab acts for whom it shows | `Console` |
| Permissions (`domain/permissions.ts`) | none | who may do what | written down twice, in routes and pages | pages offer what routes permit | `Console` |
| Feedback, audit lists, dashboard, metrics | tables | one upsert, read-only aggregates | – | – | not modelled, see the end |

`PROJECT.json` lists the same components with their files, and under `hazards` the places
where this code is hard to test, with the properties that watch them.

## How the parts interact

* HTTP routes and the customer socket call the services; the services share nothing but the
  database and two in-memory buses. The ticket row is the one table most handlers meet in:
  the pipeline, the customer, the agents and the tool actions all read or write it.
* `createTicketWithPipeline` and `handleClientMessage` run triage, draft and auto-send in the
  request that triggered them; there is no queue and no background worker.
* Tool actions read the category of their ticket's triage, and never write it.
  `ToolActions` therefore lets the category change freely (`Environment`), which covers every
  behaviour of `TicketThread`. Whether a ticket is eligible is computed by `Eligibility` from
  rows that no handler changes; `MCToolActions` takes it from there.
* `TicketThread` and `Drafting` look at the same pipeline from two sides. `TicketThread` has
  the ticket's row and its thread and lets a draft be anything of a small set; `Drafting` has
  the way from the model's answer to the stored draft and leaves the thread out.
* Sent messages are published on `customerThreadBus` after they are written, run events on
  `pipelineEventBus` after they are stored. Neither feeds back into the tables, so
  `TicketThread` and `Drafting` leave them out; `CustomerChat` and `RunEvents` have the buses
  and let the pipelines take any of their paths.
* The console and the server are two modules: for `Console` the server answers any request,
  late or with an error, and permits what the routes permit; for the server modules any
  request may come at any time.

## Modules

| Module | What it is |
|---|---|
| `ActionLifecycle` | abstract: requested, approved or rejected, executed or failed; one result and one active action of a ticket, unless two requests were at work at once |
| `ToolActions` | `services/toolActions.ts` query by query |
| `Eligibility` | `services/eligibility.ts` as operators over dates |
| `TicketLifecycle` | abstract: the transition table from the status a handler read, a takeover for good, no new drafting for the customer after it |
| `TicketThread` | one ticket with every handler that writes its row, thread or drafts |
| `Drafting` | triage and draft runs of a ticket: scans, retries, automatic send, eval score |
| `RunEvents` | one run, its stored and published events, the streams that follow it |
| `CustomerChat` | sockets, frames, the tickets they create and the bus |
| `MagicLinks` | links, sessions and the requests that make them, with two clocks |
| `Tenants` | the container start, orgs, users, documents, consent |
| `Console` | the browser: tabs, `localStorage`, pages, requests in flight |
| `MC...` | instances of these for TLC: what roles, documents, answers there are, and symmetry |
| `...Proofs` | the theorems: one module for each state machine; `ToolActionsProofs` has those about `Eligibility` as well |

### ToolActions

State: `actions` and `approvals` are the two tables, `category` the part of the tickets row the
checks read, `effects` counts how often `mockExecute` fired for an action (no table says so),
`answers` records which action each idempotency key was answered with. `pc` and `job` hold
the handlers in flight. `StartRequest` .. `FindRaced` is `requestToolAction`, `StartDecision`
.. `WriteDecision` is `decideToolAction`, `StartExecution` .. `WriteFailed` is
`executeToolAction`; `Scan` is the execute-time guardrail. `Abort` is a query that throws or
the end of the process. Primary keys are random in the code; here a request reserves an
unused id. Checks that only refuse malformed input are "the request does not start".

`met` is history: the pairs of actions that two requests were at work on at once (`Meet`): both let in to
decide or execute one action, or both past every check and about to write on one ticket. `ActionLifecycle` has
the same variable: it asks of the service what HLD 4.3 promises, except between actions in
`met`. Nothing in the code keeps requests from overlapping, so that is what can be promised.

### TicketThread

State: `ticket` (status, `human_owned`, whether there is a triage, whether the seed made it, which
only eval cases need), `thread` (the messages in
order, each with who wrote it and the draft it came from), `drafts`, `runs` (the drafts with
an agent run), `embedded` (the drafts later tickets learn from). One section per service
function; `StartX` is the route up to and including the status check, the following actions
are its queries in order. `StartEval` is a case of the eval runner, which triages and drafts a
seeded ticket without a look at its owner or its status. `job[p].seen` is the status of the row the handler was given: the
guards after it use that and not the present one, as the code does.

Model calls belong to the step that uses their answer. The model is free: triage classifies
or fails for good (`SaveTriage`, `TriageFails`), a draft has any outcome in `Outcome`, which
stands for the text and for the guardrails that may replace it with the escalation template,
or the call throws (`DraftThrows`). `QueryThrows` sends a handler where its exception goes: to
the fallback after a completed triage, past the fallback when that is what failed, and
otherwise to the end. `Crash` ends all requests. Agent runs of triages, run events and reads
of rows no handler changes have no step.

### Drafting

State: `kb`, `latest`, `triage`, `drafts`, `sent` and `agentRuns` are the rows a run reads and
writes, `pc` and `job` the runs in flight. `ReadInbound` .. `LogTriage` is `runTriage`,
`Search` .. `LogDraft` is `generateDraft`, `AutoSend` is `autoSendIfEligible`, `ScoreCase` the
escalation part of `scoreCase`. The three steps that call a model (`triage_call`,
`draft_call`, `judge_call`) share `RequestFails` (one round of `withRetries`), `Unusable` (an
answer that does not parse, and what follows the second one) and `CallThrows`. A body is one
that a given scan matches, a quote of what the prompt held, or plain; the scans are the
conditions of `outputScan`, `orgPolicyScan` and `semanticJudgeScan` over that. The retrieved
documents are read one by one (`Fetch`); the output scan's list of internal documents
(`ScanOutput`) and the org's row for the policy rules (`ScanPolicy`) are two queries. A triage
that throws counts as an attempt, a draft or judge that throws leaves `generateDraft`: the
code differs there, and so does the model.

`reingested` and `retriaged` are history: the runs during which a document or a triage
changed. They let the properties say how far the second reading of the code helps.

### RunEvents

State: `stored` are the `run_events` rows of one run, `published` how many of them its
listeners were told; `stream[v]` is what the server holds of a connection, `sent[v]` what it
wrote and `got[v]` how much of it the page handled. `Persist` and `Publish` are the two halves
of `emitStage`. The two SSE routes read the row and the events in opposite orders (`RowFirst`);
their last, synchronous part is `Answer`. The stages a run goes through are the prefixes of
`Plans`, read off the `emitStage` calls of `runTriage`, `generateDraft` and `runEvalSet`.

### CustomerChat

State: `owner` and `log` are the ticket and message rows, `opening` the first message and the
greeting of a new ticket, which nobody is told of, `sock[s]` a connection, `live[s]`
what was pushed to it, `pc` and `job` the frames being handled, `toPublish` agents' messages
between the insert and `publishSentMessage`. `Connect` runs to the answer of the query that
lists the thread, `Replay` from there on, so a message can be published in between.
`InsertTicket`, `StoreFirst` and `Greet` are the inserts of `createTicketWithPipeline`; the
process may end between them. What the
pipeline decides is open (`Answer`, `SendThrows`, `Silent`). `Crash` is the process going
down, which an unhandled rejection in `handleConnection` or `handleClientMessage` also causes.

### MagicLinks

State: `links` are the rows, `mailed` the links that left the server, `sessions` the signed
tokens, `now` the database's clock. The server's clock stamps `expires_at` and is `Drift` ahead
of it. `Verify` is `POST /verify`; `AskForLink` .. `Send` is
`/magic-link/request`, `FindLink` .. `Sign` is `/magic-link/consume`. A token is known to
whoever reads the mail; that tokens cannot be guessed or forged is assumed. Two orgs may know
the same address, which is why every lookup has an org in it.

### Tenants

State: the tables as far as seeding and onboarding write them, and `answered`, the orgs a
201 was sent for. `Boot`, `SeedRow` and `GoDown` are the container: the seed is a sequence of
upserts (`SeedRows`) and can end at each. `StartOrg` .. `InsertAdmin` is `createOrg`, one
query per step; each document of a pack is a `SELECT` for its checksum and an `INSERT` that takes
over whatever row has the id. `StartIngest` and `StoreIngested` are the same two queries of
`POST /documents/ingest`, by an admin of any org and under any id, also one that another org's
pack has or will have. `StartView` reads the consent, `View` the rows. `ingested` and
`overtaken` are history: the documents stored by hand, and the views during which the org
withdrew its consent. A hashed password is a user who can log in.

### Console

State: `storage` is `localStorage`, `session[b]` and `view[b]` what `App` and
`AuthenticatedApp` of tab `b` hold, `shown[b]` the state of a mounted `TicketView`, reduced to
the ticket each part was fetched for, `calls` the requests in flight. A click is a plan, the
sequence of requests of its handler; the next one is sent when the answer to the one before
arrives. `Show` is React's rendering: an instance that stays in place keeps its state and its
calls, also when `TicketView` is handed another ticket. `api.ts` has no `AbortController` and
the pages do not ask whether they are mounted, so the handlers of an instance that is gone go
on: `adrift` holds the requests they have yet to send (`LeftBehind`, `GoesOn`), each with the
token of its own time; their answers change nothing that is shown. `touched` and `stale` are
history: another tab changed the login; the tickets a mounted page was asking about when
another ticket came under it.

## What is checked

| Run | Instance | Shows |
|---|---|---|
| `tool_overlap` | 2 orgs, 2 overlapping handlers, the same keys, 2 actions, failing queries, one ticket at the last instant of its warranty and one half a day later | no effect before an approval (`ApprovalPrecedesEffect`); no decision without its log row, whatever fails (`StatusIsLogged`); a key has one action (`SameKeySameAction`); a race for a key inside an org is a replay and never an error (`ErrorOnlyForForeignKey`); `OrgIsolation`; two active actions of a ticket were let in together (`OneActivePerTicket`); the service implements `ActionLifecycle` (`FollowsLifecycle`) |
| `thread_overlap` | 2 overlapping handlers, the eval runner among them, 1 failure, 1 draft | `ThreadComesFirst`, `AutoSendIsSafe`; the handlers implement `TicketLifecycle` (`FollowsLifecycle`) |
| `thread_serial` | 2 handlers that take turns (`TurnSpec`), 2 failures, 2 drafts | `OneAnswerPerMessage` |
| `thread_live` | 2 overlapping handlers, no failing query, fairness | `NoSilence` |
| `run_streams` | 1 viewer of a triage, a draft or an eval run of 3 cases, fairness | a stream holds its replay and then every event told since its subscription, so that it lacks exactly the events told between the two (`SeamIsExact`); a ticket run's replay that ends the stream is whole (`ReplayIsWhole`); a page that listens in time hears the end (`ListenersHearTheEnd`) |
| `customer_chat` | 2 customers, 2 sockets, 2 frames, 1 agent's message | `CustomersStayApart`, `PushedOnce`, `OpenChatHears`, `AnswerComesBack` |
| `magic_links` | a customer in each of 2 orgs with one address, 2 requests, threshold 1, 2 links, 2 sessions | `SingleUse`, `SessionIsOwn`; the guard is overrun by at most one link for each other request in flight (`GuardHolds`) |
| `tenants` | 3 orgs of one name and 2 suffixes, 2 documents, 2 user names, 2 requests, 2 ingestions or consent changes | `AnsweredOrgIsWhole`, `AdminGetsIn`, `ViewsAreAllowed`, `RestartLosesNothing` |
| `drafting` | a pipeline, draft call or eval case and a triage beside it, 1 document, 1 change, 1 retry | `OnlyVettedIsKept`, `QuotesNoInternalText`, `ActionsFitTicket`, `AutoSentIsSafe`, `FlaggedIsScoredEscalated`, `RunsEnd` |
| `console` | 2 tabs, an agent, an admin, the admin of another org, 2 tickets, 2 requests in flight | `ShowsOneTicket`, `BusyMeansInFlight`, `ActsForWhomItShows`, `OffersOnlyPermitted` |
| `terminal_is_last` | a draft run and one viewer | violated: `isTerminalEvent` takes `output_scan` *started* for the last event, so a live page is never sent the verdict of the scan |
| `events_missed` | a draft run and one viewer | violated: an event stored and told between the answer of the replay's query and the subscription is never sent (`StoredIsNeverMissed`, "never misses an event that already made it into the table", `pipelineEventBus.ts:5`) |

`TypeOK` is checked in the runs of `RunEvents`, `CustomerChat`, `Drafting` and `Console`, and
proved in every state machine but the two abstract ones.

Nothing in the code makes the requests about one ticket take turns, so every run but
`thread_serial` lets them overlap in every way. Three properties of overlapping requests say
what is left of a promise the documents make without exception. `OneActivePerTicket` and
`FollowsLifecycle` of `ToolActions` hold every pair of actions to it that was not at work at
once (`met`); `FollowsLifecycle` of `TicketThread` takes each handler by the status it read, and
leaves to a handler that was past its look at `human_owned` the one draft it may still
generate, and to an eval case its draft. What falls under these exceptions is listed under
*Known divergences*. `TurnSpec` of `TicketThread` is `Spec` with handlers that take turns, and
serves `OneAnswerPerMessage` alone: that drafts stay sendable for ever is checked to be harmless
as long as nobody overlaps and nothing fails (`failures = 0`); two agents who send at once, or a
handler cut short after the message, do answer twice, and no document says otherwise.

`MCEligibility` states four assumptions TLC evaluates in the run of `ToolActions`:
`AddMonths` agrees with a reference that counts half days, for every instant of three years
(`MonthsRunOver`); a window ends with its last instant, not with its day (`BoundaryIsInside`); the six
months of a gold customer are refused where the policy says (`ExtensionExcludes`); and what is
not known opens no gate (`UnknownIsNotEligible`).

### Known divergences

These configurations are kept beside the runs. Each makes TLC find one behaviour in which the
code does less than a comment or a document says. `tlc -config X.cfg M` shows the trace.

| Configuration (module) | Property | What happens |
|---|---|---|
| `ToolActionsTwoActive` (`MCToolActions`) | `NeverTwoActive` | two overlapping approvals both pass the check, although `services/toolActions.ts:95` says the guard prevents it |
| `ToolActionsRejected` (`MCToolActions`) | `RejectionIsTerminal` | an approval that overlaps a rejection wins ("Rejection is terminal", `toolActions.ts:151`) |
| `ToolActionsTwoEffects` (`MCToolActions`) | `ResultIsKept` | two executions both fire and the result is replaced ("never re-execute", `docs/HLD.md:192`) |
| `ToolActionsSharedKey` (`MCToolActions`) | `KeysNeverCollide` | the second org to use a key gets a 500 ("must never collide", `toolActionsRepo.ts:62`) |
| `TicketThreadTakeover` (`MCTicketThread`) | `NoDraftAfterTakeover` | a draft is written after a person took over ("permanently blocked", `ticketIntake.ts:65`): by an eval case, which does not look, even if handlers take turns; by a pipeline past its look if they do not |
| `TicketThreadLockedOut` (`MCTicketThread`) | `FallbackLetsCustomerReply` | after a failed draft the customer's next message is dropped (`triage.ts:127`) |
| `RunEventsThrown` (`RunEvents`) | `ThrownCaseEndsStreams` | a case that throws before the last one leaves its viewers waiting ("always ends deterministically", `evalRunner.ts:115`) |
| `CustomerChatTwoFrames` (`MCCustomerChat`) | `AutoSendIsHeard` | two frames create two tickets and the first answer reaches nobody ("guaranteed to be listening", `customerChatServer.ts:156`) |
| `TenantsFirstBoot` (`MCTenants`) | `ServingIsSeeded` | a first boot cut short is never completed: later starts find a ticket and skip the seed (`docker-entrypoint.sh`) |

Several more have no configuration. An eval run that matches no case (`POST /eval-runs` with
unknown ids) emits no event, so a page that follows it is never told the end. A handler of the
console goes on after its page is gone, and after a logout sends its next request without a
token, which is refused (`adrift`, `GoesOn`). After Back and a second look at the same ticket
the buttons of the new page are enabled while the old page's handler still runs. The abuse
guard counts all links of the last hour, where its comment (`customerAuth.ts:67`) speaks of
those outstanding. The loser of a race for a slug gets a 500, which `orgOnboarding.ts:49` says
never happens (`InsertOrg` has the step). An admin who ingests a document under the id of
another org's gets the row, and the other org loses it (`Stored`); `AnsweredOrgIsWhole` allows
that loss and no other. `expires_at` is stamped by the server's clock and compared with the
database's, so a link lives longer or shorter by the difference (`Drift`).

The stale status check behind `ToolActionsTwoActive` also lets a handler move a ticket another
one has closed meanwhile: `updateTicketStatus` does not look at the present status.
`FollowsLifecycle` of `TicketThread` therefore speaks of the status the handler read.

### Bounds

* `ToolActions`: ids and keys are finite sets. Two actions are what uniqueness of keys and of
  the active action need, two handlers what each race in the code needs; all properties are
  also proved for any number, and that more handlers overrun one active action by no more than
  their own number (`OverrunIsBounded`). `MaxEffects` stops
  executions from starting on an action after so many effects; those in flight finish.
* `TicketThread`: `MaxMessages` stops requests from starting on a thread of that length; those
  in flight finish, so threads grow past it. Four messages hold a customer's message, the
  greeting, an answer or fallback and a second message from the customer; five add a second
  answer. `MaxDrafts` bounds the drafts begun: one is enough for two handlers to fight over,
  the serial run has two, so that an old one can be sent for a new message. `MaxFailures` is
  the number of queries that throw and crashes together. All but `NoSilence` and
  `OneAnswerPerMessage` is also proved without any of these bounds.
* `RunEvents`: streams do not influence each other or the run, so one viewer shows what any
  number would; three cases have a first, a middle and a last one. The invariants are proved
  for any number of both.
* `CustomerChat`: two of each is what a mix-up of customers, tickets or sockets needs.
  `MaxReplies` bounds the messages of agents, not those of pipelines. All four properties are
  proved for any number of sockets, customers and frames.
* `MagicLinks`: the server's clock is one unit behind the database's, links live for two and so
  for one by the clock that judges them; `MaxTime` lets a link expire and the window pass; `MaxLinks` and `MaxSessions`
  stop requests from starting, those in flight finish. All three invariants are proved
  without them.
* `Tenants`: the seed has one row of each kind but two documents; the name is taken twice, so
  that suffixes are tried and run out; `MaxChanges` is the number of ingested documents and
  consent changes together: two, for a consent that is withdrawn while a view is on its way, and for
  a document that two orgs ingest. What is ingested has the id of a seeded document or of one that
  the first new org's pack has. All four properties are proved without any of these bounds.
* `Drafting`: one document (with two the run does not end in five minutes) and one text, that may
  become internal or vanish; the model has an
  answer for each way to be blocked, and never escalates by itself, so that every escalation
  is the code's. `MaxRetries` is 1 where the adapter has 2: one round that fails and a next.
  All but `RunsEnd` is proved for any of these.
* `Console`: `MaxCalls` stops clicks while two requests are in flight, those of handlers that
  outlived their page among them; loads and the requests that follow in a plan come on top. One tab visits every page but those that only load a
  list, of which it sees the dashboard; the other one reloads and logs out. All properties are proved for any number of tabs,
  users, tickets and requests.
* Handlers and the values that stand for nothing particular are symmetric in the runs without
  liveness properties.

`CHECK_DEADLOCK FALSE` is set where the system may rest: nothing has to arrive at a server, so
once the bounds are reached and everything is answered there may be no step. `ToolActions`
never rests, since the ticket can always be triaged again, nor does `Tenants`, whose container
can always stop and start; deadlock is checked there.

### Fairness

`LiveSpec` of `TicketThread` has weak fairness for every `Continue(p)`: a handler that was
started takes its next step. Node runs every callback whose promise has settled, and a query
or a model call settles or throws; a throwing model call is part of `Continue`. No fairness is
assumed for requests, so customers and agents may stop at any time, and none for failures.
`NoSilence` assumes a database that answers: an exception before the triage is logged ends the
pipeline without a fallback (`ticketIntake.ts:110`), and a crash ends everything.

`FairSpec` of `Drafting` is the same: every call has a time-out, so the run that made it goes
on; whether the answer is of use is left open, and the bounded attempts are what ends a run.
`FairSpec` of `RunEvents` has the run go on (`Advance`, of which throwing is one way), the
queries of an open stream be answered and an open page handle its events. Nobody has to start
a run, open a stream or leave a page, and the process is taken to stay up while a page waits:
when it ends, the browser's connection does too.

## What is proved

TLAPS proves, for every value of the constants, with the assumptions the modules name (every
ticket has an org; catalog entries are subsets of the tools and categories; outcomes are well
formed; the seed has a ticket and its accounts have names; the requests in flight are finitely many; no customer, document text or slug is named like one of the values
a model has for the rest, such as `"agent"`, `"template"` or `Unprefixed`; bounds are numbers):

* `ToolActionsProofs`: `TypeCorrect`, `EffectsAreApproved`, `DecisionsAreLogged`,
  `IneligibleNeverExecuted`, `KeysAreIdempotent`, `RacesBecomeReplays`, `TenantsStayApart`;
  `OnlyOverlapMakesTwoActive`, `OverrunIsBounded`, `ServiceFollowsLifecycle`, `RejectionStands`,
  `FirstResultStands`; about `Eligibility`: `AddMonthsIsInstant`, `WarrantyNeverShort`,
  `YearlongIsMonotone`;
* `TicketThreadProofs`: `TypeCorrect`, `TriageComesFirst`, `NothingIsClaimedUnsent`,
  `OnlyClearedDraftsGoOut`, `TicketFollowsLifecycle`, `TakeoverStopsDrafting`;
* `MagicLinksProofs`: `TypeCorrect`, `LinkWorksOnce`, `SessionStaysOwn`, `GuardOverrunIsBounded`;
* `TenantsProofs`: `TypeCorrect`, `AdminStays`, `ConsentedViews`, `WorkSurvives`, `CreatedWhole`;
* `CustomerChatProofs`: `TypeCorrect`, `ChatKeepsCustomersApart`, `ChatPushesOnce`, `ChatHears`,
  `ChatAnswersTheAsker`;
* `DraftingProofs`: `TypeCorrect`, `ScansHaveTheLastWord`, `NothingInternalIsQuoted`,
  `RecommendationsFit`, `AutoSendsAreSafe`, `EvalScoresTheFlag`;
* `RunEventsProofs`: `TypeCorrect`, `StreamsLackTheSeamOnly`, `ReplaysAreWhole`;
* `ConsoleProofs`: `TypeCorrect`, `OneUser`, `OneTicketShown`, `OneHandlerAtATime`,
  `OffersPermitted`.

Those about `Eligibility` are about operators. The others are theorems of `Spec`, in which requests
overlap and fail in every way: `Spec => []P`, or an action
property where the thing to show is about a step (`ChatHears`, `WorkSurvives`,
`OffersPermitted` and others), or one of the two refinements, by an inductive invariant that
adds what the handlers in flight know:

* `WellFormed` adds to `TypeOK` that a decision or execution in flight has a row of its own org
  (`TargetsExist`) and that the id a request reserved is unused and nobody else's
  (`IdsReserved`); without it an insert might overwrite a row.
* `ApprovalInv` adds that a handler about to write a decision has logged it, and that one past
  the status check of an execution works on an approved action or a tool that needs no
  approval. Rows only gain facts, so the check stays true while the status moves on: this is
  why the property survives the races that break `ResultIsKept`.
* `KeyInv` adds uniqueness of keys over all orgs, that recorded answers stay true, that every
  request works on a ticket of its own org, and that a request that lost the race for a key
  finds the key taken.
* `OverlapInv` of `ToolActionsProofs` says what a handler's reads are worth when it writes
  (`Ready`): the status it saw is still there, and no other action of the ticket is active, unless
  `met` has the pair. `Recorded` says that `met` holds every meeting of the present state, so that
  a handler which is not ready has met the one that wrote; a handler that was not past its checks
  then is `OthersStayReady`. With it every step of the service is one of `ActionLifecycle`, or a
  stutter, and the theorems on rejections and results follow (`SettledStays`). `BoundInv` counts
  the active actions of a ticket together with those in the hands of handlers that will activate
  one (`Claimed`): the check lets a handler join them only while nothing is active, and then all
  of them are in the hands of handlers.
* `TicketThreadProofs` first shows what no step takes back (`Grows`: messages, drafts, sent
  marks, triage, owner, agent runs). `TriageInv` adds that a handler between triage and draft
  works on a triaged ticket, `ThreadInv` that a handler about to write a claim has posted the
  message it is about, `AutoInv` that one about to send by itself holds a draft that is
  cleared and logged. Each handler then only has to be followed through its own steps.
  `LatestInboundIsPosition` shows that the latest customer message exists, from the
  well-foundedness of the naturals.
  `LocalInv` adds what a handler remembers: the status it read allows the write it is about to make
  (`SeenAllows`), and only a handler that drafts gets to where drafts are written (`KindFits`). No
  other handler can disturb it, which is why the refinement holds with any overlap.
* `MagicLinksProofs`: `GuardInv` counts together the links of the window and the requests that
  counted and have not inserted yet; counting lets one in only when the first number is below
  the threshold, and then there are at most as many waiting as there are requests. `LinksOwn`
  and `JobsOwn` say that a ticket was checked to be the customer's before it was kept, in the
  row and on the way to it; `SignsAlone` that a request about to sign has consumed its link,
  that no session has it yet and nobody else is about to sign for it. The conditional update
  establishes it, and nothing unmarks a link.
* `TenantsProofs`: an admin's name is never free again, and while a seed may still write the
  demo accounts no org was answered; a ticket that was worked on means that the seed will not
  start again. Both come down to the first rows of the seed: the org, then a ticket.
  `WholeInv` follows the documents of a new org: slugs are one org's each and no seeded document
  has one, so a row somebody did not ingest is the pack's own (`DocsTrue`), and the upsert of another org
  never replaces it, though its two queries may be far apart; `Progress` says how many of its
  documents a request has written.
* `CustomerChatProofs`: a connection, a frame in flight, a pushed message and a stored one each
  belong to one customer (`SocketsOwn`, `FramesOwn`, `ShownOwn`, `WrittenOwn`), and a message
  waits to be published in one place only (`WaitsOnce`), which together are kept by every step.
  `HearInv` adds that an open chat is subscribed to the ticket it shows, so that whoever
  publishes reaches it; `AnswersOwn` that the message a frame is about to publish is on the
  frame's own ticket. `Grows` says that rows are never taken back, so what was once true
  of a ticket stays true.
* `DraftingProofs`: `RunOk` says what is true of a run at each of its steps, for any step and any
  local variables, because most actions change nothing else. Its parts are that a run has one
  life (`RunsOnce`), that a blocked one holds the template until it is stored (`BlocksFully`),
  that past the scans no body is one they know (`Vetted`), that what a run knows of the
  documents and the triage is right unless they changed (`UpToDate`, which is what `reingested`
  and `retriaged` are for) and that the input scan's flag overrides the model up to the score
  (`Escalates`). `RowsOk` is the same for the stored drafts, whose approval flags come from the
  catalog: an automatic send looks at the stored row and at nothing else.
* `RunEventsProofs`: `StreamOk` describes a stream as a replay and a tail: nothing before the
  answer, then the first events in order, then one event after the other up to the last that
  was published, as long as it listens. The seam can only be where the two meet, since the
  second query cannot have seen more than one event beyond those published. `RowIsLast` orders
  the run's row after its last event.
* `Eligibility`: what `setUTCMonth` runs over into is a month that has the day, because
  no two short months follow each other; twelve months is the same month of the next year,
  which keeps the order of dates, while eighteen do not: 18 months from August 31 end on
  March 3, from September 1 on March 1.
* `ConsoleProofs`: `TypeInv` says that a request whose answer a page waits for has that page there
  (`Placed`), that the plan of any other, adrift, was permitted to the user who began it
  (`AdriftTyped`), and that the user of an untouched tab is the one of the token; all seven steps
  that change the page are one operator, `Show`, and are shown once (`ShowSteps`, `ShowDoes`,
  `CallsAfterShow`). `TicketInv` follows the ticket of a page through its parts and its requests,
  `HeldInv` the one request that holds the buttons through the plan of its handler.
  `OffersPermitted` compares who sees what with who may do what, page by page
  (`MountingPermitted`, `ClickDoes`, `LaterPermitted`), and plans to their ends, because a handler
  adrift goes through the rest of its own.

Only model-checked: `NoSilence`, `ListenersHearTheEnd` and `RunsEnd`, which are liveness under
fairness and out of the prover's reach, and `OneAnswerPerMessage`, which is about handlers that
take turns. `AddMonths` is compared with a count of half days by TLC alone, as that is a recursion
over data. Every other property of a run that passes is also a theorem.

## What is not modelled, and why

* Feedback: a single upsert, atomic in the database. The audit lists, the dashboard and the
  metrics: read-only aggregates. The scores of an eval case besides the escalation, and their
  averages.
* Prompts and text layout, the regular expressions of the guardrails, PostgreSQL full-text and
  vector search: the models let them find or match anything.
* bcrypt, JWT signatures and random tokens are taken to do what they are for; rate limits are
  left out, which only adds behaviours.
* The adapters' payloads and time-outs in milliseconds, the mail that a retry may send twice.
* The rows a seed writes for orders and expected labels: no handler changes them. Of a customer's
  orders, those the ticket page lists beside the ticket's own: a read that ends a plan.
* Migrations but for their constraints, `migrate`, `smokeLocal`: tools that run before or
  beside the server.
* Of the frontend: layout, fields of forms, the portal's pages (their socket is in
  `CustomerChat`), pages that only load a list.
* Timestamps order rows as the inserts do; two rows of one transaction time do not occur since
  there are no transactions.

## Plan

Every state machine is checked by TLC, and each of its safety properties under `Spec` proved. Next,
in this order:

1. For which pairs of handlers an overlap on one ticket is harmless, so that `Meet` of `ToolActions`
   can be narrowed to the pairs that are not.
2. `Drafting` with two documents, in a run of its own with fewer answers.
3. `Console`: a third ticket and a manager in its run.
4. The portal's pages as a module of their own, composed with `CustomerChat`.
