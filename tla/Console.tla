------------------------------- MODULE Console -------------------------------
(***************************************************************************)
(* The agents' console in the browser: the tabs of one browser, the login  *)
(* they share through localStorage, the page each shows and the API calls  *)
(* in flight, whose answers arrive in any order and after the page that    *)
(* asked for them is gone (App, AuthenticatedApp, Login, Signup, Queue,    *)
(* TicketView and the other pages; api.ts; the permission checks of the    *)
(* routes).                                                                *)
(*                                                                         *)
(* No request is aborted and no page looks whether it is still mounted: the *)
(* handler of a page that is gone goes on, shows nothing, and sends its next *)
(* request with the token that localStorage then holds.                    *)
(*                                                                         *)
(* What a page shows is kept as the ticket it was fetched for; statuses,   *)
(* texts and the customer's other orders are left out.                     *)
(***************************************************************************)
EXTENDS Naturals, Sequences, FiniteSets

CONSTANTS
  Tab,
  User,
  Ticket,
  RoleOf,      \* [User -> {"agent", "manager", "admin"}]
  Default,     \* the users of org_default
  MaxCalls,    \* bound: nothing is clicked with so many calls in flight
  Visits,      \* bound: the pages that are visited in each tab, besides the first
  Logins,      \* bound: the users who log in at each tab
  NoOne

ASSUME ConsoleUsers ==
  /\ RoleOf \in [User -> {"agent", "manager", "admin"}]
  /\ Default \subseteq User
  /\ NoOne \notin User \cup Ticket

VARIABLES
  storage,   \* localStorage: the user of the token, and of the role and org
  session,   \* session[b]: App's session in tab b
  view,      \* view[b]: the page the tab shows and the ticket of TicketView
  shown,     \* shown[b]: the state of the mounted TicketView
  calls,     \* the requests in flight of what is mounted
  adrift,    \* the handlers of pages that are gone, with what they will still send
  touched,   \* history: tabs in whose back another tab logged in or out
  stale      \* history: stale[b], the tickets TicketView was asking about when it
             \* was given another one

vars == <<storage, session, view, shown, calls, adrift, touched, stale>>

\* ----- what the server permits and what the pages offer ------------------
Managers == {u \in User : RoleOf[u] \in {"manager", "admin"}}
Admins == {u \in User : RoleOf[u] = "admin"}

\* requirePermission, then the org_default check of the route.
Permits(op) ==
  (CASE op \in {"decide", "metrics"} -> Managers
     [] op \in {"ingest", "start_eval", "run_eval", "consent", "invite", "create_org"} -> Admins
     [] OTHER -> User)
  \cap (IF op \in {"start_eval", "run_eval", "create_org", "embeddings", "platform"}
        THEN Default ELSE User)

\* AuthenticatedApp: who is shown a page, in the navigation and when rendered.
SeesMutant(page) == User
Sees(page) ==
  CASE page \in {"eval", "embeddings", "platform"} -> Default
    [] page = "quality" -> Managers
    [] page = "admin" -> Admins
    [] OTHER -> User

Pages == {"dashboard", "queue", "documents", "audit",
          "embeddings", "eval", "quality", "admin", "platform"}

ASSUME ConsoleBounds ==
  /\ MaxCalls \in Nat
  /\ Visits \in [Tab -> SUBSET Pages] /\ Logins \in [Tab -> SUBSET User]

\* What a page asks for when it is mounted, and on a click; a click is a
\* sequence of requests, each sent when the one before was answered.
Loads(page) ==
  CASE page = "dashboard" -> <<"summary">>
    [] page = "quality" -> <<"metrics">>
    [] page = "admin" -> <<"consent">>
    [] page = "embeddings" -> <<"embeddings">>
    [] page \in {"eval", "platform"} -> << >>
    [] OTHER -> <<"list">>

Documents == {<<"ingest", "list">>, <<"search">>}
EvalReport == {<<"start_eval", "run_eval">>}
Admin == {<<"consent">>, <<"invite">>, <<"create_org">>}
PlatformSupport == {<<"platform">>}

Clicks(page) ==
  CASE page = "documents" -> Documents
    [] page = "eval" -> EvalReport
    [] page = "admin" -> Admin
    [] page = "platform" -> PlatformSupport
    [] OTHER -> {}

\* The conditions inside the pages: ingestion and evals for admins, the
\* onboarding form for the operator's own.
Offers(plan) ==
  CASE Head(plan) \in {"ingest", "start_eval"} -> Admins
    [] Head(plan) = "create_org" -> Default
    [] OTHER -> User

\* ----- the ticket page ---------------------------------------------------
\* The state of a mounted TicketView: the tickets its parts were fetched for.
NoDraft == [of |-> NoOne, sent |-> FALSE]
Blank == [detail |-> NoOne, triage |-> NoOne, draft |-> NoDraft, thread |-> {},
          busy |-> FALSE]

\* Mutant: setDraft(null) is forgotten.
ClearedMutant(p) == [Blank EXCEPT !.busy = p.busy, !.draft = p.draft]

\* The effect that runs when TicketView is given another ticket.
Cleared(p) == [Blank EXCEPT !.busy = p.busy]

\* The buttons that `busy' disables; "resolve" stands for close as well.
Buttons(p) ==
  {<<"triage", "refresh">>, <<"simulate", "refresh", "reload">>, <<"resolve", "refresh">>}
  \cup {plan \in {<<"draft">>, <<"auto_draft", "messages", "refresh">>} : p.triage # NoOne}
  \cup {plan \in {<<"send", "refresh", "reload">>} : p.draft.of # NoOne /\ ~p.draft.sent}

\* The parts with a busy flag of their own: the chat's reply, and the action
\* panels, which show the decisions to managers.
ChatThread(p) == {plan \in {<<"reply", "refresh">>} : p.thread # {}}
ActionPanel(p, u) ==
  IF p.draft.of = NoOne THEN {}
  ELSE {<<"request">>} \cup {plan \in {<<"decide">>} : u \in Managers}
Panels(p, u) == ChatThread(p) \cup ActionPanel(p, u)

\* What the answer to op about ticket t changes.
Updated(p, op, t) ==
  CASE op = "get_ticket" -> [p EXCEPT !.detail = t, !.triage = t]
    [] op = "refresh" -> [p EXCEPT !.detail = t]
    [] op \in {"messages", "reload"} -> [p EXCEPT !.thread = {t}]
    [] op = "triage" -> [p EXCEPT !.triage = t, !.draft = NoDraft]
    [] op \in {"draft", "auto_draft"} ->
         [p EXCEPT !.draft = [of |-> t, sent |-> op = "auto_draft"]]
    [] op = "send" -> [p EXCEPT !.draft = NoDraft]
    [] op = "reply" -> [p EXCEPT !.thread = @ \cup {t}]
    [] OTHER -> p

\* ----- requests ----------------------------------------------------------
\* request() sends the token localStorage has at the time; what matters of it is
\* looked at then (OffersOnlyPermitted).  `page' is the component whose state the
\* answer goes to: "app" is AuthenticatedApp, "site" App.  `user' is history: whose
\* page began it.
Request(b, u, page, plan, arg, holds) ==
  [tab |-> b, user |-> u, page |-> page, plan |-> plan, arg |-> arg, holds |-> holds]

\* Mutant: the effect closes over the ticket before the change.
MountingMutant(b, u, v) ==
  IF v.page = "ticket"
  THEN {Request(b, u, "ticket", <<"get_ticket">>, view[b].ticket, FALSE),
        Request(b, u, "ticket", <<"messages">>, view[b].ticket, FALSE)}
  ELSE IF Loads(v.page) = << >> THEN {}
       ELSE {Request(b, u, v.page, Loads(v.page), NoOne, FALSE)}

Mounting(b, u, v) ==
  IF v.page = "ticket"
  THEN {Request(b, u, "ticket", <<"get_ticket">>, v.ticket, FALSE),
        Request(b, u, "ticket", <<"messages">>, v.ticket, FALSE)}
  ELSE IF Loads(v.page) = << >> THEN {}
       ELSE {Request(b, u, v.page, Loads(v.page), NoOne, FALSE)}

Rendered(u, page) == page # "public" /\ u \in Sees(page)
At(page) == [page |-> page, ticket |-> NoOne]

\* Whether the instance that sent c stays mounted in tab b.
Stays(c, b, page, kept) ==
  \/ c.tab # b
  \/ c.page = "site"
  \/ c.page = "app" /\ page # "public"
  \/ c.page = page /\ kept

\* What is left of a handler when it goes on without its page: the requests that
\* follow the one in flight.  Nothing comes of the answer to the last.
Rest(c) == [tab |-> c.tab, user |-> c.user, plan |-> Tail(c.plan)]
LeftBehind(b, page, kept, left) ==
  {Rest(c) : c \in {d \in left : ~Stays(d, b, page, kept) /\ Len(d.plan) > 1}}

AskedAbout(b) == {c.arg : c \in {d \in calls : d.tab = b /\ d.page = "ticket"}}

\* React renders tab b for user u at v: an instance that stays keeps its state,
\* a new one starts blank and loads.  TicketView with another ticket stays: its
\* effect clears all it shows but `busy'.  No request is aborted.
Show(b, u, v, left) ==
  LET kept == Rendered(session[b], view[b].page) /\ Rendered(u, v.page)
              /\ v.page = view[b].page
      same == kept /\ v = view[b]
  IN /\ session' = [session EXCEPT ![b] = u]
     /\ view' = [view EXCEPT ![b] = v]
     /\ shown' = [shown EXCEPT ![b] =
          IF same THEN @ ELSE IF kept THEN Cleared(shown[b]) ELSE Blank]
     /\ stale' = [stale EXCEPT ![b] =
          IF same THEN @ ELSE IF kept THEN @ \cup AskedAbout(b) ELSE {}]
     /\ calls' = {c \in left : Stays(c, b, v.page, kept)}
                 \cup (IF same \/ ~Rendered(u, v.page) THEN {} ELSE Mounting(b, u, v))
     /\ adrift' = adrift \cup LeftBehind(b, v.page, kept, left)

\* ----- what the user does ------------------------------------------------
Idle == Cardinality(calls) + Cardinality(adrift) < MaxCalls

Ask(b, page, plan, arg, holds) ==
  /\ Idle
  /\ ~ \E c \in calls : c.tab = b /\ Head(c.plan) = Head(plan)
  /\ UNCHANGED <<storage, adrift>>
  /\ calls' = calls \cup {Request(b, session[b], page, plan, arg, holds)}

\* Login's form is there without a session, Signup's always.
SignIn(b) ==
  /\ view[b].page = "public"
  /\ \E u \in Logins[b] :
       \/ session[b] = NoOne /\ Ask(b, "site", <<"login">>, u, FALSE)
       \/ u \in Admins \ Default /\ Ask(b, "site", <<"signup">>, u, FALSE)
  /\ UNCHANGED <<session, view, shown, touched, stale>>

\* The landing page, by an address of the same tab, and back into the app.
Leave(b) ==
  /\ view[b].page # "public"
  /\ UNCHANGED <<storage, touched>>
  /\ Show(b, session[b], At("public"), calls)
Enter(b) ==
  /\ view[b].page = "public" /\ session[b] # NoOne
  /\ UNCHANGED <<storage, touched>>
  /\ Show(b, session[b], At("dashboard"), calls)

Navigate(b) ==
  /\ view[b].page # "public"
  /\ \E page \in Visits[b] \ {view[b].page} :
       /\ session[b] \in Sees(page)
       /\ UNCHANGED <<storage, touched>>
       /\ Show(b, session[b], At(page), calls)

\* A row of the queue, which is there once the list has arrived.
Select(b) ==
  /\ view[b].page = "queue"
  /\ ~ \E c \in calls : c.tab = b /\ c.page = "queue"
  /\ \E t \in Ticket :
       /\ UNCHANGED <<storage, touched>>
       /\ Show(b, session[b], [page |-> "ticket", ticket |-> t], calls)

\* The new-ticket form, for a stored customer or a new one; its answer goes to
\* AuthenticatedApp's view.  Bound: one creation of a tab in flight.
NewTicket(b) ==
  /\ view[b].page = "queue"
  /\ ~ \E c \in calls : c.tab = b /\ c.page \in {"queue", "app"}
  /\ \E t \in Ticket :
     \E plan \in {<<"create", "list">>, <<"new_customer", "create", "list">>} :
       Ask(b, "app", plan, t, FALSE)
  /\ UNCHANGED <<session, view, shown, touched, stale>>

Holds(plan) ==
  Head(plan) \in {"triage", "simulate", "resolve", "draft", "auto_draft", "send"}

\* Mutant: the buttons stay enabled.
ClickTicketMutant(b) ==
  /\ view[b].page = "ticket" /\ shown[b].detail # NoOne
  /\ \E plan \in Buttons(shown[b]) \cup Panels(shown[b], session[b]) :
       /\ Ask(b, "ticket", plan, view[b].ticket, Holds(plan))
       /\ shown' = [shown EXCEPT ![b].busy = @ \/ Holds(plan)]
  /\ UNCHANGED <<session, view, touched, stale>>

ClickTicket(b) ==
  /\ view[b].page = "ticket" /\ shown[b].detail # NoOne
  /\ \E plan \in (IF shown[b].busy THEN {} ELSE Buttons(shown[b]))
                 \cup Panels(shown[b], session[b]) :
       /\ Ask(b, "ticket", plan, view[b].ticket, Holds(plan))
       /\ shown' = [shown EXCEPT ![b].busy = @ \/ Holds(plan)]
  /\ UNCHANGED <<session, view, touched, stale>>

Click(b) ==
  /\ Rendered(session[b], view[b].page)
  /\ \E plan \in Clicks(view[b].page) :
       session[b] \in Offers(plan) /\ Ask(b, view[b].page, plan, NoOne, FALSE)
  /\ UNCHANGED <<session, view, shown, touched, stale>>

\* Mutant: the token is left behind.
LogoutMutant(b) ==
  /\ view[b].page # "public"
  /\ storage' = [storage EXCEPT !.profile = NoOne]
  /\ touched' = [o \in Tab |-> o # b]
  /\ Show(b, NoOne, At("public"), calls)

Logout(b) ==
  /\ view[b].page # "public"
  /\ storage' = [token |-> NoOne, profile |-> NoOne]
  /\ touched' = [o \in Tab |-> o # b]
  /\ Show(b, NoOne, At("public"), calls)

\* A reload forgets all that was in flight and takes the session from storage.
Reload(b) ==
  LET u == IF storage.token = NoOne THEN NoOne ELSE storage.profile
      v == IF u = NoOne \/ view[b].page = "public" THEN At("public") ELSE At("dashboard")
  IN /\ UNCHANGED storage
     /\ session' = [session EXCEPT ![b] = u]
     /\ view' = [view EXCEPT ![b] = v]
     /\ shown' = [shown EXCEPT ![b] = Blank]
     /\ touched' = [touched EXCEPT ![b] = FALSE]
     /\ stale' = [stale EXCEPT ![b] = {}]
     /\ calls' = {c \in calls : c.tab # b}
                 \cup (IF v.page = "public" THEN {} ELSE Mounting(b, u, v))
     /\ adrift' = {c \in adrift : c.tab # b}

\* ----- the answers -------------------------------------------------------
\* The request that follows c in its plan; loadMessages is not awaited.
Following(c) ==
  IF Len(c.plan) = 1 THEN {}
  ELSE {Request(c.tab, c.user, c.page, Tail(c.plan), c.arg, c.holds /\ c.plan[2] # "reload")}

Fails(c) ==
  /\ ~(c.page = "app" /\ Head(c.plan) = "list")
  /\ calls' = calls \ {c}
  /\ shown' = [shown EXCEPT ![c.tab].busy = @ /\ ~c.holds]
  /\ UNCHANGED <<storage, session, view, adrift, touched, stale>>

\* Login and Signup keep the answer for all tabs and hand it to App, wherever
\* the tab is by then; the login page then leads into the app.
SignedIn(c) ==
  /\ c.page = "site"
  /\ storage' = [token |-> c.arg, profile |-> c.arg]
  /\ touched' = [o \in Tab |-> o # c.tab]
  /\ \E v \in {view[c.tab]}
              \cup {w \in {At("dashboard")} : view[c.tab].page = "public"} :
       Show(c.tab, c.arg, v, calls \ {c})

\* onCreated lists the tickets again and opens the new one, whatever is shown.
Created(c) ==
  /\ c.page = "app" /\ Head(c.plan) = "list"
  /\ UNCHANGED <<storage, touched>>
  /\ Show(c.tab, session[c.tab], [page |-> "ticket", ticket |-> c.arg], calls \ {c})

\* The state of the page is set and the next request of the plan sent.
Arrives(c) ==
  /\ c.page # "site" /\ ~(c.page = "app" /\ Head(c.plan) = "list")
  /\ UNCHANGED storage
  /\ calls' = (calls \ {c}) \cup Following(c)
  /\ shown' = IF c.page # "ticket" THEN shown
              ELSE [shown EXCEPT ![c.tab] =
                [Updated(shown[c.tab], Head(c.plan), c.arg) EXCEPT
                   !.busy = @ /\ (c.holds => \E n \in Following(c) : n.holds)]]
  /\ UNCHANGED <<session, view, adrift, touched, stale>>

\* The answer that a handler without its page was waiting for: it sends its next
\* request, or throws.
GoesOn(c) ==
  /\ \E next \in {{Rest(c)}, {}} :
       /\ Len(c.plan) = 1 => next = {}
       /\ adrift' = (adrift \ {c}) \cup next
  /\ UNCHANGED <<storage, session, view, shown, calls, touched, stale>>

Init ==
  /\ storage = [token |-> NoOne, profile |-> NoOne]
  /\ session = [b \in Tab |-> NoOne]
  /\ view = [b \in Tab |-> At("public")]
  /\ shown = [b \in Tab |-> Blank]
  /\ calls = {} /\ adrift = {}
  /\ touched = [b \in Tab |-> FALSE]
  /\ stale = [b \in Tab |-> {}]

Act(b) ==
  \/ SignIn(b) \/ Leave(b) \/ Enter(b) \/ Navigate(b) \/ Select(b) \/ NewTicket(b)
  \/ ClickTicket(b) \/ Click(b) \/ Logout(b) \/ Reload(b)

Settle(c) == Fails(c) \/ SignedIn(c) \/ Created(c) \/ Arrives(c)

Next == (\E b \in Tab : Act(b)) \/ (\E c \in calls : Settle(c)) \/ (\E c \in adrift : GoesOn(c))

Spec == Init /\ [][Next]_vars

\* ----- properties --------------------------------------------------------
\* Every variable stays within its type, whichever answer arrives when.
TypeOK ==
  /\ storage \in [token : User \cup {NoOne}, profile : User \cup {NoOne}]
  /\ session \in [Tab -> User \cup {NoOne}]
  /\ view \in [Tab -> [page : Pages \cup {"public", "ticket"}, ticket : Ticket \cup {NoOne}]]
  /\ shown \in [Tab ->
       [detail : Ticket \cup {NoOne}, triage : Ticket \cup {NoOne},
        thread : SUBSET Ticket, busy : BOOLEAN,
        draft : [of : Ticket \cup {NoOne}, sent : BOOLEAN]]]
  /\ \A c \in calls : /\ c.tab \in Tab /\ c.plan # << >> /\ c.holds \in BOOLEAN
                      /\ c.page = "ticket" => c.arg \in Ticket
  /\ \A c \in adrift : c.tab \in Tab /\ c.user \in User /\ c.plan # << >>
  /\ touched \in [Tab -> BOOLEAN] /\ stale \in [Tab -> SUBSET Ticket]

\* The ticket page shows, and its requests are about, the ticket it was opened
\* for, however late the answers come and whatever was open before.  A creation's
\* answer may put another ticket under a mounted page: then it shows no other
\* than the two, and the former only if requests about it were in flight.
ShowsOneTicket ==
  \A b \in Tab :
    LET own == {view[b].ticket} \cup stale[b]
    IN view[b].page = "ticket" =>
         /\ {shown[b].detail, shown[b].triage, shown[b].draft.of} \subseteq own \cup {NoOne}
         /\ shown[b].thread \subseteq own
         /\ \A c \in calls : c.tab = b /\ c.page = "ticket" => c.arg \in own

\* The buttons of a mounted page are disabled exactly as long as one of its
\* handlers has a request in flight, and then just one: none leaves the page
\* stuck, whichever requests fail and even if the ticket is exchanged.  (A page
\* that is left and opened again is a new one: the handler of the old may still
\* run, adrift, with the buttons of the new enabled.)
BusyMeansInFlight ==
  \A b \in Tab :
    LET held == {c \in calls : c.tab = b /\ c.holds}
    IN view[b].page = "ticket" =>
         Cardinality(held) = (IF shown[b].busy THEN 1 ELSE 0)

\* The token requests carry is that of the user whose session, role and org
\* the tab shows, unless another tab logged in or out since.
ActsForWhomItShows ==
  \A b \in Tab :
    ~touched[b] => storage = [token |-> session[b], profile |-> session[b]]

\* A mounted page sends nothing the server refuses for the role or the org, unless
\* another tab changed the token.  (The second request of an eval run is not
\* offered; a late login may have it refused.)  The handler of a page that is gone
\* goes on with whatever token there is, and is refused nothing as long as that
\* is the one of the user who began it.
OffersOnlyPermitted ==
  [][/\ \A c \in calls' \ calls :
          c.page # "site" /\ Head(c.plan) # "run_eval" /\ ~touched'[c.tab]
            => storage'.token \in Permits(Head(c.plan))
     /\ \A c \in adrift \ adrift' :
          storage.token = c.user => storage.token \in Permits(Head(c.plan))]_vars
=============================================================================
