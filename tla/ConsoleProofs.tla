--------------------------- MODULE ConsoleProofs ----------------------------
(***************************************************************************)
(* Proofs about Console, for any number of tabs, users, tickets and calls  *)
(* in flight.                                                              *)
(***************************************************************************)
EXTENDS Console, SequenceTheorems, FiniteSetTheorems, TLAPS

USE ConsoleUsers

Page == Pages \cup {"public", "ticket"}
Person == User \cup {NoOne}
View == [page : Page, ticket : Ticket \cup {NoOne}]
Parts == [detail : Ticket \cup {NoOne}, triage : Ticket \cup {NoOne},
          thread : SUBSET Ticket, busy : BOOLEAN,
          draft : [of : Ticket \cup {NoOne}, sent : BOOLEAN]]

\* ----- the requests of a click -------------------------------------------
\* What is only ever sent after another request was answered.
Later == {"refresh", "reload", "messages", "list", "create"}
Op == Later \cup
  {"run_eval", "summary", "metrics", "consent", "embeddings", "get_ticket", "login", "signup", "new_customer",
   "ingest", "search", "start_eval", "invite", "create_org", "platform", "triage", "simulate",
   "resolve", "draft", "auto_draft", "send", "reply", "request", "decide"}
Plan == {plan \in Seq(Op) : Len(plan) > 0 /\ Tail(plan) \in Seq(Later)}
        \cup {<<"start_eval", "run_eval">>}

LEMMA ShortPlans ==
  ASSUME NEW a \in Op, NEW b \in Later, NEW c \in Later
  PROVE  /\ <<a>> \in Plan /\ <<a, b>> \in Plan /\ <<a, b, c>> \in Plan
         /\ Head(<<a>>) = a /\ Head(<<a, b>>) = a /\ Head(<<a, b, c>>) = a
<1> Later \subseteq Op
  BY DEF Op
<1>1. <<a>> \in Seq(Op) /\ <<a, b>> \in Seq(Op) /\ <<a, b, c>> \in Seq(Op)
  OBVIOUS
<1>2. Len(<<a>>) > 0 /\ Len(<<a, b>>) > 0 /\ Len(<<a, b, c>>) > 0
  OBVIOUS
<1>3. Tail(<<a>>) \in Seq(Later)
  <2>1. Tail(<<a>>) = << >> /\ << >> \in Seq(Later)
    OBVIOUS
  <2>2. QED
    BY ONLY <2>1
<1>4. Tail(<<a, b>>) \in Seq(Later)
  <2>1. Tail(<<a, b>>) = <<b>> /\ <<b>> \in Seq(Later)
    OBVIOUS
  <2>2. QED
    BY ONLY <2>1
<1>5. Tail(<<a, b, c>>) \in Seq(Later)
  <2>1. Tail(<<a, b, c>>) = <<b, c>> /\ <<b, c>> \in Seq(Later)
    OBVIOUS
  <2>2. QED
    BY ONLY <2>1
<1>6. Head(<<a>>) = a /\ Head(<<a, b>>) = a /\ Head(<<a, b, c>>) = a
  OBVIOUS
<1>7. <<a>> \in Plan
  BY ONLY <1>1, <1>2, <1>3, Zenon DEF Plan
<1>8. <<a, b>> \in Plan
  BY ONLY <1>1, <1>2, <1>4, Zenon DEF Plan
<1>9. <<a, b, c>> \in Plan
  BY ONLY <1>1, <1>2, <1>5, Zenon DEF Plan
<1>10. QED
  BY ONLY <1>6, <1>7, <1>8, <1>9

LEMMA EvalPlan ==
  LET plan == <<"start_eval", "run_eval">>
  IN  /\ plan \in Plan /\ plan \in Seq(Op) /\ Len(plan) = 2 /\ Tail(plan) = <<"run_eval">>
      /\ Head(plan) = "start_eval" /\ plan[2] = "run_eval" /\ Tail(plan) \in Plan
<1>1. "start_eval" \in Op /\ "run_eval" \in Op /\ "list" \in Later
  BY DEF Op, Later
<1>2. <<"run_eval">> \in Plan
  BY <1>1, ShortPlans
<1>3. <<"start_eval", "run_eval">> \in Plan
  BY DEF Plan
<1>4. Tail(<<"start_eval", "run_eval">>) = <<"run_eval">>
  OBVIOUS
<1>5. QED
  BY <1>1, <1>2, <1>3, <1>4

LEMMA NextOfPlan ==
  ASSUME NEW plan \in Plan
  PROVE  /\ plan # << >> /\ Len(plan) \in Nat /\ plan \in Seq(Op)
         /\ Len(plan) # 1 => /\ Tail(plan) \in Plan /\ Len(Tail(plan)) = Len(plan) - 1
                             /\ Head(Tail(plan)) \in Later \cup {"run_eval"}
<1>1. CASE plan = <<"start_eval", "run_eval">>
  BY <1>1, EvalPlan
<1>2. CASE plan # <<"start_eval", "run_eval">>
  <2>1. plan \in Seq(Op) /\ Len(plan) \in Nat /\ Len(plan) > 0 /\ Tail(plan) \in Seq(Later)
        /\ plan # << >>
    BY <1>2 DEF Plan
  <2>2. ASSUME Len(plan) # 1
        PROVE  Tail(plan) \in Plan /\ Head(Tail(plan)) \in Later /\ Len(Tail(plan)) = Len(plan) - 1
    <3>1. Len(Tail(plan)) = Len(plan) - 1 /\ Tail(plan) \in Seq(Op)
      BY <2>1
    <3>2. Len(Tail(plan)) > 0
      BY <2>1, <2>2, <3>1
    <3>3. Tail(plan) # << >>
      BY <3>2
    <3>4. Head(Tail(plan)) \in Later /\ Tail(Tail(plan)) \in Seq(Later)
      BY <2>1, <3>3
    <3>5. QED
      BY <3>1, <3>2, <3>4 DEF Plan
  <2>3. QED
    BY <2>1, <2>2
<1>3. QED
  BY <1>1, <1>2

\* Everybody may send what follows, save the second request of an eval run, which
\* who may send the first may send too.
LEMMA LaterPermitted ==
  ASSUME NEW op \in Later, NEW u \in User
  PROVE  u \in Permits(op)
BY DEF Later, Permits

Entitled(u, plan) == u \in User /\ \A i \in 1 .. Len(plan) : u \in Permits(plan[i])

LEMMA PlanEntitled ==
  ASSUME NEW plan \in Plan, NEW u \in User, u \in Permits(Head(plan))
  PROVE  Entitled(u, plan)
<1>1. CASE plan = <<"start_eval", "run_eval">>
  <2>1. u \in Permits("start_eval")
    BY <1>1, EvalPlan
  <2>2. u \in Permits("run_eval")
    BY <2>1 DEF Permits
  <2>3. QED
    BY <1>1, <2>1, <2>2, EvalPlan DEF Entitled
<1>2. CASE plan # <<"start_eval", "run_eval">>
  <2>1. plan \in Seq(Op) /\ Len(plan) \in Nat /\ Len(plan) > 0 /\ Tail(plan) \in Seq(Later)
    BY <1>2 DEF Plan
  <2>2. ASSUME NEW i \in 1 .. Len(plan) PROVE u \in Permits(plan[i])
    <3>1. CASE i = 1
      BY <2>1, <3>1
    <3>2. CASE i # 1
      <4>1. i - 1 \in 1 .. Len(Tail(plan)) /\ plan[i] = Tail(plan)[i - 1]
        BY <2>1, <2>2, <3>2
      <4>2. plan[i] \in Later
        BY <2>1, <4>1
      <4>3. QED
        BY <4>2, LaterPermitted
    <3>3. QED
      BY <3>1, <3>2
  <2>3. QED
    BY <2>2 DEF Entitled
<1>3. QED
  BY <1>1, <1>2

LEMMA RestEntitled ==
  ASSUME NEW plan \in Plan, NEW u, Entitled(u, plan)
  PROVE  /\ u \in User /\ u \in Permits(Head(plan))
         /\ Len(plan) # 1 => Entitled(u, Tail(plan))
<1>1. plan \in Seq(Op) /\ plan # << >> /\ Len(plan) \in Nat /\ Len(plan) > 0
  BY NextOfPlan
<1>2. u \in User /\ u \in Permits(Head(plan))
  <2>1. Head(plan) = plan[1] /\ 1 \in 1 .. Len(plan)
    BY <1>1
  <2>2. QED
    BY <2>1 DEF Entitled
<1>3. ASSUME NEW i \in 1 .. Len(Tail(plan)) PROVE u \in Permits(Tail(plan)[i])
  <2>1. i + 1 \in 1 .. Len(plan) /\ Tail(plan)[i] = plan[i + 1]
    BY <1>1, <1>3
  <2>2. QED
    BY <2>1 DEF Entitled
<1>4. QED
  BY <1>2, <1>3 DEF Entitled

\* ----- calls -------------------------------------------------------------
\* Whose state the answer goes to.
Asking == Pages \cup {"ticket", "app", "site"}

CallTyped(c) ==
  /\ c \in [tab : Tab, user : Person, page : Asking, plan : Plan,
            arg : Person \cup Ticket, holds : BOOLEAN]
  /\ c.page # "site" => Entitled(c.user, c.plan)
  /\ c.page = "site" => c.arg \in User
  /\ c.page \in {"app", "ticket"} => c.arg \in Ticket
  /\ c.holds => c.page = "ticket"

\* What is left of the handlers whose page is gone.
AdriftTyped(c) == c \in [tab : Tab, user : Person, plan : Plan] /\ Entitled(c.user, c.plan)

\* The page that asked is there.
Placed(c) ==
  /\ c.page = "app" => view[c.tab].page # "public"
  /\ c.page \notin {"app", "site"} => view[c.tab].page = c.page

LEMMA RequestTyped ==
  ASSUME NEW b \in Tab, NEW u \in Person, NEW page \in Asking, NEW plan \in Plan,
         NEW arg \in Person \cup Ticket, NEW holds \in BOOLEAN,
         page = "site" => arg \in User, page \in {"app", "ticket"} => arg \in Ticket,
         holds => page = "ticket", page # "site" => Entitled(u, plan),
         NEW c, c = Request(b, u, page, plan, arg, holds)
  PROVE  /\ CallTyped(c)
         /\ c.tab = b /\ c.page = page /\ c.plan = plan /\ c.arg = arg /\ c.holds = holds
BY DEF Request, CallTyped

LEMMA Viewers == ASSUME NEW u, NEW page, Rendered(u, page) PROVE u \in User
<1>1. u \in Sees(page) /\ Sees(page) \in {Default, Managers, Admins, User}
  BY DEF Rendered, Sees
<1>2. QED
  BY <1>1 DEF Managers, Admins

\* Whoever is shown a page may ask for what it loads.
LEMMA MountingPermitted ==
  ASSUME NEW b \in Tab, NEW v \in View, NEW u \in User, Rendered(u, v.page),
         NEW c \in Mounting(b, u, v)
  PROVE  u \in Permits(Head(c.plan))
<1>1. CASE v.page = "ticket"
  <2>1. c.plan = <<"get_ticket">> \/ c.plan = <<"messages">>
    BY <1>1 DEF Mounting, Request
  <2>3. Head(c.plan) \in {"get_ticket", "messages"}
    BY <2>1
  <2>2. QED
    BY <2>3 DEF Permits
<1>2. CASE v.page # "ticket"
  <2>1. c.plan = Loads(v.page) /\ Loads(v.page) # << >>
    BY <1>2 DEF Mounting, Request
  <2>2. u \in Sees(v.page) /\ v.page \in Pages
    BY <1>2 DEF Rendered, View, Page
  <2>3. CASE v.page = "quality"
    BY <2>1, <2>2, <2>3 DEF Loads, Sees, Permits
  <2>4. CASE v.page = "admin"
    BY <2>1, <2>2, <2>4 DEF Loads, Sees, Permits
  <2>5. CASE v.page = "embeddings"
    BY <2>1, <2>2, <2>5 DEF Loads, Sees, Permits
  <2>6. CASE v.page = "dashboard"
    BY <2>1, <2>6 DEF Loads, Permits
  <2>7. CASE v.page \notin {"quality", "admin", "embeddings", "dashboard"}
    <3>1. c.plan = <<"list">>
      BY <2>1, <2>7 DEF Loads
    <3>2. QED
      BY <3>1 DEF Permits
  <2>8. QED
    BY <2>3, <2>4, <2>5, <2>6, <2>7
<1>3. QED
  BY <1>1, <1>2

\* What a page asks for when it is mounted, it asks for itself.
LEMMA MountingTyped ==
  ASSUME NEW b \in Tab, NEW u \in User, NEW v \in View, Rendered(u, v.page),
         v.page = "ticket" => v.ticket \in Ticket, NEW c \in Mounting(b, u, v)
  PROVE  /\ CallTyped(c) /\ c.tab = b /\ c.page = v.page /\ ~c.holds
         /\ v.page = "ticket" => c.arg = v.ticket
<1>0. u \in Permits(Head(c.plan)) /\ v.page # "public" /\ u \in Person
  BY MountingPermitted DEF Rendered, Person
<1>1. CASE v.page = "ticket"
  <2>1. <<"get_ticket">> \in Plan /\ <<"messages">> \in Plan
    BY ShortPlans DEF Op, Later
  <2>2. PICK plan \in Plan : c = Request(b, u, "ticket", plan, v.ticket, FALSE)
    BY <1>1, <2>1 DEF Mounting
  <2>3. Entitled(u, plan)
    BY <1>0, <2>2, PlanEntitled DEF Request
  <2>4. "ticket" \in Asking
    BY DEF Asking
  <2>5. v.ticket \in Ticket /\ v.ticket \in Person \cup Ticket
    BY <1>1
  <2>6. CallTyped(c) /\ c.tab = b /\ c.page = "ticket" /\ c.arg = v.ticket /\ c.holds = FALSE
    BY <1>0, <2>2, <2>3, <2>4, <2>5 DEF CallTyped, Request
  <2>7. QED
    BY <1>1, <2>6
<1>2. CASE v.page # "ticket"
  <2>1. c = Request(b, u, v.page, Loads(v.page), NoOne, FALSE) /\ Loads(v.page) # << >>
    BY <1>2 DEF Mounting
  <2>2. Loads(v.page) \in {<<"summary">>, <<"metrics">>, <<"consent">>, <<"embeddings">>, <<"list">>}
    BY <2>1 DEF Loads
  <2>3. Loads(v.page) \in Plan
    <3>1. {"summary", "metrics", "consent", "embeddings", "list"} \subseteq Op /\ "list" \in Later
      BY DEF Op, Later
    <3>2. QED
      BY <2>2, <3>1, ShortPlans
  <2>4. v.page \in Asking /\ v.page \notin {"app", "site"} /\ NoOne \in Person
    BY <1>0, <1>2 DEF View, Page, Pages, Person, Asking
  <2>5. Entitled(u, Loads(v.page))
    BY <1>0, <2>1, <2>3, PlanEntitled DEF Request
  <2>6. CallTyped(c) /\ c.tab = b /\ c.page = v.page /\ c.holds = FALSE
    <3>1. NoOne \in Person \cup Ticket /\ v.page \notin {"site", "app", "ticket"}
      BY <1>2, <2>4
    <3>2. QED
      BY <1>0, <2>1, <2>3, <2>4, <2>5, <3>1 DEF CallTyped, Request
  <2>7. QED
    BY <1>2, <2>6
<1>3. QED
  BY <1>1, <1>2

\* ----- the types ---------------------------------------------------------
\* Who is in the app has a session, and a ticket page has a ticket.
TabOK(b) ==
  /\ view[b].page # "public" => session[b] \in User
  /\ view[b].page = "ticket" => view[b].ticket \in Ticket

Tables ==
  /\ session \in [Tab -> Person] /\ view \in [Tab -> View] /\ shown \in [Tab -> Parts]
  /\ touched \in [Tab -> BOOLEAN] /\ stale \in [Tab -> SUBSET Ticket]
  /\ storage \in [token : Person, profile : Person]

TypeInv ==
  /\ Tables
  /\ storage.token = storage.profile
  /\ \A b \in Tab : TabOK(b)
  /\ \A c \in calls : CallTyped(c) /\ Placed(c)
  /\ \A c \in adrift : AdriftTyped(c)
  /\ ActsForWhomItShows

LEMMA InvariantTyped == TypeInv => TypeOK
<1> SUFFICES ASSUME TypeInv PROVE TypeOK
  OBVIOUS
<1>1. \A c \in calls : /\ c.tab \in Tab /\ c.plan # << >> /\ c.holds \in BOOLEAN
                       /\ c.page = "ticket" => c.arg \in Ticket
  BY NextOfPlan DEF TypeInv, CallTyped
<1>2. \A c \in adrift : c.tab \in Tab /\ c.user \in User /\ c.plan # << >>
  BY NextOfPlan DEF TypeInv, AdriftTyped, Entitled
<1>3. QED
  BY <1>1, <1>2 DEF TypeInv, Tables, TypeOK, Person, View, Page, Parts

LEMMA InitTyped == Init => TypeInv
<1> SUFFICES ASSUME Init PROVE TypeInv
  OBVIOUS
<1>1. At("public") \in View /\ Blank \in Parts /\ At("public").page = "public"
  BY DEF At, View, Page, Blank, NoDraft, Parts
<1>2. Tables
  BY <1>1 DEF Init, Tables, Person
<1>3. QED
  BY <1>1, <1>2 DEF Init, TypeInv, TabOK, ActsForWhomItShows

\* What React keeps of a page: all of it, an instance with another ticket, none.
Kept(b, u, v) ==
  Rendered(session[b], view[b].page) /\ Rendered(u, v.page) /\ v.page = view[b].page
Same(b, u, v) == Kept(b, u, v) /\ v = view[b]

LEMMA ShowDoes ==
  ASSUME TypeInv, NEW b \in Tab, NEW u \in Person, NEW v \in View, NEW left, Show(b, u, v, left)
  PROVE  /\ session' \in [Tab -> Person] /\ view' \in [Tab -> View]
         /\ shown' \in [Tab -> Parts] /\ stale' \in [Tab -> SUBSET Ticket]
         /\ session'[b] = u /\ view'[b] = v
         /\ \A o \in Tab \ {b} : /\ session'[o] = session[o] /\ view'[o] = view[o]
                                 /\ shown'[o] = shown[o] /\ stale'[o] = stale[o]
         /\ Same(b, u, v) => shown'[b] = shown[b] /\ stale'[b] = stale[b]
         /\ ~Same(b, u, v) =>
              /\ shown'[b].detail = NoOne /\ shown'[b].triage = NoOne
              /\ shown'[b].thread = {} /\ shown'[b].draft.of = NoOne
              /\ shown'[b].busy <=> Kept(b, u, v) /\ shown[b].busy
              /\ Kept(b, u, v) => AskedAbout(b) \subseteq stale'[b]
         /\ calls' = {c \in left : Stays(c, b, v.page, Kept(b, u, v))}
                     \cup (IF Same(b, u, v) \/ ~Rendered(u, v.page) THEN {} ELSE Mounting(b, u, v))
         /\ adrift' = adrift \cup LeftBehind(b, v.page, Kept(b, u, v), left)
<1> DEFINE kept == Kept(b, u, v)
           same == Same(b, u, v)
<1>1. /\ session' = [session EXCEPT ![b] = u] /\ view' = [view EXCEPT ![b] = v]
      /\ shown' = [shown EXCEPT ![b] =
           IF same THEN @ ELSE IF kept THEN Cleared(shown[b]) ELSE Blank]
      /\ stale' = [stale EXCEPT ![b] =
           IF same THEN @ ELSE IF kept THEN @ \cup AskedAbout(b) ELSE {}]
      /\ calls' = {c \in left : Stays(c, b, v.page, kept)}
                  \cup (IF same \/ ~Rendered(u, v.page) THEN {} ELSE Mounting(b, u, v))
      /\ adrift' = adrift \cup LeftBehind(b, v.page, kept, left)
  BY DEF Show, Kept, Same
<1>2. /\ session \in [Tab -> Person] /\ view \in [Tab -> View] /\ shown \in [Tab -> Parts]
      /\ stale \in [Tab -> SUBSET Ticket] /\ shown[b].busy \in BOOLEAN
      /\ AskedAbout(b) \subseteq Ticket
  BY DEF TypeInv, Tables, Parts, AskedAbout, CallTyped
<1>3. PICK busy \in BOOLEAN : busy = (kept /\ shown[b].busy)
  BY Zenon
<1> DEFINE new == [detail |-> NoOne, triage |-> NoOne, draft |-> NoDraft, thread |-> {},
                   busy |-> busy]
<1>4. (IF kept THEN Cleared(shown[b]) ELSE Blank) = new
  <2>1. CASE kept
    <3>1. busy = shown[b].busy
      BY <1>2, <1>3, <2>1
    <3>2. QED
      BY <2>1, <3>1 DEF Cleared, Blank
  <2>2. CASE ~kept
    <3>1. busy = FALSE
      BY <1>3, <2>2
    <3>2. QED
      BY <2>2, <3>1 DEF Blank
  <2>3. QED
    BY <2>1, <2>2
<1>5. shown' = [shown EXCEPT ![b] = IF same THEN @ ELSE new]
  BY <1>1, <1>4
<1>6. new \in Parts /\ new.detail = NoOne /\ new.triage = NoOne /\ new.thread = {}
      /\ new.draft.of = NoOne /\ new.busy = busy
  BY DEF Parts, NoDraft
<1> HIDE DEF kept, same, new
<1>7. /\ shown' \in [Tab -> Parts]
      /\ \A o \in Tab \ {b} : shown'[o] = shown[o]
      /\ same => shown'[b] = shown[b]
      /\ ~same => shown'[b] = new
  BY <1>2, <1>5, <1>6
<1>8. /\ session' \in [Tab -> Person] /\ view' \in [Tab -> View]
      /\ session'[b] = u /\ view'[b] = v
      /\ \A o \in Tab \ {b} : session'[o] = session[o] /\ view'[o] = view[o]
  BY <1>1, <1>2
<1>9. /\ stale' \in [Tab -> SUBSET Ticket]
      /\ \A o \in Tab \ {b} : stale'[o] = stale[o]
      /\ same => stale'[b] = stale[b]
      /\ ~same /\ kept => AskedAbout(b) \subseteq stale'[b]
  BY <1>1, <1>2
<1>10. ~same => (shown'[b].busy <=> kept /\ shown[b].busy)
  BY <1>3, <1>6, <1>7
<1>11. QED
  BY <1>1, <1>6, <1>7, <1>8, <1>9, <1>10 DEF kept, same

\* The calls that stay are those of the page that stays, and of what is around it.
LEMMA CallsAfterShow ==
  ASSUME TypeInv, NEW b \in Tab, NEW u \in Person, NEW v \in View, NEW left, left \subseteq calls,
         v.page = "ticket" => v.ticket \in Ticket,
         Show(b, u, v, left), NEW c \in calls'
  PROVE  /\ CallTyped(c) /\ Placed(c)'
         /\ \/ c \in left /\ Stays(c, b, v.page, Kept(b, u, v))
            \/ /\ c \in Mounting(b, u, v) /\ ~Same(b, u, v) /\ Rendered(u, v.page)
               /\ c.tab = b /\ c.page = v.page /\ ~c.holds
               /\ v.page = "ticket" => c.arg = v.ticket
<1>1. /\ view'[b] = v
      /\ \A o \in Tab \ {b} : view'[o] = view[o]
      /\ calls' = {d \in left : Stays(d, b, v.page, Kept(b, u, v))}
                  \cup (IF Same(b, u, v) \/ ~Rendered(u, v.page) THEN {} ELSE Mounting(b, u, v))
  BY ShowDoes
<1>2. CASE c \in left /\ Stays(c, b, v.page, Kept(b, u, v))
  <2>1. CallTyped(c) /\ Placed(c) /\ c.tab \in Tab
    BY <1>2 DEF TypeInv, CallTyped
  <2>2. Placed(c)'
    BY <1>1, <1>2, <2>1 DEF Stays, Placed
  <2>3. QED
    BY <1>2, <2>1, <2>2
<1>3. CASE c \in Mounting(b, u, v) /\ ~Same(b, u, v) /\ Rendered(u, v.page)
  <2>1. /\ CallTyped(c) /\ c.tab = b /\ c.page = v.page /\ ~c.holds
        /\ v.page = "ticket" => c.arg = v.ticket
    BY <1>3, MountingTyped, Viewers
  <2>2. v.page \notin {"app", "site"}
    BY DEF View, Page, Pages
  <2>3. Placed(c)'
    BY <1>1, <2>1, <2>2 DEF Placed
  <2>4. QED
    BY <1>3, <2>1, <2>3
<1>4. QED
  BY <1>1, <1>2, <1>3

\* What is left of a handler is what its user was entitled to ask for.
LEMMA LeftBehindTyped ==
  ASSUME TypeInv, NEW b \in Tab, NEW page, NEW kept, NEW left, left \subseteq calls,
         NEW r \in LeftBehind(b, page, kept, left)
  PROVE  AdriftTyped(r)
<1>1. PICK c \in calls : r = Rest(c) /\ ~Stays(c, b, page, kept) /\ Len(c.plan) > 1
  BY DEF LeftBehind
<1>2. CallTyped(c) /\ c.page # "site" /\ c.plan \in Plan /\ Entitled(c.user, c.plan)
      /\ c.tab \in Tab /\ c.user \in Person
  BY <1>1 DEF Stays, TypeInv, CallTyped
<1>3. Len(c.plan) # 1
  <2>1. Len(c.plan) \in Nat /\ Len(c.plan) > 1
    BY <1>1, <1>2, NextOfPlan
  <2>2. \A n \in Nat : n > 1 => n # 1
    OBVIOUS
  <2>3. QED
    BY <2>1, <2>2
<1>5. Tail(c.plan) \in Plan
  BY <1>2, <1>3, NextOfPlan
<1>6. Entitled(c.user, Tail(c.plan))
  BY <1>2, <1>3, RestEntitled
<1>4. QED
  BY <1>1, <1>2, <1>5, <1>6 DEF Rest, AdriftTyped

LEMMA ShowTyped ==
  ASSUME TypeInv, NEW b \in Tab, NEW u \in Person, NEW v \in View, NEW left, left \subseteq calls,
         v.page # "public" => u \in User, v.page = "ticket" => v.ticket \in Ticket,
         Show(b, u, v, left),
         storage' \in [token : Person, profile : Person], storage'.token = storage'.profile,
         touched' \in [Tab -> BOOLEAN], ActsForWhomItShows'
  PROVE  TypeInv'
<1>1. /\ session' \in [Tab -> Person] /\ view' \in [Tab -> View]
      /\ shown' \in [Tab -> Parts] /\ stale' \in [Tab -> SUBSET Ticket]
      /\ session'[b] = u /\ view'[b] = v
      /\ \A o \in Tab \ {b} : session'[o] = session[o] /\ view'[o] = view[o]
      /\ adrift' = adrift \cup LeftBehind(b, v.page, Kept(b, u, v), left)
  BY ShowDoes
<1>2. \A c \in calls' : CallTyped(c) /\ Placed(c)'
  BY CallsAfterShow
<1>3. \A o \in Tab : TabOK(o)'
  <2>1. \A o \in Tab \ {b} : TabOK(o)'
    BY <1>1 DEF TypeInv, TabOK
  <2>2. TabOK(b)'
    BY <1>1 DEF TabOK
  <2>3. QED
    BY <2>1, <2>2
<1>4. Tables'
  BY <1>1 DEF Tables
<1>5. \A c \in adrift' : AdriftTyped(c)
  BY <1>1, LeftBehindTyped DEF TypeInv
<1>6. QED
  BY <1>2, <1>3, <1>4, <1>5 DEF TypeInv

\* A page for the user of the session, who is still the one of the token.
LEMMA ShowSelfTyped ==
  ASSUME TypeInv, NEW b \in Tab, NEW v \in View, NEW left, left \subseteq calls,
         v.page # "public" => session[b] \in User, v.page = "ticket" => v.ticket \in Ticket,
         Show(b, session[b], v, left), UNCHANGED <<storage, touched>>
  PROVE  TypeInv'
<1>1. session[b] \in Person /\ storage \in [token : Person, profile : Person]
      /\ touched \in [Tab -> BOOLEAN] /\ session \in [Tab -> Person]
  BY DEF TypeInv, Tables
<1>2. session' = session
  BY <1>1 DEF Show
<1>3. ActsForWhomItShows'
  BY <1>2 DEF TypeInv, ActsForWhomItShows
<1>4. storage.token = storage.profile
  BY DEF TypeInv
<1>5. QED
  BY <1>1, <1>3, <1>4, ShowTyped

LEMMA AtPage ==
  ASSUME NEW page \in Pages \cup {"public"}
  PROVE  At(page) \in View /\ At(page).page = page /\ At(page).page # "ticket"
BY DEF At, View, Page, Pages

LEMMA PagesTyped ==
  ASSUME TypeInv, NEW b \in Tab, Leave(b) \/ Enter(b) \/ Navigate(b)
  PROVE  TypeInv'
<1>1. session[b] \in Person
  BY DEF TypeInv, Tables
<1>2. CASE Leave(b)
  BY <1>2, AtPage, ShowSelfTyped DEF Leave
<1>3. CASE Enter(b)
  <2>1. session[b] \in User
    BY <1>1, <1>3 DEF Enter, Person
  <2>2. "dashboard" \in Pages
    BY DEF Pages
  <2>3. QED
    BY <1>3, <2>1, <2>2, AtPage, ShowSelfTyped DEF Enter
<1>4. CASE Navigate(b)
  <2>1. PICK page \in Pages : Show(b, session[b], At(page), calls)
    BY <1>4, ConsoleBounds DEF Navigate
  <2>2. UNCHANGED <<storage, touched>> /\ session[b] \in User
    BY <1>4 DEF Navigate, TypeInv, TabOK
  <2>3. QED
    BY <2>1, <2>2, AtPage, ShowSelfTyped
<1>5. QED
  BY <1>2, <1>3, <1>4

LEMMA TicketPage ==
  ASSUME NEW t \in Ticket
  PROVE  LET v == [page |-> "ticket", ticket |-> t]
         IN  v \in View /\ v.page = "ticket" /\ v.ticket = t
BY DEF View, Page

LEMMA SelectTyped ==
  ASSUME TypeInv, NEW b \in Tab, Select(b)
  PROVE  TypeInv'
<1>1. PICK t \in Ticket :
        Show(b, session[b], [page |-> "ticket", ticket |-> t], calls)
  BY DEF Select
<1>2. UNCHANGED <<storage, touched>> /\ session[b] \in User
  BY DEF Select, TypeInv, TabOK
<1>3. QED
  BY <1>1, <1>2, TicketPage, ShowSelfTyped

LEMMA CreatedTyped ==
  ASSUME TypeInv, NEW c \in calls, Created(c)
  PROVE  TypeInv'
<1>1. /\ c.page = "app" /\ UNCHANGED <<storage, touched>>
      /\ Show(c.tab, session[c.tab], [page |-> "ticket", ticket |-> c.arg], calls \ {c})
  BY DEF Created
<1>2. c.tab \in Tab /\ c.arg \in Ticket /\ session[c.tab] \in User
  BY <1>1 DEF TypeInv, CallTyped, Placed, TabOK
<1>3. QED
  BY <1>1, <1>2, TicketPage, ShowSelfTyped

LEMMA LogoutTyped ==
  ASSUME TypeInv, NEW b \in Tab, Logout(b)
  PROVE  TypeInv'
<1>1. /\ storage' = [token |-> NoOne, profile |-> NoOne]
      /\ touched' = [o \in Tab |-> o # b]
      /\ Show(b, NoOne, At("public"), calls)
  BY DEF Logout
<1>2. NoOne \in Person
  BY DEF Person
<1>3. session'[b] = NoOne
  BY <1>1, <1>2, AtPage, ShowDoes
<1>4. touched' \in [Tab -> BOOLEAN] /\ ActsForWhomItShows'
  BY <1>1, <1>3 DEF ActsForWhomItShows
<1>5. QED
  BY <1>1, <1>2, <1>4, AtPage, ShowTyped

\* Whoever has logged in is the user of the token and of his tab's session.
LEMMA SignedInDoes ==
  ASSUME TypeInv, NEW c \in calls, SignedIn(c)
  PROVE  \E v \in View :
           /\ v.page = "ticket" => v.ticket \in Ticket
           /\ c.tab \in Tab /\ c.arg \in User /\ c.arg \in Person /\ ~c.holds /\ c.page = "site"
           /\ storage' = [token |-> c.arg, profile |-> c.arg]
           /\ touched' = [o \in Tab |-> o # c.tab]
           /\ Show(c.tab, c.arg, v, calls \ {c})
<1>1. PICK v \in {view[c.tab]} \cup {w \in {At("dashboard")} : view[c.tab].page = "public"} :
        Show(c.tab, c.arg, v, calls \ {c})
  BY DEF SignedIn
<1>2. c.page = "site" /\ c.tab \in Tab /\ c.arg \in User /\ c.arg \in Person /\ ~c.holds
  BY DEF SignedIn, TypeInv, CallTyped, Person
<1>3. "dashboard" \in Pages
  BY DEF Pages
<1>4. v \in View /\ (v.page = "ticket" => v.ticket \in Ticket)
  BY <1>1, <1>2, <1>3, AtPage DEF TypeInv, Tables, TabOK
<1>5. QED
  BY <1>1, <1>2, <1>4 DEF SignedIn

LEMMA SignedInTyped ==
  ASSUME TypeInv, NEW c \in calls, SignedIn(c)
  PROVE  TypeInv'
<1>1. PICK v \in View :
           /\ v.page = "ticket" => v.ticket \in Ticket
           /\ c.tab \in Tab /\ c.arg \in User /\ c.arg \in Person
           /\ storage' = [token |-> c.arg, profile |-> c.arg]
           /\ touched' = [o \in Tab |-> o # c.tab]
           /\ Show(c.tab, c.arg, v, calls \ {c})
  BY SignedInDoes
<1>2. session'[c.tab] = c.arg
  BY <1>1, ShowDoes
<1>3. touched' \in [Tab -> BOOLEAN] /\ ActsForWhomItShows'
  BY <1>1, <1>2 DEF ActsForWhomItShows
<1>4. QED
  BY <1>1, <1>3, ShowTyped

LEMMA ReloadDoes ==
  ASSUME TypeInv, NEW b \in Tab, Reload(b)
  PROVE  \E u \in Person, v \in View :
           /\ u = storage.token
           /\ (v.page = "public" \/ (v = At("dashboard") /\ u \in User))
           /\ v.page # "ticket"
           /\ session' = [session EXCEPT ![b] = u] /\ view' = [view EXCEPT ![b] = v]
           /\ shown' = [shown EXCEPT ![b] = Blank]
           /\ touched' = [touched EXCEPT ![b] = FALSE]
           /\ stale' = [stale EXCEPT ![b] = {}]
           /\ calls' = {c \in calls : c.tab # b}
                       \cup (IF v.page = "public" THEN {} ELSE Mounting(b, u, v))
           /\ adrift' \subseteq adrift /\ UNCHANGED storage
<1> DEFINE u == IF storage.token = NoOne THEN NoOne ELSE storage.profile
           v == IF u = NoOne \/ view[b].page = "public" THEN At("public") ELSE At("dashboard")
<1>1. u = storage.token /\ u \in Person
  BY DEF TypeInv, Tables
<1>2. "dashboard" \in Pages
  BY DEF Pages
<1> HIDE DEF u, v
<1>3. v \in View /\ (v.page = "public" \/ (v = At("dashboard") /\ u \in User)) /\ v.page # "ticket"
  <2>1. CASE u = NoOne \/ view[b].page = "public"
    <3>1. v = At("public")
      BY <2>1 DEF v
    <3>2. QED
      BY <3>1, AtPage
  <2>2. CASE ~(u = NoOne \/ view[b].page = "public")
    <3>1. v = At("dashboard") /\ u \in User
      BY <1>1, <2>2 DEF Person, v
    <3>2. QED
      BY <1>2, <3>1, AtPage
  <2>3. QED
    BY <2>1, <2>2
<1>4. QED
  BY <1>1, <1>3 DEF Reload, u, v

\* The dashboard is for everybody.
LEMMA ReloadMounts ==
  ASSUME NEW b \in Tab, NEW u \in User, NEW v \in View, v = At("dashboard"),
         NEW c \in Mounting(b, u, v)
  PROVE  CallTyped(c) /\ c.tab = b /\ c.page = v.page /\ ~c.holds /\ Rendered(u, v.page)
<1>1. Rendered(u, v.page) /\ v.page # "ticket"
  BY DEF At, Rendered, Sees
<1>2. QED
  BY <1>1, MountingTyped

LEMMA ReloadTyped ==
  ASSUME TypeInv, NEW b \in Tab, Reload(b)
  PROVE  TypeInv'
<1>1. PICK u \in Person, v \in View :
           /\ u = storage.token
           /\ (v.page = "public" \/ (v = At("dashboard") /\ u \in User))
           /\ v.page # "ticket"
           /\ session' = [session EXCEPT ![b] = u] /\ view' = [view EXCEPT ![b] = v]
           /\ shown' = [shown EXCEPT ![b] = Blank]
           /\ touched' = [touched EXCEPT ![b] = FALSE]
           /\ stale' = [stale EXCEPT ![b] = {}]
           /\ calls' = {c \in calls : c.tab # b}
                       \cup (IF v.page = "public" THEN {} ELSE Mounting(b, u, v))
           /\ adrift' \subseteq adrift /\ UNCHANGED storage
  BY ReloadDoes
<1>2. Blank \in Parts
  BY DEF Blank, NoDraft, Parts
<1>3. Tables'
  BY <1>1, <1>2 DEF TypeInv, Tables
<1>4. /\ session'[b] = u /\ view'[b] = v /\ ~touched'[b]
      /\ \A o \in Tab \ {b} : /\ session'[o] = session[o] /\ view'[o] = view[o]
                              /\ touched'[o] = touched[o]
  BY <1>1 DEF TypeInv, Tables
<1>5. ASSUME NEW c \in calls'
      PROVE  CallTyped(c) /\ Placed(c)'
  <2>1. CASE c \in calls /\ c.tab # b
    <3>1. CallTyped(c) /\ Placed(c) /\ c.tab \in Tab
      BY <2>1 DEF TypeInv, CallTyped
    <3>2. QED
      BY <1>4, <2>1, <3>1 DEF Placed
  <2>2. CASE c \in Mounting(b, u, v) /\ v.page # "public"
    <3>1. CallTyped(c) /\ c.tab = b /\ c.page = v.page
      BY <1>1, <2>2, ReloadMounts
    <3>2. v.page \notin {"app", "site"}
      BY DEF View, Page, Pages
    <3>3. QED
      BY <1>4, <3>1, <3>2 DEF Placed
  <2>3. QED
    BY <1>1, <2>1, <2>2
<1>6. v.page # "public" => u \in User
  BY <1>1
<1>7. \A o \in Tab : TabOK(o)'
  BY <1>1, <1>4, <1>6 DEF TypeInv, TabOK
<1>8. ActsForWhomItShows'
  <2>1. storage = [token |-> u, profile |-> u]
    BY <1>1 DEF TypeInv, Tables
  <2>2. QED
    BY <1>1, <1>4, <2>1 DEF TypeInv, ActsForWhomItShows
<1>9. \A c \in adrift' : AdriftTyped(c)
  BY <1>1 DEF TypeInv
<1>10. QED
  BY <1>1, <1>3, <1>5, <1>7, <1>8, <1>9 DEF TypeInv

\* A request more in flight, from where the tab is.
LEMMA AskTyped ==
  ASSUME TypeInv, UNCHANGED <<storage, session, view, touched>>,
         shown' \in [Tab -> Parts], stale' \in [Tab -> SUBSET Ticket],
         \A c \in adrift' : AdriftTyped(c),
         \A c \in calls' : c \in calls \/ (CallTyped(c) /\ Placed(c))
  PROVE  TypeInv'
<1>1. \A c \in calls' : CallTyped(c) /\ Placed(c)'
  BY DEF TypeInv, Placed
<1>2. Tables' /\ (\A b \in Tab : TabOK(b)') /\ ActsForWhomItShows'
  BY DEF TypeInv, Tables, TabOK, ActsForWhomItShows
<1>3. QED
  BY <1>1, <1>2 DEF TypeInv

LEMMA SignInTyped ==
  ASSUME TypeInv, NEW b \in Tab, SignIn(b)
  PROVE  TypeInv'
<1>1. PICK u \in User, plan \in {<<"login">>, <<"signup">>} :
        Ask(b, "site", plan, u, FALSE)
  BY ConsoleBounds DEF SignIn
<1>2. plan \in Plan
  BY ShortPlans DEF Op, Later
<1> DEFINE c == Request(b, session[b], "site", plan, u, FALSE)
<1>3. CallTyped(c) /\ Placed(c)
  BY <1>2 DEF TypeInv, Tables, CallTyped, Placed, Request, Person, Asking
<1>4. calls' = calls \cup {c} /\ UNCHANGED <<storage, session, view, shown, adrift, touched, stale>>
  BY <1>1 DEF Ask, SignIn
<1> HIDE DEF c
<1>5. QED
  BY <1>3, <1>4, AskTyped DEF TypeInv, Tables

LEMMA NewTicketDoes ==
  ASSUME TypeInv, NEW b \in Tab, NewTicket(b)
  PROVE  \E t \in Ticket, plan \in Plan :
           /\ Head(plan) \in {"create", "new_customer"}
           /\ session[b] \in User /\ session[b] \in Permits(Head(plan))
           /\ calls' = calls \cup {Request(b, session[b], "app", plan, t, FALSE)}
           /\ view[b].page = "queue" /\ UNCHANGED <<storage, session, view, shown, adrift, touched, stale>>
<1>1. PICK t \in Ticket, plan \in {<<"create", "list">>, <<"new_customer", "create", "list">>} :
        Ask(b, "app", plan, t, FALSE)
  BY DEF NewTicket
<1>2. /\ "create" \in Op /\ "new_customer" \in Op /\ "create" \in Later /\ "list" \in Later
  BY DEF Op, Later
<1>3. plan \in Plan /\ Head(plan) \in {"create", "new_customer"}
  <2>1. <<"create", "list">> \in Plan /\ Head(<<"create", "list">>) = "create"
    BY <1>2, ShortPlans
  <2>2. /\ <<"new_customer", "create", "list">> \in Plan
        /\ Head(<<"new_customer", "create", "list">>) = "new_customer"
    BY <1>2, ShortPlans
  <2>3. QED
    BY <2>1, <2>2
<1>4. session[b] \in User /\ session[b] \in Permits(Head(plan))
  <2>1. session[b] \in User
    BY DEF NewTicket, TypeInv, TabOK
  <2>2. QED
    BY <1>3, <2>1 DEF Permits
<1>5. QED
  BY <1>1, <1>3, <1>4 DEF Ask, NewTicket

LEMMA NewTicketTyped ==
  ASSUME TypeInv, NEW b \in Tab, NewTicket(b)
  PROVE  TypeInv'
<1>1. PICK t \in Ticket, plan \in Plan :
           /\ session[b] \in User /\ session[b] \in Permits(Head(plan))
           /\ calls' = calls \cup {Request(b, session[b], "app", plan, t, FALSE)}
           /\ view[b].page = "queue" /\ UNCHANGED <<storage, session, view, shown, adrift, touched, stale>>
  BY NewTicketDoes
<1> DEFINE c == Request(b, session[b], "app", plan, t, FALSE)
<1>2. CallTyped(c) /\ Placed(c)
  <2>1. Entitled(session[b], plan)
    BY <1>1, PlanEntitled
  <2>2. QED
    BY <1>1, <2>1 DEF CallTyped, Placed, Request, Person, Asking
<1> HIDE DEF c
<1>3. calls' = calls \cup {c}
  BY <1>1 DEF c
<1>4. QED
  BY <1>1, <1>2, <1>3, AskTyped DEF TypeInv, Tables

\* What a page offers on a click the server permits to who is shown it.
LEMMA ClickDoes ==
  ASSUME TypeInv, NEW b \in Tab, Click(b)
  PROVE  \E plan \in Plan :
           /\ calls' = calls \cup {Request(b, session[b], view[b].page, plan, NoOne, FALSE)}
           /\ view[b].page \in Pages /\ session[b] \in User
           /\ session[b] \in Permits(Head(plan))
           /\ UNCHANGED <<storage, session, view, shown, adrift, touched, stale>>
<1>1. PICK plan \in Clicks(view[b].page) :
        session[b] \in Offers(plan) /\ Ask(b, view[b].page, plan, NoOne, FALSE)
  BY DEF Click
<1>2. /\ session[b] \in User /\ session[b] \in Sees(view[b].page)
      /\ UNCHANGED <<storage, session, view, shown, adrift, touched, stale>>
  <2>1. view[b].page # "public" /\ session[b] \in Sees(view[b].page)
    BY DEF Click, Rendered
  <2>2. UNCHANGED <<storage, session, view, shown, adrift, touched, stale>>
    BY <1>1 DEF Click, Ask
  <2>3. QED
    BY <2>1, <2>2 DEF TypeInv, TabOK
<1>3. view[b].page \in {"documents", "eval", "admin", "platform"}
  BY <1>1 DEF Clicks
<1> SUFFICES plan \in Plan /\ session[b] \in Permits(Head(plan))
  BY <1>1, <1>2, <1>3 DEF Ask, Pages
<1>4. CASE view[b].page = "documents"
  <2>1. plan = <<"ingest", "list">> \/ plan = <<"search">>
    BY <1>1, <1>4 DEF Clicks, Documents
  <2>2. <<"ingest", "list">> \in Plan /\ <<"search">> \in Plan
    BY ShortPlans DEF Op, Later
  <2>3. plan = <<"ingest", "list">> => session[b] \in Admins
    BY <1>1 DEF Offers
  <2>4. QED
    BY <1>2, <2>1, <2>2, <2>3 DEF Permits
<1>5. CASE view[b].page = "eval"
  <2>1. plan = <<"start_eval", "run_eval">>
    BY <1>1, <1>5 DEF Clicks, EvalReport
  <2>2. <<"start_eval", "run_eval">> \in Plan
    BY EvalPlan
  <2>3. session[b] \in Admins
    BY <1>1, <2>1 DEF Offers
  <2>4. session[b] \in Default
    BY <1>2, <1>5 DEF Sees
  <2>5. QED
    BY <1>2, <2>1, <2>2, <2>3, <2>4 DEF Permits
<1>6. CASE view[b].page = "admin"
  <2>1. plan = <<"consent">> \/ plan = <<"invite">> \/ plan = <<"create_org">>
    BY <1>1, <1>6 DEF Clicks, Admin
  <2>2. <<"consent">> \in Plan /\ <<"invite">> \in Plan /\ <<"create_org">> \in Plan
    BY ShortPlans DEF Op, Later
  <2>3. session[b] \in Admins
    BY <1>2, <1>6 DEF Sees
  <2>4. plan = <<"create_org">> => session[b] \in Default
    BY <1>1 DEF Offers
  <2>5. QED
    BY <1>2, <2>1, <2>2, <2>3, <2>4 DEF Permits
<1>7. CASE view[b].page = "platform"
  <2>1. plan = <<"platform">>
    BY <1>1, <1>7 DEF Clicks, PlatformSupport
  <2>2. <<"platform">> \in Plan
    BY ShortPlans DEF Op, Later
  <2>3. session[b] \in Default
    BY <1>2, <1>7 DEF Sees
  <2>4. QED
    BY <1>2, <2>1, <2>2, <2>3 DEF Permits
<1>8. QED
  BY <1>3, <1>4, <1>5, <1>6, <1>7

LEMMA ClickTyped ==
  ASSUME TypeInv, NEW b \in Tab, Click(b)
  PROVE  TypeInv'
<1>1. PICK plan \in Plan :
           /\ calls' = calls \cup {Request(b, session[b], view[b].page, plan, NoOne, FALSE)}
           /\ view[b].page \in Pages /\ session[b] \in User
           /\ session[b] \in Permits(Head(plan))
           /\ UNCHANGED <<storage, session, view, shown, adrift, touched, stale>>
  BY ClickDoes
<1> DEFINE c == Request(b, session[b], view[b].page, plan, NoOne, FALSE)
<1>2. CallTyped(c) /\ Placed(c)
  <2>1. Entitled(session[b], plan)
    BY <1>1, PlanEntitled
  <2>2. QED
    BY <1>1, <2>1 DEF CallTyped, Placed, Request, Person, Page, Pages, Asking
<1> HIDE DEF c
<1>3. calls' = calls \cup {c}
  BY <1>1 DEF c
<1>4. QED
  BY <1>1, <1>2, <1>3, AskTyped DEF TypeInv, Tables

\* ----- the parts of a ticket page ----------------------------------------
LEMMA BusyOnly ==
  ASSUME NEW p \in Parts, NEW x \in BOOLEAN,
         NEW q, q = [p EXCEPT !.busy = x]
  PROVE  /\ q \in Parts /\ q.busy = x
         /\ q.detail = p.detail /\ q.triage = p.triage /\ q.draft = p.draft /\ q.thread = p.thread
BY DEF Parts

\* An answer about a ticket puts that ticket into the parts, or leaves them.
LEMMA UpdatedParts ==
  ASSUME NEW p \in Parts, NEW op, NEW t \in Ticket,
         NEW q, q = Updated(p, op, t)
  PROVE  /\ q \in Parts /\ q.busy = p.busy
         /\ q.detail \in {p.detail, t} /\ q.triage \in {p.triage, t}
         /\ q.draft.of \in {p.draft.of, t, NoOne} /\ q.thread \subseteq p.thread \cup {t}
<1>0. /\ NoDraft \in [of : Ticket \cup {NoOne}, sent : BOOLEAN] /\ NoDraft.of = NoOne
  BY DEF NoDraft
<1>1. CASE op = "get_ticket"
  <2>1. q = [p EXCEPT !.detail = t, !.triage = t]
    BY <1>1 DEF Updated
  <2>2. QED
    BY <2>1 DEF Parts
<1>2. CASE op = "refresh"
  <2>1. q = [p EXCEPT !.detail = t]
    BY <1>2 DEF Updated
  <2>2. QED
    BY <2>1 DEF Parts
<1>3. CASE op \in {"messages", "reload"}
  <2>1. q = [p EXCEPT !.thread = {t}]
    BY <1>3 DEF Updated
  <2>2. QED
    BY <2>1 DEF Parts
<1>4. CASE op = "triage"
  <2>1. q = [p EXCEPT !.triage = t, !.draft = NoDraft]
    BY <1>4 DEF Updated
  <2>2. QED
    BY <1>0, <2>1 DEF Parts
<1>5. CASE op \in {"draft", "auto_draft"}
  <2>1. PICK sent \in BOOLEAN : sent = (op = "auto_draft")
    BY Zenon
  <2>2. q = [p EXCEPT !.draft = [of |-> t, sent |-> sent]]
    BY <1>5, <2>1 DEF Updated
  <2>3. QED
    BY <2>2 DEF Parts
<1>6. CASE op = "send"
  <2>1. q = [p EXCEPT !.draft = NoDraft]
    BY <1>6 DEF Updated
  <2>2. QED
    BY <1>0, <2>1 DEF Parts
<1>7. CASE op = "reply"
  <2>1. q = [p EXCEPT !.thread = @ \cup {t}]
    BY <1>7 DEF Updated
  <2>2. QED
    BY <2>1 DEF Parts
<1>8. CASE op \notin {"get_ticket", "refresh", "messages", "reload", "triage", "draft",
                      "auto_draft", "send", "reply"}
  <2>1. q = p
    BY <1>8 DEF Updated
  <2>2. QED
    BY <2>1
<1>9. QED
  BY <1>1, <1>2, <1>3, <1>4, <1>5, <1>6, <1>7, <1>8

\* The buttons that disable the others are offered only while no other runs,
\* and decisions only to managers.
LEMMA TicketPlans ==
  ASSUME NEW p \in Parts, NEW u \in User,
         NEW plan \in (IF p.busy THEN {} ELSE Buttons(p)) \cup Panels(p, u)
  PROVE  /\ plan \in Plan /\ u \in Permits(Head(plan))
         /\ Holds(plan) => ~p.busy
<1>1. /\ <<"triage", "refresh">> \in Plan /\ <<"simulate", "refresh", "reload">> \in Plan
      /\ <<"resolve", "refresh">> \in Plan /\ <<"draft">> \in Plan
      /\ <<"auto_draft", "messages", "refresh">> \in Plan
      /\ <<"send", "refresh", "reload">> \in Plan /\ <<"reply", "refresh">> \in Plan
      /\ <<"request">> \in Plan /\ <<"decide">> \in Plan
  BY ShortPlans DEF Op, Later
<1>2. CASE plan \in Buttons(p) /\ ~p.busy
  <2>1. \/ plan = <<"triage", "refresh">> \/ plan = <<"simulate", "refresh", "reload">>
        \/ plan = <<"resolve", "refresh">> \/ plan = <<"draft">>
        \/ plan = <<"auto_draft", "messages", "refresh">> \/ plan = <<"send", "refresh", "reload">>
    BY <1>2 DEF Buttons
  <2>2. Head(plan) \in {"triage", "simulate", "resolve", "draft", "auto_draft", "send"}
    BY <2>1
  <2>3. u \in Permits(Head(plan))
    BY <2>2 DEF Permits
  <2>4. QED
    BY <1>1, <1>2, <2>1, <2>3
<1>3. CASE plan \in Panels(p, u)
  <2>1. \/ plan = <<"reply", "refresh">> \/ plan = <<"request">>
        \/ plan = <<"decide">> /\ u \in Managers
    BY <1>3 DEF Panels, ChatThread, ActionPanel
  <2>2. Head(plan) \in {"reply", "request"} \/ (Head(plan) = "decide" /\ u \in Managers)
    BY <2>1
  <2>3. u \in Permits(Head(plan))
    BY <2>2 DEF Permits
  <2>4. ~Holds(plan)
    BY <2>2 DEF Holds
  <2>5. QED
    BY <1>1, <2>1, <2>3, <2>4
<1>4. QED
  BY <1>2, <1>3

LEMMA ClickTicketDoes ==
  ASSUME TypeInv, NEW b \in Tab, ClickTicket(b)
  PROVE  \E plan \in Plan, holds \in BOOLEAN :
           /\ calls' = calls \cup {Request(b, session[b], "ticket", plan, view[b].ticket, holds)}
           /\ shown' \in [Tab -> Parts]
           /\ \A o \in Tab \ {b} : shown'[o] = shown[o]
           /\ shown'[b].busy <=> shown[b].busy \/ holds
           /\ shown'[b].detail = shown[b].detail /\ shown'[b].triage = shown[b].triage
           /\ shown'[b].draft = shown[b].draft /\ shown'[b].thread = shown[b].thread
           /\ holds => ~shown[b].busy
           /\ session[b] \in Permits(Head(plan))
           /\ view[b].page = "ticket" /\ view[b].ticket \in Ticket /\ session[b] \in User
           /\ UNCHANGED <<storage, session, view, adrift, touched, stale>>
<1>1. PICK plan \in (IF shown[b].busy THEN {} ELSE Buttons(shown[b]))
                    \cup Panels(shown[b], session[b]) :
        /\ Ask(b, "ticket", plan, view[b].ticket, Holds(plan))
        /\ shown' = [shown EXCEPT ![b].busy = @ \/ Holds(plan)]
  BY DEF ClickTicket
<1>2. /\ view[b].page = "ticket" /\ view[b].ticket \in Ticket /\ session[b] \in User
      /\ shown[b] \in Parts
  BY DEF ClickTicket, TypeInv, TabOK, Tables
<1>3. UNCHANGED <<storage, session, view, adrift, touched, stale>>
  BY <1>1 DEF ClickTicket, Ask
<1>4. PICK holds \in BOOLEAN : holds = Holds(plan)
  <2>1. Holds(plan) \in BOOLEAN
    BY DEF Holds
  <2>2. QED
    BY <2>1, Zenon
<1>5. PICK busy \in BOOLEAN : busy = (shown[b].busy \/ holds)
  BY Zenon
<1>6. PICK q : q = [shown[b] EXCEPT !.busy = busy]
  OBVIOUS
<1>7. /\ q \in Parts /\ q.busy = busy
      /\ q.detail = shown[b].detail /\ q.triage = shown[b].triage
      /\ q.draft = shown[b].draft /\ q.thread = shown[b].thread
  BY <1>2, <1>6, BusyOnly
<1>8. shown' = [shown EXCEPT ![b] = q]
  BY <1>1, <1>4, <1>5, <1>6
<1>9. /\ shown' \in [Tab -> Parts] /\ shown'[b] = q
      /\ \A o \in Tab \ {b} : shown'[o] = shown[o]
  BY <1>7, <1>8 DEF TypeInv, Tables
<1>10. calls' = calls \cup {Request(b, session[b], "ticket", plan, view[b].ticket, holds)}
  BY <1>1, <1>4 DEF Ask
<1>11. plan \in Plan /\ session[b] \in Permits(Head(plan)) /\ (holds => ~shown[b].busy)
  BY <1>2, <1>4, TicketPlans
<1>12. shown'[b].busy <=> shown[b].busy \/ holds
  BY <1>5, <1>7, <1>9
<1>13. QED
  BY <1>2, <1>3, <1>7, <1>9, <1>10, <1>11, <1>12

LEMMA ClickTicketTyped ==
  ASSUME TypeInv, NEW b \in Tab, ClickTicket(b)
  PROVE  TypeInv'
<1>1. PICK plan \in Plan, holds \in BOOLEAN :
           /\ calls' = calls \cup {Request(b, session[b], "ticket", plan, view[b].ticket, holds)}
           /\ shown' \in [Tab -> Parts]
           /\ view[b].page = "ticket" /\ view[b].ticket \in Ticket
           /\ session[b] \in User /\ session[b] \in Permits(Head(plan))
           /\ UNCHANGED <<storage, session, view, adrift, touched, stale>>
  BY ClickTicketDoes
<1> DEFINE c == Request(b, session[b], "ticket", plan, view[b].ticket, holds)
<1>2. CallTyped(c) /\ Placed(c)
  <2>1. Entitled(session[b], plan)
    BY <1>1, PlanEntitled
  <2>2. QED
    BY <1>1, <2>1 DEF CallTyped, Placed, Request, Person, Page, Asking
<1> HIDE DEF c
<1>3. calls' = calls \cup {c}
  BY <1>1 DEF c
<1>4. QED
  BY <1>1, <1>2, <1>3, AskTyped DEF TypeInv, Tables

\* ----- the answers -------------------------------------------------------
LEMMA FailsDoes ==
  ASSUME TypeInv, NEW c \in calls, Fails(c)
  PROVE  /\ shown' \in [Tab -> Parts] /\ c.tab \in Tab
         /\ \A o \in Tab \ {c.tab} : shown'[o] = shown[o]
         /\ shown'[c.tab].busy <=> shown[c.tab].busy /\ ~c.holds
         /\ shown'[c.tab].detail = shown[c.tab].detail /\ shown'[c.tab].triage = shown[c.tab].triage
         /\ shown'[c.tab].draft = shown[c.tab].draft /\ shown'[c.tab].thread = shown[c.tab].thread
<1>1. c.tab \in Tab /\ shown[c.tab] \in Parts
  BY DEF TypeInv, Tables, CallTyped
<1>2. PICK busy \in BOOLEAN : busy = (shown[c.tab].busy /\ ~c.holds)
  BY Zenon
<1>3. PICK q : q = [shown[c.tab] EXCEPT !.busy = busy]
  OBVIOUS
<1>4. /\ q \in Parts /\ q.busy = busy
      /\ q.detail = shown[c.tab].detail /\ q.triage = shown[c.tab].triage
      /\ q.draft = shown[c.tab].draft /\ q.thread = shown[c.tab].thread
  BY <1>1, <1>3, BusyOnly
<1>5. shown' = [shown EXCEPT ![c.tab] = q]
  BY <1>2, <1>3 DEF Fails
<1>6. /\ shown' \in [Tab -> Parts] /\ shown'[c.tab] = q
      /\ \A o \in Tab \ {c.tab} : shown'[o] = shown[o]
  BY <1>1, <1>4, <1>5 DEF TypeInv, Tables
<1>7. QED
  BY <1>1, <1>2, <1>4, <1>6

LEMMA FailsTyped ==
  ASSUME TypeInv, NEW c \in calls, Fails(c)
  PROVE  TypeInv'
<1>1. shown' \in [Tab -> Parts]
  BY FailsDoes
<1>2. calls' \subseteq calls /\ UNCHANGED <<storage, session, view, adrift, touched, stale>>
  BY DEF Fails
<1>3. QED
  BY <1>1, <1>2, AskTyped DEF TypeInv, Tables

\* The next request of a plan goes where the one before went.
LEMMA FollowingTyped ==
  ASSUME TypeInv, NEW c \in calls, c.page # "site", NEW n \in Following(c)
  PROVE  /\ CallTyped(n) /\ Placed(n)
         /\ n.tab = c.tab /\ n.page = c.page /\ n.arg = c.arg
         /\ n.holds => c.holds
         /\ Head(n.plan) \in Later \cup {"run_eval"}
         /\ Following(c) = {n}
<1>1. CallTyped(c) /\ Placed(c) /\ c.plan \in Plan
  BY DEF TypeInv, CallTyped
<1>2. Len(c.plan) # 1
  BY DEF Following
<1>3. PICK holds \in BOOLEAN : holds = (c.holds /\ c.plan[2] # "reload")
  BY Zenon
<1>4. Following(c) = {Request(c.tab, c.user, c.page, Tail(c.plan), c.arg, holds)}
  BY <1>2, <1>3 DEF Following
<1>5. n = Request(c.tab, c.user, c.page, Tail(c.plan), c.arg, holds)
  BY <1>4
<1>6. /\ Tail(c.plan) \in Plan /\ Head(Tail(c.plan)) \in Later \cup {"run_eval"}
      /\ Entitled(c.user, Tail(c.plan))
  <2>1. Entitled(c.user, c.plan)
    BY <1>1 DEF CallTyped
  <2>2. QED
    BY <1>1, <1>2, <2>1, NextOfPlan, RestEntitled
<1>7. holds => c.holds
  BY <1>3
<1>8. QED
  BY <1>1, <1>4, <1>5, <1>6, <1>7 DEF Request, CallTyped, Placed

\* Does the handler c is of go on with a request that holds the buttons?
Goes(c) == c.holds => \E n \in Following(c) : n.holds

LEMMA ArrivesDoes ==
  ASSUME TypeInv, NEW c \in calls, Arrives(c)
  PROVE  /\ shown' \in [Tab -> Parts] /\ c.tab \in Tab /\ c.page # "site"
         /\ calls' = (calls \ {c}) \cup Following(c)
         /\ UNCHANGED <<storage, session, view, adrift, touched, stale>>
         /\ c.page # "ticket" => shown' = shown
         /\ c.page = "ticket" =>
              /\ c.arg \in Ticket /\ view[c.tab].page = "ticket"
              /\ \A o \in Tab \ {c.tab} : shown'[o] = shown[o]
              /\ shown'[c.tab].busy <=>
                   shown[c.tab].busy /\ Goes(c)
              /\ shown'[c.tab].detail \in {shown[c.tab].detail, c.arg}
              /\ shown'[c.tab].triage \in {shown[c.tab].triage, c.arg}
              /\ shown'[c.tab].draft.of \in {shown[c.tab].draft.of, c.arg, NoOne}
              /\ shown'[c.tab].thread \subseteq shown[c.tab].thread \cup {c.arg}
<1>1. /\ c.tab \in Tab /\ shown[c.tab] \in Parts /\ shown \in [Tab -> Parts] /\ c.page # "site"
      /\ c.page = "ticket" => c.arg \in Ticket /\ view[c.tab].page = "ticket"
  BY DEF TypeInv, Tables, CallTyped, Placed, Arrives
<1>2. /\ calls' = (calls \ {c}) \cup Following(c)
      /\ UNCHANGED <<storage, session, view, adrift, touched, stale>>
      /\ c.page # "ticket" => shown' = shown
  BY DEF Arrives
<1>3. CASE c.page = "ticket"
  <2>1. PICK p : p = Updated(shown[c.tab], Head(c.plan), c.arg)
    OBVIOUS
  <2>2. /\ p \in Parts /\ p.busy = shown[c.tab].busy
        /\ p.detail \in {shown[c.tab].detail, c.arg} /\ p.triage \in {shown[c.tab].triage, c.arg}
        /\ p.draft.of \in {shown[c.tab].draft.of, c.arg, NoOne}
        /\ p.thread \subseteq shown[c.tab].thread \cup {c.arg}
    BY <1>1, <1>3, <2>1, UpdatedParts
  <2> DEFINE busy == p.busy /\ Goes(c)
  <2>3. busy \in BOOLEAN
    OBVIOUS
  <2>6. shown' = [shown EXCEPT ![c.tab] =
          [Updated(shown[c.tab], Head(c.plan), c.arg) EXCEPT !.busy = @ /\ Goes(c)]]
    BY <1>3 DEF Arrives, Goes
  <2>7. shown' = [shown EXCEPT ![c.tab] = [p EXCEPT !.busy = busy]]
    <3>1. shown' = [shown EXCEPT ![c.tab] = [p EXCEPT !.busy = @ /\ Goes(c)]]
      BY ONLY <2>1, <2>6
    <3>2. [p EXCEPT !.busy = @ /\ Goes(c)] = [p EXCEPT !.busy = busy]
      BY ONLY <2>2 DEF busy, Parts
    <3>3. QED
      BY ONLY <3>1, <3>2
  <2> HIDE DEF busy
  <2>4. PICK q : q = [p EXCEPT !.busy = busy]
    OBVIOUS
  <2>5. /\ q \in Parts /\ q.busy = busy
        /\ q.detail = p.detail /\ q.triage = p.triage /\ q.draft = p.draft /\ q.thread = p.thread
    BY <2>2, <2>3, <2>4, BusyOnly
  <2>8. /\ shown' \in [Tab -> Parts] /\ shown'[c.tab] = q
        /\ \A o \in Tab \ {c.tab} : shown'[o] = shown[o]
    BY <1>1, <2>4, <2>5, <2>7
  <2>9. shown'[c.tab].busy <=>
          shown[c.tab].busy /\ Goes(c)
    BY <2>2, <2>5, <2>8 DEF busy
  <2>10. QED
    BY <1>1, <1>2, <1>3, <2>2, <2>5, <2>8, <2>9
<1>4. CASE c.page # "ticket"
  BY <1>1, <1>2, <1>4
<1>5. QED
  BY <1>3, <1>4

LEMMA ArrivesTyped ==
  ASSUME TypeInv, NEW c \in calls, Arrives(c)
  PROVE  TypeInv'
<1>1. /\ shown' \in [Tab -> Parts] /\ c.page # "site"
      /\ calls' = (calls \ {c}) \cup Following(c)
      /\ UNCHANGED <<storage, session, view, adrift, touched, stale>>
  BY ArrivesDoes
<1>2. \A n \in Following(c) : CallTyped(n) /\ Placed(n)
  BY <1>1, FollowingTyped
<1>3. QED
  BY <1>1, <1>2, AskTyped DEF TypeInv, Tables

\* A handler without its page goes on with what its user was entitled to.
LEMMA GoesOnTyped ==
  ASSUME TypeInv, NEW c \in adrift, GoesOn(c)
  PROVE  TypeInv' /\ UNCHANGED <<storage, session, view, shown, calls, touched, stale>>
<1>1. /\ UNCHANGED <<storage, session, view, shown, calls, touched, stale>>
      /\ \A d \in adrift' : d \in adrift \/ (d = Rest(c) /\ Len(c.plan) # 1)
  BY DEF GoesOn
<1>2. c.plan \in Plan /\ Entitled(c.user, c.plan) /\ c.tab \in Tab /\ c.user \in Person
  BY DEF TypeInv, AdriftTyped
<1>3. Len(c.plan) # 1 => AdriftTyped(Rest(c))
  <2>1. Len(c.plan) # 1 => Tail(c.plan) \in Plan /\ Entitled(c.user, Tail(c.plan))
    BY <1>2, NextOfPlan, RestEntitled
  <2>2. QED
    BY <1>2, <2>1 DEF Rest, AdriftTyped
<1>4. \A d \in adrift' : AdriftTyped(d)
  BY <1>1, <1>3 DEF TypeInv
<1>5. QED
  BY <1>1, <1>4, AskTyped DEF TypeInv, Tables

LEMMA StepTyped == TypeInv /\ [Next]_vars => TypeInv'
<1> SUFFICES ASSUME TypeInv, [Next]_vars PROVE TypeInv'
  OBVIOUS
<1>1. ASSUME NEW b \in Tab, Act(b) PROVE TypeInv'
  BY <1>1, SignInTyped, PagesTyped, SelectTyped, NewTicketTyped, ClickTicketTyped, ClickTyped,
     LogoutTyped, ReloadTyped DEF Act
<1>2. ASSUME NEW c \in calls, Settle(c) PROVE TypeInv'
  BY <1>2, FailsTyped, SignedInTyped, CreatedTyped, ArrivesTyped DEF Settle
<1>3. ASSUME NEW c \in adrift, GoesOn(c) PROVE TypeInv'
  BY <1>3, GoesOnTyped
<1>4. CASE UNCHANGED vars
  BY <1>4, AskTyped DEF vars, TypeInv, Tables
<1>5. QED
  BY <1>1, <1>2, <1>3, <1>4 DEF Next

LEMMA Typed == Spec => []TypeInv
BY InitTyped, StepTyped, PTL DEF Spec

\* Every variable of the console keeps its type, whichever answers arrive when
\* and after whatever the user did meanwhile.
THEOREM TypeCorrect == Spec => []TypeOK
BY Typed, InvariantTyped, PTL

\* A tab acts with the token of the user it shows, unless another tab logged in
\* or out since: login and signup keep all of the session or nothing, a logout
\* leaves nothing behind, a reload starts from what is kept (App, api.ts).
THEOREM OneUser == Spec => []ActsForWhomItShows
<1>1. TypeInv => ActsForWhomItShows
  BY DEF TypeInv
<1>2. QED
  BY <1>1, Typed, PTL

\* ----- one ticket --------------------------------------------------------
Own(b) == {view[b].ticket} \cup stale[b]
ShowsOne(b) ==
  view[b].page = "ticket" =>
    /\ shown[b].detail \in Own(b) \cup {NoOne} /\ shown[b].triage \in Own(b) \cup {NoOne}
    /\ shown[b].draft.of \in Own(b) \cup {NoOne}
    /\ shown[b].thread \subseteq Own(b)
    /\ \A c \in calls : c.tab = b /\ c.page = "ticket" => c.arg \in Own(b)
TicketInv == \A b \in Tab : ShowsOne(b)

\* An instance that stays with its ticket keeps that ticket's parts and calls; one
\* that is given another ticket starts blank and remembers what it was asking
\* about; a new one starts blank, and no call of an earlier one stays with it.
LEMMA ShowKeepsTicket ==
  ASSUME TypeInv, TicketInv, NEW b \in Tab, NEW u \in Person, NEW v \in View,
         NEW left, left \subseteq calls,
         v.page = "ticket" => v.ticket \in Ticket, Show(b, u, v, left)
  PROVE  TicketInv'
<1>1. /\ view'[b] = v
      /\ \A o \in Tab \ {b} : /\ view'[o] = view[o] /\ shown'[o] = shown[o]
                              /\ stale'[o] = stale[o]
      /\ Same(b, u, v) => shown'[b] = shown[b] /\ stale'[b] = stale[b]
      /\ ~Same(b, u, v) =>
           /\ shown'[b].detail = NoOne /\ shown'[b].triage = NoOne
           /\ shown'[b].thread = {} /\ shown'[b].draft.of = NoOne
           /\ Kept(b, u, v) => AskedAbout(b) \subseteq stale'[b]
  BY ShowDoes
<1>2. \A c \in calls' :
        \/ c \in calls /\ Stays(c, b, v.page, Kept(b, u, v))
        \/ /\ ~Same(b, u, v) /\ c.tab = b /\ c.page = v.page
           /\ v.page = "ticket" => c.arg = v.ticket
  BY CallsAfterShow
<1>3. ASSUME NEW o \in Tab \ {b} PROVE ShowsOne(o)'
  <2>1. \A c \in calls' : c.tab = o => c \in calls
    BY <1>2
  <2>2. Own(o)' = Own(o)
    BY <1>1 DEF Own
  <2>3. QED
    BY <1>1, <2>1, <2>2 DEF TicketInv, ShowsOne
<1>4. ShowsOne(b)'
  <2>1. CASE Same(b, u, v)
    <3>1. view[b] = v /\ Own(b)' = Own(b)
      BY <1>1, <2>1 DEF Same, Own
    <3>2. \A c \in calls' : c \in calls
      BY <1>2, <2>1
    <3>3. ShowsOne(b)
      BY DEF TicketInv
    <3>4. QED
      BY <1>1, <2>1, <3>1, <3>2, <3>3 DEF ShowsOne
  <2>2. CASE ~Same(b, u, v)
    <3>1. v.page = "ticket" =>
            \A c \in calls' : c.tab = b /\ c.page = "ticket" =>
              c.arg = v.ticket \/ (Kept(b, u, v) /\ c.arg \in AskedAbout(b))
      BY <1>2 DEF Stays, AskedAbout
    <3>2. v.page = "ticket" =>
            \A c \in calls' : c.tab = b /\ c.page = "ticket" => c.arg \in Own(b)'
      BY <1>1, <2>2, <3>1 DEF Own
    <3>3. QED
      BY <1>1, <2>2, <3>2 DEF ShowsOne
  <2>3. QED
    BY <2>1, <2>2
<1>5. QED
  BY <1>3, <1>4 DEF TicketInv

\* The steps that show a page.
LEMMA ShowSteps ==
  ASSUME TypeInv,
         \/ \E b \in Tab : Leave(b) \/ Enter(b) \/ Navigate(b) \/ Select(b) \/ Logout(b)
         \/ \E c \in calls : SignedIn(c) \/ Created(c)
  PROVE  \E b \in Tab, u \in Person, v \in View, left \in SUBSET calls :
           /\ v.page = "ticket" => v.ticket \in Ticket
           /\ v.page # "public" => u \in User
           /\ \A c \in calls \ left : ~c.holds
           /\ Show(b, u, v, left)
<1>1. ASSUME NEW b \in Tab, Leave(b) \/ Enter(b) \/ Navigate(b)
      PROVE  \E v \in View :
               /\ v.page = "ticket" => v.ticket \in Ticket
               /\ v.page # "public" => session[b] \in User
               /\ Show(b, session[b], v, calls)
               /\ UNCHANGED <<storage, touched>>
  <2>1. CASE Leave(b)
    BY <2>1, AtPage DEF Leave
  <2>2. CASE Enter(b)
    <3>1. "dashboard" \in Pages
      BY DEF Pages
    <3>2. session[b] \in User
      BY <2>2 DEF Enter, TypeInv, Tables, Person
    <3>3. QED
      BY <2>2, <3>1, <3>2, AtPage DEF Enter
  <2>3. CASE Navigate(b)
    <3>1. PICK page \in Pages : Show(b, session[b], At(page), calls)
      BY <2>3, ConsoleBounds DEF Navigate
    <3>2. UNCHANGED <<storage, touched>> /\ session[b] \in User
      BY <2>3 DEF Navigate, TypeInv, TabOK
    <3>3. QED
      BY <3>1, <3>2, AtPage
  <2>4. QED
    BY <1>1, <2>1, <2>2, <2>3
<1>2. ASSUME NEW b \in Tab, Leave(b) \/ Enter(b) \/ Navigate(b)
      PROVE  \E u \in Person, v \in View, left \in SUBSET calls :
               /\ v.page = "ticket" => v.ticket \in Ticket
               /\ v.page # "public" => u \in User
               /\ \A c \in calls \ left : ~c.holds
               /\ Show(b, u, v, left)
               /\ UNCHANGED <<storage, touched>> /\ u = session[b]
  <2>1. session[b] \in Person /\ calls \in SUBSET calls /\ calls \ calls = {}
    BY DEF TypeInv, Tables
  <2>2. QED
    BY <1>1, <1>2, <2>1
<1>3. ASSUME NEW b \in Tab, Select(b)
      PROVE  \E u \in Person, v \in View, left \in SUBSET calls :
               /\ v.page = "ticket" => v.ticket \in Ticket
               /\ v.page # "public" => u \in User
               /\ \A c \in calls \ left : ~c.holds
               /\ Show(b, u, v, left)
               /\ UNCHANGED <<storage, touched>> /\ u = session[b]
  <2>1. session[b] \in Person /\ calls \in SUBSET calls /\ calls \ calls = {}
        /\ session[b] \in User
    BY <1>3 DEF TypeInv, Tables, TabOK, Select
  <2>2. PICK t \in Ticket :
          Show(b, session[b], [page |-> "ticket", ticket |-> t], calls)
    BY <1>3 DEF Select
  <2>3. UNCHANGED <<storage, touched>>
    BY <1>3 DEF Select
  <2>4. QED
    BY <2>1, <2>2, <2>3, TicketPage
<1>4. ASSUME NEW b \in Tab, Logout(b)
      PROVE  /\ Show(b, NoOne, At("public"), calls) /\ storage'.token = NoOne
             /\ calls \in SUBSET calls /\ calls \ calls = {}
             /\ NoOne \in Person /\ At("public") \in View /\ At("public").page = "public"
  BY <1>4, AtPage DEF Logout, Person
<1>5. ASSUME NEW c \in calls, SignedIn(c)
      PROVE  \E v \in View :
               /\ v.page = "ticket" => v.ticket \in Ticket
               /\ c.tab \in Tab /\ c.arg \in User /\ c.arg \in Person
               /\ calls \ {c} \in SUBSET calls /\ \A d \in calls \ (calls \ {c}) : ~d.holds
               /\ Show(c.tab, c.arg, v, calls \ {c})
               /\ storage'.token = c.arg
  <2>1. PICK v \in View :
               /\ v.page = "ticket" => v.ticket \in Ticket
               /\ c.tab \in Tab /\ c.arg \in User /\ c.arg \in Person /\ ~c.holds
               /\ storage' = [token |-> c.arg, profile |-> c.arg]
               /\ Show(c.tab, c.arg, v, calls \ {c})
    BY <1>5, SignedInDoes
  <2>2. QED
    BY <2>1
<1>6. ASSUME NEW c \in calls, Created(c)
      PROVE  \E u \in Person, v \in View, left \in SUBSET calls :
               /\ c.tab \in Tab
               /\ v.page = "ticket" => v.ticket \in Ticket
               /\ v.page # "public" => u \in User
               /\ \A d \in calls \ left : ~d.holds
               /\ Show(c.tab, u, v, left)
               /\ UNCHANGED <<storage, touched>> /\ u = session[c.tab]
  <2>1. /\ c.page = "app" /\ UNCHANGED <<storage, touched>>
        /\ Show(c.tab, session[c.tab], [page |-> "ticket", ticket |-> c.arg], calls \ {c})
    BY <1>6 DEF Created
  <2>2. /\ c.tab \in Tab /\ c.arg \in Ticket /\ session[c.tab] \in User /\ ~c.holds
        /\ session[c.tab] \in Person
    BY <2>1 DEF TypeInv, CallTyped, Placed, TabOK, Person
  <2>3. calls \ {c} \in SUBSET calls /\ \A d \in calls \ (calls \ {c}) : ~d.holds
    BY <2>2
  <2>4. QED
    BY <2>1, <2>2, <2>3, TicketPage
<1>7. QED
  BY <1>2, <1>3, <1>4, <1>5, <1>6

LEMMA ReloadKeepsTicket ==
  ASSUME TypeInv, TicketInv, NEW b \in Tab, Reload(b)
  PROVE  TicketInv'
<1>1. PICK u \in Person, v \in View :
           /\ (v.page = "public" \/ (v = At("dashboard") /\ u \in User)) /\ v.page # "ticket"
           /\ view' = [view EXCEPT ![b] = v]
           /\ shown' = [shown EXCEPT ![b] = Blank]
           /\ stale' = [stale EXCEPT ![b] = {}]
           /\ calls' = {c \in calls : c.tab # b}
                       \cup (IF v.page = "public" THEN {} ELSE Mounting(b, u, v))
  BY ReloadDoes
<1>2. /\ view'[b] = v
      /\ \A o \in Tab \ {b} : /\ view'[o] = view[o] /\ shown'[o] = shown[o]
                              /\ stale'[o] = stale[o]
  BY <1>1 DEF TypeInv, Tables
<1>3. \A c \in calls' : c.tab # b => c \in calls
  BY <1>1, ReloadMounts
<1>4. ASSUME NEW o \in Tab \ {b} PROVE ShowsOne(o)'
  <2>1. Own(o)' = Own(o)
    BY <1>2 DEF Own
  <2>2. QED
    BY <1>2, <1>3, <2>1 DEF TicketInv, ShowsOne
<1>5. ShowsOne(b)'
  BY <1>1, <1>2 DEF ShowsOne
<1>6. QED
  BY <1>4, <1>5 DEF TicketInv

\* Requests that are sent for the ticket that is shown.
LEMMA SendKeepsTicket ==
  ASSUME TicketInv, UNCHANGED <<view, stale>>,
         \A b \in Tab : /\ shown'[b].detail = shown[b].detail /\ shown'[b].triage = shown[b].triage
                        /\ shown'[b].draft.of = shown[b].draft.of /\ shown'[b].thread = shown[b].thread,
         \A c \in calls' : c \in calls \/ (c.page = "ticket" => c.arg = view[c.tab].ticket)
  PROVE  TicketInv'
<1>1. ASSUME NEW b \in Tab PROVE ShowsOne(b)'
  <2>1. Own(b)' = Own(b) /\ view[b].ticket \in Own(b)
    BY DEF Own
  <2>2. ShowsOne(b)
    BY DEF TicketInv
  <2>3. \A c \in calls' : c.tab = b /\ c.page = "ticket" => c \in calls \/ c.arg \in Own(b)
    BY <2>1
  <2>4. QED
    BY <2>1, <2>2, <2>3 DEF ShowsOne
<1>2. QED
  BY <1>1 DEF TicketInv

LEMMA AsksKeepTicket ==
  ASSUME TypeInv, TicketInv, NEW b \in Tab,
         SignIn(b) \/ NewTicket(b) \/ Click(b) \/ ClickTicket(b)
  PROVE  TicketInv'
<1>1. CASE SignIn(b)
  <2>1. PICK u \in User, plan \in {<<"login">>, <<"signup">>} :
          Ask(b, "site", plan, u, FALSE)
    BY <1>1, ConsoleBounds DEF SignIn
  <2>2. \A c \in calls' : c \in calls \/ c.page = "site"
    BY <2>1 DEF Ask, Request
  <2>3. UNCHANGED <<view, shown, stale>>
    BY <1>1 DEF SignIn
  <2>4. QED
    BY <2>2, <2>3, SendKeepsTicket
<1>2. CASE NewTicket(b)
  <2>1. PICK t \in Ticket, plan \in Plan :
             /\ calls' = calls \cup {Request(b, session[b], "app", plan, t, FALSE)}
             /\ UNCHANGED <<storage, session, view, shown, adrift, touched, stale>>
    BY <1>2, NewTicketDoes
  <2>2. \A c \in calls' : c \in calls \/ c.page = "app"
    BY <2>1 DEF Request
  <2>3. QED
    BY <2>1, <2>2, SendKeepsTicket
<1>3. CASE Click(b)
  <2>1. PICK plan \in Plan :
             /\ calls' = calls \cup {Request(b, session[b], view[b].page, plan, NoOne, FALSE)}
             /\ view[b].page \in Pages
             /\ UNCHANGED <<storage, session, view, shown, adrift, touched, stale>>
    BY <1>3, ClickDoes
  <2>2. \A c \in calls' : c \in calls \/ c.page # "ticket"
    BY <2>1 DEF Request, Pages
  <2>3. QED
    BY <2>1, <2>2, SendKeepsTicket
<1>4. CASE ClickTicket(b)
  <2>1. PICK plan \in Plan, holds \in BOOLEAN :
             /\ calls' = calls \cup {Request(b, session[b], "ticket", plan, view[b].ticket, holds)}
             /\ \A o \in Tab \ {b} : shown'[o] = shown[o]
             /\ shown'[b].detail = shown[b].detail /\ shown'[b].triage = shown[b].triage
             /\ shown'[b].draft = shown[b].draft /\ shown'[b].thread = shown[b].thread
             /\ UNCHANGED <<storage, session, view, adrift, touched, stale>>
    BY <1>4, ClickTicketDoes
  <2>2. \A c \in calls' : c \in calls \/ (c.tab = b /\ c.arg = view[b].ticket)
    BY <2>1 DEF Request
  <2>3. \A o \in Tab : /\ shown'[o].detail = shown[o].detail /\ shown'[o].triage = shown[o].triage
                       /\ shown'[o].draft.of = shown[o].draft.of /\ shown'[o].thread = shown[o].thread
    BY <2>1
  <2>4. QED
    BY <2>1, <2>2, <2>3, SendKeepsTicket
<1>5. QED
  BY <1>1, <1>2, <1>3, <1>4

\* An answer that arrives is about the ticket that is shown, or one that the page
\* was asking about when it was given another.
LEMMA AnswersKeepTicket ==
  ASSUME TypeInv, TicketInv, NEW c \in calls, Fails(c) \/ Arrives(c)
  PROVE  TicketInv'
<1>1. CASE Fails(c)
  <2>1. /\ c.tab \in Tab
        /\ \A o \in Tab \ {c.tab} : shown'[o] = shown[o]
        /\ shown'[c.tab].detail = shown[c.tab].detail /\ shown'[c.tab].triage = shown[c.tab].triage
        /\ shown'[c.tab].draft = shown[c.tab].draft /\ shown'[c.tab].thread = shown[c.tab].thread
    BY <1>1, FailsDoes
  <2>2. UNCHANGED <<view, stale>> /\ calls' \subseteq calls
    BY <1>1 DEF Fails
  <2>3. \A o \in Tab : /\ shown'[o].detail = shown[o].detail /\ shown'[o].triage = shown[o].triage
                       /\ shown'[o].draft.of = shown[o].draft.of /\ shown'[o].thread = shown[o].thread
    BY <2>1
  <2>4. QED
    BY <2>2, <2>3, SendKeepsTicket
<1>2. CASE Arrives(c)
  <2>1. /\ c.page # "site" /\ c.tab \in Tab
        /\ calls' = (calls \ {c}) \cup Following(c)
        /\ UNCHANGED <<storage, session, view, adrift, touched, stale>>
        /\ c.page # "ticket" => shown' = shown
    BY <1>2, ArrivesDoes
  <2>2. \A n \in Following(c) : n.tab = c.tab /\ n.page = c.page /\ n.arg = c.arg
    BY <2>1, FollowingTyped
  <2>3. ASSUME NEW o \in Tab, o # c.tab \/ c.page # "ticket"
        PROVE  ShowsOne(o)'
    <3>1. shown'[o] = shown[o]
      BY <1>2, <2>1, <2>3, ArrivesDoes
    <3>2. \A d \in calls' : d.tab = o /\ d.page = "ticket" => d \in calls
      BY <2>1, <2>2, <2>3
    <3>3. Own(o)' = Own(o)
      BY <2>1 DEF Own
    <3>4. QED
      BY <2>1, <3>1, <3>2, <3>3 DEF TicketInv, ShowsOne
  <2>4. CASE c.page = "ticket"
    <3>1. /\ view[c.tab].page = "ticket"
          /\ shown'[c.tab].detail \in {shown[c.tab].detail, c.arg}
          /\ shown'[c.tab].triage \in {shown[c.tab].triage, c.arg}
          /\ shown'[c.tab].draft.of \in {shown[c.tab].draft.of, c.arg, NoOne}
          /\ shown'[c.tab].thread \subseteq shown[c.tab].thread \cup {c.arg}
      BY <1>2, <2>4, ArrivesDoes
    <3>2. ShowsOne(c.tab)
      BY <2>1 DEF TicketInv
    <3>3. Own(c.tab)' = Own(c.tab) /\ c.arg \in Own(c.tab)
      BY <2>1, <2>4, <3>1, <3>2 DEF Own, ShowsOne
    <3>4. \A d \in calls' : d.tab = c.tab /\ d.page = "ticket" => d.arg \in Own(c.tab)
      BY <2>1, <2>2, <3>1, <3>2, <3>3 DEF ShowsOne
    <3>5. ShowsOne(c.tab)'
      BY <2>1, <3>1, <3>2, <3>3, <3>4 DEF ShowsOne
    <3>6. QED
      BY <2>3, <3>5 DEF TicketInv
  <2>5. QED
    BY <2>3, <2>4 DEF TicketInv
<1>3. QED
  BY <1>1, <1>2

LEMMA StepKeepsTicket == TypeInv /\ TicketInv /\ [Next]_vars => TicketInv'
<1> SUFFICES ASSUME TypeInv, TicketInv, [Next]_vars PROVE TicketInv'
  OBVIOUS
<1>1. CASE \/ \E b \in Tab : Leave(b) \/ Enter(b) \/ Navigate(b) \/ Select(b) \/ Logout(b)
           \/ \E c \in calls : SignedIn(c) \/ Created(c)
  <2>1. PICK b \in Tab, u \in Person, v \in View, left \in SUBSET calls :
          /\ v.page = "ticket" => v.ticket \in Ticket
          /\ Show(b, u, v, left)
    BY <1>1, ShowSteps
  <2>2. QED
    BY <2>1, ShowKeepsTicket
<1>2. ASSUME NEW b \in Tab, SignIn(b) \/ NewTicket(b) \/ Click(b) \/ ClickTicket(b) \/ Reload(b)
      PROVE  TicketInv'
  BY <1>2, AsksKeepTicket, ReloadKeepsTicket
<1>3. ASSUME NEW c \in calls, Fails(c) \/ Arrives(c) PROVE TicketInv'
  BY <1>3, AnswersKeepTicket
<1>4. ASSUME NEW c \in adrift, GoesOn(c) PROVE TicketInv'
  BY <1>4, SendKeepsTicket DEF GoesOn
<1>5. CASE UNCHANGED vars
  BY <1>5, SendKeepsTicket DEF vars
<1>6. QED
  BY <1>1, <1>2, <1>3, <1>4, <1>5 DEF Next, Act, Settle

LEMMA InitTicket == Init => TicketInv
BY DEF Init, At, TicketInv, ShowsOne

\* The ticket page shows, and asks about, the ticket it was opened for, however
\* late the answers come and whatever was open before; when a creation's answer
\* has put another ticket under the mounted page, besides that one only those it
\* was asking about at the time (TicketView, AuthenticatedApp).
THEOREM OneTicketShown == Spec => []ShowsOneTicket
<1>1. TicketInv => ShowsOneTicket
  BY DEF TicketInv, ShowsOne, Own, ShowsOneTicket
<1>2. QED
  BY <1>1, InitTicket, InitTyped, StepTyped, StepKeepsTicket, PTL DEF Spec

\* ----- busy --------------------------------------------------------------
Held(b) == {c \in calls : c.tab = b /\ c.holds}
HeldOK(b) ==
  view[b].page = "ticket" =>
    /\ shown[b].busy => \E c : Held(b) = {c}
    /\ ~shown[b].busy => Held(b) = {}
HeldInv == \A b \in Tab : HeldOK(b)

LEMMA HeldCounted == TypeInv /\ HeldInv => BusyMeansInFlight
<1> SUFFICES ASSUME TypeInv, HeldInv, NEW b \in Tab, view[b].page = "ticket"
             PROVE  Cardinality(Held(b)) = (IF shown[b].busy THEN 1 ELSE 0)
  BY DEF BusyMeansInFlight, Held
<1>1. CASE shown[b].busy
  <2>1. PICK c : Held(b) = {c}
    BY <1>1 DEF HeldInv, HeldOK
  <2>2. Cardinality({c}) = 1
    BY FS_Singleton
  <2>3. QED
    BY <1>1, <2>1, <2>2
<1>2. CASE ~shown[b].busy
  <2>1. Held(b) = {}
    BY <1>2 DEF HeldInv, HeldOK
  <2>2. QED
    BY <1>2, <2>1, FS_EmptySet
<1>3. QED
  BY <1>1, <1>2

\* Neither a tab's buttons nor their request in flight changed.
LEMMA SameHeld ==
  ASSUME HeldInv, NEW b \in Tab, UNCHANGED view[b], shown'[b].busy <=> shown[b].busy,
         Held(b)' = Held(b)
  PROVE  HeldOK(b)'
BY DEF HeldInv, HeldOK

\* A handler goes on holding the buttons when the ticket is exchanged, if the
\* instance stays; a new instance has its own buttons, which nothing holds.
LEMMA ShowKeepsHeld ==
  ASSUME TypeInv, HeldInv, NEW b \in Tab, NEW u \in Person, NEW v \in View,
         NEW left, left \subseteq calls, \A c \in calls \ left : ~c.holds,
         v.page = "ticket" => v.ticket \in Ticket, Show(b, u, v, left)
  PROVE  HeldInv'
<1>1. /\ view'[b] = v
      /\ \A o \in Tab \ {b} : view'[o] = view[o] /\ shown'[o] = shown[o]
      /\ Same(b, u, v) => shown'[b] = shown[b]
      /\ ~Same(b, u, v) => (shown'[b].busy <=> Kept(b, u, v) /\ shown[b].busy)
      /\ calls' = {c \in left : Stays(c, b, v.page, Kept(b, u, v))}
                  \cup (IF Same(b, u, v) \/ ~Rendered(u, v.page) THEN {} ELSE Mounting(b, u, v))
  BY ShowDoes
<1>2. \A c \in calls' : c.holds => c \in left /\ Stays(c, b, v.page, Kept(b, u, v))
  BY CallsAfterShow
<1>3. \A c \in calls : c.holds => c \in left /\ c.page = "ticket"
  BY DEF TypeInv, CallTyped
<1>4. ASSUME NEW o \in Tab \ {b} PROVE HeldOK(o)'
  <2>1. \A c \in calls : c.tab = o /\ c.holds => c \in calls'
    BY <1>1, <1>3 DEF Stays
  <2>2. {c \in calls' : c.tab = o /\ c.holds} = {c \in calls : c.tab = o /\ c.holds}
    BY <1>2, <2>1
  <2>3. Held(o)' = Held(o)
    BY <2>2 DEF Held
  <2>4. QED
    BY <1>1, <2>3, SameHeld
<1>5. HeldOK(b)'
  <2>1. CASE v.page = "ticket" /\ Kept(b, u, v)
    <3>1. view[b].page = "ticket" /\ (shown'[b].busy <=> shown[b].busy)
      BY <1>1, <2>1 DEF Kept
    <3>2. \A c \in calls : c.tab = b /\ c.holds => c \in calls'
      BY <1>1, <1>3, <2>1 DEF Stays
    <3>3. {c \in calls' : c.tab = b /\ c.holds} = {c \in calls : c.tab = b /\ c.holds}
      BY <1>2, <3>2
    <3>4. Held(b)' = Held(b)
      BY <3>3 DEF Held
    <3>5. QED
      BY <3>1, <3>4 DEF HeldInv, HeldOK
  <2>2. CASE v.page = "ticket" /\ ~Kept(b, u, v)
    <3>1. ~shown'[b].busy
      BY <1>1, <2>2 DEF Same
    <3>2. {c \in calls' : c.tab = b /\ c.holds} = {}
      BY <1>2, <1>3, <2>2 DEF Stays
    <3>3. QED
      BY <3>1, <3>2 DEF HeldOK, Held
  <2>3. CASE v.page # "ticket"
    BY <1>1, <2>3 DEF HeldOK
  <2>4. QED
    BY <2>1, <2>2, <2>3
<1>6. QED
  BY <1>4, <1>5 DEF HeldInv

LEMMA ReloadKeepsHeld ==
  ASSUME TypeInv, HeldInv, NEW b \in Tab, Reload(b)
  PROVE  HeldInv'
<1>1. PICK u \in Person, v \in View :
           /\ (v.page = "public" \/ (v = At("dashboard") /\ u \in User)) /\ v.page # "ticket"
           /\ view' = [view EXCEPT ![b] = v]
           /\ shown' = [shown EXCEPT ![b] = Blank]
           /\ calls' = {c \in calls : c.tab # b}
                       \cup (IF v.page = "public" THEN {} ELSE Mounting(b, u, v))
  BY ReloadDoes
<1>2. /\ view'[b] = v
      /\ \A o \in Tab \ {b} : view'[o] = view[o] /\ shown'[o] = shown[o]
  BY <1>1 DEF TypeInv, Tables
<1>3. ASSUME NEW o \in Tab \ {b} PROVE HeldOK(o)'
  <2>1. {c \in calls' : c.tab = o /\ c.holds} = {c \in calls : c.tab = o /\ c.holds}
    BY <1>1, ReloadMounts
  <2>2. Held(o)' = Held(o)
    BY <2>1 DEF Held
  <2>3. QED
    BY <1>2, <2>2, SameHeld
<1>4. HeldOK(b)'
  BY <1>1, <1>2 DEF HeldOK
<1>5. QED
  BY <1>3, <1>4 DEF HeldInv

\* Requests that hold nothing.
LEMMA SendKeepsHeld ==
  ASSUME HeldInv, UNCHANGED <<view, shown>>, calls \subseteq calls',
         \A c \in calls' : c.holds => c \in calls
  PROVE  HeldInv'
<1>1. ASSUME NEW b \in Tab PROVE HeldOK(b)'
  <2>1. {c \in calls' : c.tab = b /\ c.holds} = {c \in calls : c.tab = b /\ c.holds}
    OBVIOUS
  <2>2. Held(b)' = Held(b)
    BY <2>1 DEF Held
  <2>3. QED
    BY <2>2, SameHeld
<1>2. QED
  BY <1>1 DEF HeldInv

LEMMA AsksKeepHeld ==
  ASSUME TypeInv, HeldInv, NEW b \in Tab, SignIn(b) \/ NewTicket(b) \/ Click(b)
  PROVE  HeldInv'
<1>1. CASE SignIn(b)
  <2>1. PICK u \in User, plan \in {<<"login">>, <<"signup">>} :
          Ask(b, "site", plan, u, FALSE)
    BY <1>1, ConsoleBounds DEF SignIn
  <2>2. calls \subseteq calls' /\ \A c \in calls' : c.holds => c \in calls
    BY <2>1 DEF Ask, Request
  <2>3. UNCHANGED <<view, shown, stale>>
    BY <1>1 DEF SignIn
  <2>4. QED
    BY <2>2, <2>3, SendKeepsHeld
<1>2. CASE NewTicket(b)
  <2>1. PICK t \in Ticket, plan \in Plan :
             /\ calls' = calls \cup {Request(b, session[b], "app", plan, t, FALSE)}
             /\ UNCHANGED <<storage, session, view, shown, adrift, touched, stale>>
    BY <1>2, NewTicketDoes
  <2>2. calls \subseteq calls' /\ \A c \in calls' : c.holds => c \in calls
    BY <2>1 DEF Request
  <2>3. QED
    BY <2>1, <2>2, SendKeepsHeld
<1>3. CASE Click(b)
  <2>1. PICK plan \in Plan :
             /\ calls' = calls \cup {Request(b, session[b], view[b].page, plan, NoOne, FALSE)}
             /\ UNCHANGED <<storage, session, view, shown, adrift, touched, stale>>
    BY <1>3, ClickDoes
  <2>2. calls \subseteq calls' /\ \A c \in calls' : c.holds => c \in calls
    BY <2>1 DEF Request
  <2>3. QED
    BY <2>1, <2>2, SendKeepsHeld
<1>4. QED
  BY <1>1, <1>2, <1>3

\* A button takes hold only when no other holds.
LEMMA ClickTicketKeepsHeld ==
  ASSUME TypeInv, HeldInv, NEW b \in Tab, ClickTicket(b)
  PROVE  HeldInv'
<1>1. PICK plan \in Plan, holds \in BOOLEAN :
           /\ calls' = calls \cup {Request(b, session[b], "ticket", plan, view[b].ticket, holds)}
           /\ \A o \in Tab \ {b} : shown'[o] = shown[o]
           /\ shown'[b].busy <=> shown[b].busy \/ holds
           /\ holds => ~shown[b].busy
           /\ view[b].page = "ticket"
           /\ UNCHANGED <<storage, session, view, adrift, touched, stale>>
  BY ClickTicketDoes
<1>2. PICK r : r = Request(b, session[b], "ticket", plan, view[b].ticket, holds)
  OBVIOUS
<1>3. r.tab = b /\ r.holds = holds /\ calls' = calls \cup {r}
  BY <1>1, <1>2 DEF Request
<1>4. ASSUME NEW o \in Tab, o # b \/ ~holds PROVE HeldOK(o)'
  <2>1. {c \in calls' : c.tab = o /\ c.holds} = {c \in calls : c.tab = o /\ c.holds}
    BY <1>3, <1>4
  <2>2. Held(o)' = Held(o)
    BY <2>1 DEF Held
  <2>3. shown'[o].busy <=> shown[o].busy
    BY <1>1, <1>4
  <2>4. QED
    BY <1>1, <2>2, <2>3, SameHeld
<1>5. ASSUME holds PROVE HeldOK(b)'
  <2>1. Held(b) = {} /\ shown'[b].busy
    BY <1>1, <1>5 DEF HeldInv, HeldOK
  <2>2. {c \in calls' : c.tab = b /\ c.holds} = {r}
    BY <1>3, <1>5, <2>1 DEF Held
  <2>3. QED
    BY <2>1, <2>2 DEF HeldOK, Held
<1>6. QED
  BY <1>4, <1>5 DEF HeldInv

\* The last request of a handler that comes back, or fails, lets go.
LEMMA AnswersKeepHeld ==
  ASSUME TypeInv, HeldInv, NEW c \in calls, Fails(c) \/ Arrives(c)
  PROVE  HeldInv'
<1> DEFINE b == c.tab
<1>1. b \in Tab /\ (c.holds => c.page = "ticket" /\ view[b].page = "ticket")
  BY DEF TypeInv, CallTyped, Placed
\* What holds in flight is c itself, or nothing c has to do with.
<1>2. c.holds => shown[b].busy /\ Held(b) = {c}
  <2>1. c.holds => c \in Held(b)
    BY DEF Held
  <2>2. QED
    BY <1>1, <2>1 DEF HeldInv, HeldOK
<1>3. CASE Fails(c)
  <2>1. /\ \A o \in Tab \ {b} : shown'[o] = shown[o]
        /\ shown'[b].busy <=> shown[b].busy /\ ~c.holds
    BY <1>3, FailsDoes
  <2>2. UNCHANGED view /\ calls' = calls \ {c}
    BY <1>3 DEF Fails
  <2>3. ASSUME NEW o \in Tab, o # b \/ ~c.holds PROVE HeldOK(o)'
    <3>1. {d \in calls' : d.tab = o /\ d.holds} = {d \in calls : d.tab = o /\ d.holds}
      BY <2>2, <2>3
    <3>2. Held(o)' = Held(o)
      BY <3>1 DEF Held
    <3>3. shown'[o].busy <=> shown[o].busy
      BY <2>1, <2>3
    <3>4. QED
      BY <2>2, <3>2, <3>3, SameHeld
  <2>4. ASSUME c.holds PROVE HeldOK(b)'
    <3>1. {d \in calls' : d.tab = b /\ d.holds} = {}
      BY <1>2, <2>2, <2>4 DEF Held
    <3>2. ~shown'[b].busy
      BY <2>1, <2>4
    <3>3. HeldOK(c.tab)'
      BY <3>1, <3>2 DEF HeldOK, Held
    <3>4. QED
      BY <3>3
  <2>5. QED
    BY <2>3, <2>4 DEF HeldInv
<1>4. CASE Arrives(c)
  <2>1. /\ c.page # "site" /\ UNCHANGED view
        /\ calls' = (calls \ {c}) \cup Following(c)
        /\ c.page # "ticket" => shown' = shown
        /\ c.page = "ticket" =>
             /\ \A o \in Tab \ {b} : shown'[o] = shown[o]
             /\ shown'[b].busy <=> shown[b].busy /\ Goes(c)
    BY <1>4, ArrivesDoes
  <2>2. \A n \in Following(c) : /\ n.tab = b /\ (n.holds => c.holds)
                                /\ Following(c) = {n}
    BY <2>1, FollowingTyped
  <2>3. ASSUME NEW o \in Tab, o # b \/ ~c.holds PROVE HeldOK(o)'
    <3>1. {d \in calls' : d.tab = o /\ d.holds} = {d \in calls : d.tab = o /\ d.holds}
      BY <2>1, <2>2, <2>3
    <3>2. Held(o)' = Held(o)
      BY <3>1 DEF Held
    <3>3. shown'[o].busy <=> shown[o].busy
      BY <2>1, <2>3 DEF Goes
    <3>4. QED
      BY <2>1, <3>2, <3>3, SameHeld
  <2>4. ASSUME c.holds, NEW n \in Following(c), n.holds PROVE HeldOK(b)'
    <3>1. {d \in calls' : d.tab = b /\ d.holds} = {n}
      BY <1>2, <2>1, <2>2, <2>4 DEF Held
    <3>2. shown'[b].busy
      BY <1>1, <1>2, <2>1, <2>4 DEF Goes
    <3>3. HeldOK(c.tab)'
      BY <3>1, <3>2 DEF HeldOK, Held
    <3>4. QED
      BY <3>3
  <2>5. ASSUME c.holds, \A n \in Following(c) : ~n.holds PROVE HeldOK(b)'
    <3>1. {d \in calls' : d.tab = b /\ d.holds} = {}
      BY <1>2, <2>1, <2>5 DEF Held
    <3>2. ~shown'[b].busy
      BY <1>1, <2>1, <2>5 DEF Goes
    <3>3. HeldOK(c.tab)'
      BY <3>1, <3>2 DEF HeldOK, Held
    <3>4. QED
      BY <3>3
  <2>6. QED
    BY <2>3, <2>4, <2>5 DEF HeldInv
<1>5. QED
  BY <1>3, <1>4

LEMMA StepKeepsHeld == TypeInv /\ HeldInv /\ [Next]_vars => HeldInv'
<1> SUFFICES ASSUME TypeInv, HeldInv, [Next]_vars PROVE HeldInv'
  OBVIOUS
<1>1. CASE \/ \E b \in Tab : Leave(b) \/ Enter(b) \/ Navigate(b) \/ Select(b) \/ Logout(b)
           \/ \E c \in calls : SignedIn(c) \/ Created(c)
  <2>1. PICK b \in Tab, u \in Person, v \in View, left \in SUBSET calls :
          /\ v.page = "ticket" => v.ticket \in Ticket
          /\ \A c \in calls \ left : ~c.holds
          /\ Show(b, u, v, left)
    BY <1>1, ShowSteps
  <2>2. QED
    BY <2>1, ShowKeepsHeld
<1>2. ASSUME NEW b \in Tab, SignIn(b) \/ NewTicket(b) \/ Click(b) \/ ClickTicket(b) \/ Reload(b)
      PROVE  HeldInv'
  BY <1>2, AsksKeepHeld, ClickTicketKeepsHeld, ReloadKeepsHeld
<1>3. ASSUME NEW c \in calls, Fails(c) \/ Arrives(c) PROVE HeldInv'
  BY <1>3, AnswersKeepHeld
<1>4. ASSUME NEW c \in adrift, GoesOn(c) PROVE HeldInv'
  BY <1>4, SendKeepsHeld DEF GoesOn
<1>5. CASE UNCHANGED vars
  BY <1>5, SendKeepsHeld DEF vars
<1>6. QED
  BY <1>1, <1>2, <1>3, <1>4, <1>5 DEF Next, Act, Settle

LEMMA InitHeld == Init => HeldInv
BY DEF Init, At, HeldInv, HeldOK

\* The buttons of a mounted ticket page are disabled exactly as long as one of its
\* own handlers has a request in flight, and then just one, for any plans,
\* failures and exchanged tickets; the handlers of a page that was left are not
\* its own (TicketView's busy).
THEOREM OneHandlerAtATime == Spec => []BusyMeansInFlight
BY InitHeld, InitTyped, StepTyped, StepKeepsHeld, HeldCounted, PTL DEF Spec

\* ----- what is offered ---------------------------------------------------
\* A new request the server would refuse is none a page offers.
Offered(c) ==
  c.page # "site" /\ Head(c.plan) # "run_eval" /\ ~touched'[c.tab]
    => storage'.token \in Permits(Head(c.plan))
NewOffered == \A c \in calls' \ calls : Offered(c)

\* The user of the tab afterwards is the one of the token.
LEMMA TokenIsSession ==
  ASSUME TypeInv', NEW b \in Tab, ~touched'[b]
  PROVE  storage'.token = session'[b]
BY DEF TypeInv, ActsForWhomItShows

LEMMA ShowOffers ==
  ASSUME TypeInv, TypeInv', NEW b \in Tab, NEW u \in Person, NEW v \in View,
         NEW left \in SUBSET calls,
         v.page = "ticket" => v.ticket \in Ticket, v.page # "public" => u \in User,
         Show(b, u, v, left)
  PROVE  NewOffered
<1> SUFFICES ASSUME NEW c \in calls', c \notin calls, ~touched'[c.tab]
             PROVE  storage'.token \in Permits(Head(c.plan))
  BY DEF NewOffered, Offered
<1>1. c \in Mounting(b, u, v) /\ Rendered(u, v.page) /\ c.tab = b
  BY CallsAfterShow
<1>2. u \in User
  BY <1>1, Viewers
<1>3. u \in Permits(Head(c.plan))
  BY <1>1, <1>2, MountingPermitted
<1>4. session'[b] = u
  BY ShowDoes
<1>5. QED
  BY <1>1, <1>3, <1>4, TokenIsSession

LEMMA ReloadOffers ==
  ASSUME TypeInv, TypeInv', NEW b \in Tab, Reload(b)
  PROVE  NewOffered
<1>1. PICK u \in Person, v \in View :
           /\ (v.page = "public" \/ (v = At("dashboard") /\ u \in User))
           /\ v.page # "ticket"
           /\ session' = [session EXCEPT ![b] = u]
           /\ calls' = {c \in calls : c.tab # b}
                       \cup (IF v.page = "public" THEN {} ELSE Mounting(b, u, v))
  BY ReloadDoes
<1> SUFFICES ASSUME NEW c \in calls', c \notin calls, ~touched'[c.tab]
             PROVE  storage'.token \in Permits(Head(c.plan))
  BY DEF NewOffered, Offered
<1>2. c \in Mounting(b, u, v) /\ v.page # "public" /\ v = At("dashboard") /\ u \in User
  BY <1>1
<1>3. Rendered(u, v.page) /\ c.tab = b
  BY <1>2, ReloadMounts
<1>4. u \in Permits(Head(c.plan)) /\ c.tab = b
  BY <1>2, <1>3, MountingPermitted
<1>5. session'[b] = u
  BY <1>1 DEF TypeInv, Tables
<1>6. QED
  BY <1>4, <1>5, TokenIsSession

LEMMA ClicksOffer ==
  ASSUME TypeInv, TypeInv', NEW b \in Tab,
         SignIn(b) \/ NewTicket(b) \/ Click(b) \/ ClickTicket(b)
  PROVE  NewOffered
<1>1. CASE SignIn(b)
  <2>1. PICK u \in User, plan \in {<<"login">>, <<"signup">>} :
          Ask(b, "site", plan, u, FALSE)
    BY <1>1, ConsoleBounds DEF SignIn
  <2>2. \A c \in calls' \ calls : c.page = "site"
    BY <2>1 DEF Ask, Request
  <2>3. QED
    BY <2>2 DEF NewOffered, Offered
<1>2. CASE NewTicket(b)
  <2>1. PICK t \in Ticket, plan \in Plan :
             /\ Head(plan) \in {"create", "new_customer"}
             /\ calls' = calls \cup {Request(b, session[b], "app", plan, t, FALSE)}
             /\ view[b].page = "queue" /\ UNCHANGED <<storage, session, view, shown, adrift, touched, stale>>
    BY <1>2, NewTicketDoes
  <2>2. \A c \in calls' \ calls : c.tab = b /\ c.plan = plan
    BY <2>1 DEF Request
  <2>3. session'[b] \in User
    BY <2>1 DEF TypeInv, TabOK
  <2>4. session'[b] \in Permits(Head(plan))
    BY <2>1, <2>3 DEF Permits
  <2>5. QED
    BY <2>2, <2>4, TokenIsSession DEF NewOffered, Offered
<1>3. CASE Click(b)
  <2>1. PICK plan \in Plan :
             /\ calls' = calls \cup {Request(b, session[b], view[b].page, plan, NoOne, FALSE)}
             /\ session[b] \in Permits(Head(plan))
             /\ UNCHANGED <<storage, session, view, shown, adrift, touched, stale>>
    BY <1>3, ClickDoes
  <2>2. \A c \in calls' \ calls : c.tab = b /\ c.plan = plan
    BY <2>1 DEF Request
  <2>3. session'[b] \in Permits(Head(plan))
    BY <2>1
  <2>4. QED
    BY <2>2, <2>3, TokenIsSession DEF NewOffered, Offered
<1>4. CASE ClickTicket(b)
  <2>1. PICK plan \in Plan, holds \in BOOLEAN :
             /\ calls' = calls \cup {Request(b, session[b], "ticket", plan, view[b].ticket, holds)}
             /\ session[b] \in Permits(Head(plan))
             /\ UNCHANGED <<storage, session, view, adrift, touched, stale>>
    BY <1>4, ClickTicketDoes
  <2>2. \A c \in calls' \ calls : c.tab = b /\ c.plan = plan
    BY <2>1 DEF Request
  <2>3. session'[b] \in Permits(Head(plan))
    BY <2>1
  <2>4. QED
    BY <2>2, <2>3, TokenIsSession DEF NewOffered, Offered
<1>5. QED
  BY <1>1, <1>2, <1>3, <1>4

\* What follows in a plan anybody may send.
LEMMA AnswersOffer ==
  ASSUME TypeInv, TypeInv', NEW c \in calls, Arrives(c)
  PROVE  NewOffered
<1>1. /\ calls' = (calls \ {c}) \cup Following(c) /\ c.page # "site"
      /\ UNCHANGED <<storage, session, view, adrift, touched, stale>>
  BY ArrivesDoes
<1> SUFFICES ASSUME NEW n \in Following(c), Head(n.plan) # "run_eval", ~touched'[n.tab]
             PROVE  storage'.token \in Permits(Head(n.plan))
  BY <1>1 DEF NewOffered, Offered
<1>2. n.tab = c.tab /\ n.page = c.page /\ Head(n.plan) \in Later /\ CallTyped(n) /\ Placed(n)
  BY <1>1, FollowingTyped
<1>3. n.tab \in Tab /\ view[n.tab].page # "public"
  <2>1. n.tab \in Tab /\ n.page \in Asking /\ n.page # "site"
    BY <1>1, <1>2 DEF CallTyped
  <2>2. n.page # "public"
    BY <2>1 DEF Asking, Pages
  <2>3. QED
    BY <1>2, <2>1, <2>2 DEF Placed
<1>4. session'[n.tab] \in User
  BY <1>1, <1>3 DEF TypeInv, TabOK
<1>5. session'[n.tab] \in Permits(Head(n.plan))
  BY <1>2, <1>4, LaterPermitted
<1>6. QED
  BY <1>3, <1>5, TokenIsSession

LEMMA StepOffers == TypeInv /\ TypeInv' /\ [Next]_vars => [NewOffered]_vars
<1> SUFFICES ASSUME TypeInv, TypeInv', Next PROVE NewOffered
  OBVIOUS
<1>1. CASE \/ \E b \in Tab : Leave(b) \/ Enter(b) \/ Navigate(b) \/ Select(b) \/ Logout(b)
           \/ \E c \in calls : SignedIn(c) \/ Created(c)
  <2>1. PICK b \in Tab, u \in Person, v \in View, left \in SUBSET calls :
          /\ v.page = "ticket" => v.ticket \in Ticket
          /\ v.page # "public" => u \in User
          /\ Show(b, u, v, left)
    BY <1>1, ShowSteps
  <2>2. QED
    BY <2>1, ShowOffers
<1>2. ASSUME NEW b \in Tab, SignIn(b) \/ NewTicket(b) \/ Click(b) \/ ClickTicket(b)
      PROVE  NewOffered
  BY <1>2, ClicksOffer
<1>3. ASSUME NEW b \in Tab, Reload(b) PROVE NewOffered
  BY <1>3, ReloadOffers
<1>4. ASSUME NEW c \in calls, Fails(c) PROVE NewOffered
  BY <1>4 DEF Fails, NewOffered
<1>5. ASSUME NEW c \in calls, Arrives(c) PROVE NewOffered
  BY <1>5, AnswersOffer
<1>6. ASSUME NEW c \in adrift, GoesOn(c) PROVE NewOffered
  BY <1>6 DEF GoesOn, NewOffered
<1>7. QED
  BY <1>1, <1>2, <1>3, <1>4, <1>5, <1>6 DEF Next, Act, Settle

\* What a handler without its page sends next is permitted to who began it.
LEMMA GoesOnPermitted ==
  ASSUME TypeInv, NEW c \in adrift, storage.token = c.user
  PROVE  storage.token \in Permits(Head(c.plan))
<1>1. c.plan \in Plan /\ Entitled(c.user, c.plan)
  BY DEF TypeInv, AdriftTyped
<1>2. QED
  BY <1>1, RestEntitled

\* A request a mounted page sends is one the server permits to the user of the
\* token, in the routes' role and org checks, unless another tab changed the token
\* since.  The handlers of pages that are gone, which no logout or other login
\* stops, are refused nothing while the token is that of the user who began them.
THEOREM OffersPermitted == Spec => OffersOnlyPermitted
<1> DEFINE Permitted ==
      /\ \A c \in calls' \ calls :
           c.page # "site" /\ Head(c.plan) # "run_eval" /\ ~touched'[c.tab]
             => storage'.token \in Permits(Head(c.plan))
      /\ \A c \in adrift \ adrift' :
           storage.token = c.user => storage.token \in Permits(Head(c.plan))
<1>1. TypeInv /\ [NewOffered]_vars => [Permitted]_vars
  BY GoesOnPermitted DEF NewOffered, Offered
<1>2. QED
  BY <1>1, InitTyped, StepTyped, StepOffers, PTL DEF Spec, OffersOnlyPermitted
=============================================================================
