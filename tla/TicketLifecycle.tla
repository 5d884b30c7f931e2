--------------------------- MODULE TicketLifecycle ---------------------------
(***************************************************************************)
(* What an observer of one ticket is promised although nothing makes its   *)
(* handlers take turns: a handler takes the ticket from the status it read *)
(* itself by a move of the transition table, or by a person's direct       *)
(* answer; a ticket a person took over stays theirs; and a takeover stops  *)
(* the drafting for the customer, but for the handlers that were past the  *)
(* check already, each of which may still generate one draft.              *)
(*                                                                         *)
(* The status written may so be an old one, but never one the handler was  *)
(* not allowed.  TicketThread is shown to implement this.                  *)
(***************************************************************************)
CONSTANT Handler

VARIABLES
  status,  \* the status of the ticket
  owned,   \* a person answered the customer directly
  drafts,  \* the drafts generated for the customer, by their ids
  seen,    \* seen[h]: the status handler h goes by
  drafters \* the handlers that are past the check and have not drafted yet

vars == <<status, owned, drafts, seen, drafters>>

\* services/ticketStatus.ts
Transitions ==
  {<<"open", "in_progress">>,
   <<"in_progress", "awaiting_customer">>,
   <<"in_progress", "resolved">>,
   <<"awaiting_customer", "customer_replied">>,
   <<"awaiting_customer", "resolved">>,
   <<"customer_replied", "in_progress">>,
   <<"resolved", "closed">>,
   <<"resolved", "customer_replied">>}

\* A person answers a ticket that is being worked on, or whose customer's last
\* message was not triaged.
AnswersDirectly(from) == from \in {"in_progress", "customer_replied"}

Init ==
  /\ status \in {"absent", "open"}
  /\ owned = FALSE
  /\ drafts = {}
  /\ seen = [h \in Handler |-> "absent"]
  /\ drafters = {}

Moves(h) ==
  \/ status' = status
  \/ status = "absent" /\ status' = "open"
  \/ <<seen[h], status'>> \in Transitions
  \/ AnswersDirectly(seen[h]) /\ status' = "awaiting_customer"

TakesOver(h) == owned' = owned \/ (owned' /\ AnswersDirectly(seen[h]))

Drafts(h) ==
  \/ drafts' = drafts
  \/ /\ h \in drafters \ drafters'
     /\ \E d \in drafts' \ drafts : drafts' = drafts \cup {d}

\* A handler goes by a status it reads or writes in this very step.
Reads(h) == seen' = seen \/ \E s \in {status', "absent"} : seen' = [seen EXCEPT ![h] = s]

Checks(h) == drafters' \subseteq drafters \/ (~ owned /\ drafters' \subseteq drafters \cup {h})

Work(h) == Moves(h) /\ TakesOver(h) /\ Drafts(h) /\ Reads(h) /\ Checks(h)

Crash ==
  /\ seen' = [h \in Handler |-> "absent"]
  /\ drafters' = {}
  /\ UNCHANGED <<status, owned, drafts>>

Next == Crash \/ \E h \in Handler : Work(h)

Spec == Init /\ [][Next]_vars
=============================================================================
