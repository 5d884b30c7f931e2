--------------------------- MODULE ActionLifecycle ---------------------------
(***************************************************************************)
(* What a caller of the tool-action service is promised about one action,  *)
(* whatever requests produced it: the life cycle of HLD section 4.3, with  *)
(* the product rule that a ticket never has two active actions and the     *)
(* idempotency rule that a recorded result is never replaced.              *)
(*                                                                         *)
(* The promise has one exception, because the service checks a row in one  *)
(* query and writes it in another.  met is what two requests were at work  *)
(* on at once: of a pair of actions in met neither need respect the other, *)
(* and an action met with itself may take any step.  The specification     *)
(* says nothing of how met grows, only that it never shrinks.              *)
(***************************************************************************)
EXTENDS Naturals

CONSTANTS
  ActionId,   \* the identifiers actions may get
  Ticket      \* the tickets actions are requested for

VARIABLES
  life,  \* life[a]: what has become of action a
  met    \* pairs of actions that two requests were at work on at once

NotRequested == [status |-> "absent"]

Requested ==
  [ticket: Ticket, gated: BOOLEAN, result: Nat,
   status: {"approval_required", "approved", "rejected", "executed", "failed"}]

Active == {"approved", "executed"}

\* The ticket t has no active action, the action a itself left aside.
FreeOfOthers(t, a) ==
  \A b \in ActionId \ {a} :
    life[b].status \in Active /\ life[b].ticket = t => <<a, b>> \in met

\* The action a is where a step of the life cycle may be taken.
At(a, status) ==
  /\ life[a] # NotRequested
  /\ life[a].status = status \/ <<a, a>> \in met

Init == life = [a \in ActionId |-> NotRequested] /\ met = {}

Request(a, t, gated) ==
  /\ life[a] = NotRequested
  /\ FreeOfOthers(t, a)
  /\ life' = [life EXCEPT ![a] =
       [ticket |-> t, gated |-> gated, result |-> 0,
        status |-> IF gated THEN "approval_required" ELSE "approved"]]

Approve(a) ==
  /\ At(a, "approval_required")
  /\ FreeOfOthers(life[a].ticket, a)
  /\ life' = [life EXCEPT ![a].status = "approved"]

Reject(a) ==
  /\ At(a, "approval_required")
  /\ life' = [life EXCEPT ![a].status = "rejected"]

\* Some effect is recorded with the status; 0 stands for "no effect recorded".
Execute(a) ==
  /\ At(a, "approved")
  /\ FreeOfOthers(life[a].ticket, a)
  /\ life'[a].result \in Nat \ {0}
  /\ life' = [life EXCEPT ![a].status = "executed", ![a].result = life'[a].result]

Fail(a) ==
  /\ At(a, "approved")
  /\ life' = [life EXCEPT ![a].status = "failed", ![a].result = 0]

Next ==
  /\ met \subseteq met'
  /\ \/ UNCHANGED life
     \/ \E a \in ActionId :
          \/ \E t \in Ticket, gated \in BOOLEAN : Request(a, t, gated)
          \/ Approve(a)
          \/ Reject(a)
          \/ Execute(a)
          \/ Fail(a)

Spec == Init /\ [][Next]_<<life, met>>

-----------------------------------------------------------------------------

TypeOK == life \in [ActionId -> Requested \cup {NotRequested}]

(* The product rule: two different actions of one ticket are never both    *)
(* approved or executed, unless two requests were at work on them at once.  *)
OneActive ==
  \A a, b \in ActionId :
    /\ life[a].status \in Active
    /\ life[b].status \in Active
    /\ life[a].ticket = life[b].ticket
    => a = b \/ <<a, b>> \in met
=============================================================================
