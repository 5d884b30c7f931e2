----------------------------- MODULE Eligibility -----------------------------
(***************************************************************************)
(* The eligibility facts of a ticket (services/eligibility.ts): pure       *)
(* calendar arithmetic over the ticket's, the order's and the customer's   *)
(* rows.  An instant is a day of the UTC calendar and a time of that day:  *)
(* the rows and JavaScript's Date hold instants, and the code compares them*)
(* to the millisecond.                                                     *)
(***************************************************************************)
EXTENDS Integers

CONSTANT Null   \* no order, no date, no item; and a fact that is not known

ASSUME NullAssumption == Null \notin {"yes", "no"}

Fact(holds) == IF holds THEN "yes" ELSE "no"

\* ----- the calendar of JavaScript's UTC dates ----------------------------
Leap(y) == y % 4 = 0 /\ (y % 100 # 0 \/ y % 400 = 0)

DaysIn(y, m) ==
  CASE m \in {4, 6, 9, 11} -> 30
    [] m = 2 -> IF Leap(y) THEN 29 ELSE 28
    [] OTHER -> 31

\* time counts from midnight.
Instant == {t \in [year : Nat, month : 1 .. 12, day : 1 .. 31, time : Nat] :
              t.day <= DaysIn(t.year, t.month)}

\* s <= t.
NotAfter(s, t) ==
  \/ s.year < t.year
  \/ s.year = t.year /\ s.month < t.month
  \/ s.year = t.year /\ s.month = t.month /\ s.day < t.day
  \/ s.year = t.year /\ s.month = t.month /\ s.day = t.day /\ s.time <= t.time

\* The month n months after that of t.
YearAfter(t, n) == t.year + (t.month - 1 + n) \div 12
MonthAfter(t, n) == ((t.month - 1 + n) % 12) + 1

\* setUTCMonth keeps the day of the month and the time; a day the month does
\* not have runs over into the next one.
AddMonths(t, n) ==
  LET y == YearAfter(t, n)
      m == MonthAfter(t, n)
  IN IF t.day <= DaysIn(y, m)
     THEN [year |-> y, month |-> m, day |-> t.day, time |-> t.time]
     ELSE [year |-> y, month |-> m + 1, day |-> t.day - DaysIn(y, m), time |-> t.time]

\* ----- the facts ---------------------------------------------------------
\* Gold customers' hardware is under warranty for six months more; the order's
\* total stands for the price of its first item.
WarrantyMonths(customer, item, total) ==
  LET excluded == \/ item.category = "software"
                  \/ item.finalSale
                  \/ item.category = "accessory" /\ total < 3000
  IN IF customer.tier = "gold" /\ ~excluded THEN 18 ELSE 12

\* order.item is the first item, Null for an order without one.
WarrantyEnd(order, customer) ==
  AddMonths(order.delivered,
            IF order.item = Null THEN 12
            ELSE WarrantyMonths(customer, order.item, order.total))

\* The fact about the return window, and the fact about the warranty; a ticket
\* without an order, an order without a window or a delivery: Null.
ReturnWindowEligible(created, order) ==
  IF order = Null \/ order.returnUntil = Null THEN Null
  ELSE Fact(NotAfter(created, order.returnUntil))

WarrantyActive(created, order, customer) ==
  IF order = Null \/ order.delivered = Null THEN Null
  ELSE Fact(NotAfter(created, WarrantyEnd(order, customer)))

\* executeToolAction lets a gated tool through on either.
OpensGate(created, order, customer) ==
  \/ ReturnWindowEligible(created, order) = "yes"
  \/ WarrantyActive(created, order, customer) = "yes"
=============================================================================
