---------------------------- MODULE MCEligibility ----------------------------
(***************************************************************************)
(* Eligibility against a reference that counts half days, for noon or      *)
(* midnight of every date of three years, one of them a leap year.         *)
(***************************************************************************)
EXTENDS Eligibility

\* The number of the first day of the k-th month since January 2023.
FirstDay[k \in Nat] ==
  IF k = 0 THEN 0
  ELSE FirstDay[k - 1] + DaysIn(2023 + (k - 1) \div 12, ((k - 1) % 12) + 1)

MonthNumber(t) == 12 * (t.year - 2023) + t.month - 1
DayNumber(t) == FirstDay[MonthNumber(t)] + t.day - 1
HalfDay(t) == 2 * DayNumber(t) + t.time

\* time 0 is midnight, time 1 is noon.
Sample ==
  {t \in [year : 2023 .. 2025, month : 1 .. 12, day : 1 .. 31, time : 0 .. 1] :
     t.day <= DaysIn(t.year, t.month)}

\* setUTCMonth counts the days from the first of the month it lands in.
ASSUME MonthsRunOver ==
  \A t \in Sample, n \in {12, 18} :
    HalfDay(AddMonths(t, n)) = 2 * (FirstDay[MonthNumber(t) + n] + t.day - 1) + t.time

\* The end of a window is inside, half a day later is not.
ASSUME BoundaryIsInside ==
  \A s, t \in {d \in Sample : d.month \in {2, 3, 12} /\ d.year < 2025} :
    NotAfter(s, t) <=> HalfDay(s) <= HalfDay(t)

\* Two orders, both returned too late and under warranty since midnight of a
\* leap day: the ticket of one is opened at the last instant of the warranty,
\* which setUTCMonth moves to March, that of the other at noon of that day.
LeapDay == [year |-> 2024, month |-> 2, day |-> 29, time |-> 0]
Headset == [category |-> "audio", finalSale |-> FALSE]
Purchase == [delivered |-> LeapDay, returnUntil |-> [LeapDay EXCEPT !.month = 3],
             item |-> Headset, total |-> 8999]
LastInstant == [year |-> 2025, month |-> 3, day |-> 1, time |-> 0]

\* What is excluded from the extension, and what is not known.
ASSUME ExtensionExcludes ==
  LET gold == [tier |-> "gold"]
      months(c, final, total) == WarrantyMonths(gold, [category |-> c, finalSale |-> final], total)
  IN /\ months("audio", FALSE, 1) = 18 /\ months("accessory", FALSE, 3000) = 18
     /\ months("accessory", FALSE, 2999) = 12 /\ months("software", FALSE, 8999) = 12
     /\ months("audio", TRUE, 8999) = 12
     /\ WarrantyMonths([tier |-> "standard"], Headset, 8999) = 12
ASSUME UnknownIsNotEligible ==
  /\ ReturnWindowEligible(LastInstant, Null) = Null
  /\ ~ OpensGate(LastInstant, Null, [tier |-> "gold"])
  /\ ~ OpensGate(LastInstant, [Purchase EXCEPT !.delivered = Null, !.returnUntil = Null],
                  [tier |-> "gold"])
=============================================================================
