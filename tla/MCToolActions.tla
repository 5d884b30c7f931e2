---------------------------- MODULE MCToolActions ----------------------------
(***************************************************************************)
(* Instances of ToolActions for TLC.  Ticket t1 belongs to org1, t2 to     *)
(* org2 when there is a second org.  "replace" stands for the tools that   *)
(* need an approval and an eligibility check, "coupon" for those that need *)
(* an approval only, "escalate" for those that need neither.               *)
(***************************************************************************)
EXTENDS ToolActions, MCEligibility, TLC

CONSTANTS t1, t2, org1, org2, replace, coupon, escalate, refund, security

MCTicketOrg == [t \in Ticket |-> IF t = t2 /\ org2 \in Org THEN org2 ELSE org1]

\* "escalate" is allowed for every category, the others for refunds only.
MCAllowedCategories ==
  [tool \in Tool |-> IF tool = escalate THEN Category ELSE {refund}]

\* Standard customers: the ticket of org1 is opened at the last instant of the
\* warranty, that of org2 later the same day.
MCEligible ==
  {t \in Ticket :
     OpensGate(IF t = t1 THEN LastInstant ELSE [LastInstant EXCEPT !.time = 1],
               Purchase, [tier |-> "standard"])}

MCNeedsApproval == Tool \cap {replace, coupon}
MCEligibilityGated == Tool \cap {replace}

Symmetry ==
  Permutations(Proc) \cup Permutations(ActionId) \cup Permutations(Key)
=============================================================================
