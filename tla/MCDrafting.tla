----------------------------- MODULE MCDrafting -----------------------------
(* Drafting on a small instance: one model answer of each sort.            *)
EXTENDS Drafting

CONSTANTS d1, refund, note, rumour, r1, r2

\* One run of each kind with a draft, and a triage beside it.
Kinds == [r \in {r1, r2} |->
  IF r = r1 THEN {"intake", "draft", "eval"} ELSE {"triage"}]

Categories == {"refunds", "security"}
Allowed == [t \in {refund, note} |->
  IF t = refund THEN {"refunds"} ELSE Categories]

\* The model never escalates by itself here: whatever is escalated is so by the code.
SomeTriage == {Invalid} \cup [category : Categories, escalate : {FALSE}]

Fit == [body |-> "plain", cites |-> {}, resolution |-> "answered", actions |-> {}]
Do(t, big) == [tool |-> t, over |-> big]
SomeDrafts ==
  {Invalid,
   [Fit EXCEPT !.cites = {d1}, !.actions = {Do(note, FALSE), Do(refund, FALSE)}],
   [Fit EXCEPT !.actions = {Do(note, FALSE), Do(rumour, FALSE), Do(refund, TRUE)}]}
  \cup {[Fit EXCEPT !.body = b] : b \in {"quote", "register", "policy", "tone"}}
=============================================================================
