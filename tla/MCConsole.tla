------------------------------ MODULE MCConsole ------------------------------
(* Console on a small instance: an agent and an admin of the operator's org *)
(* and the admin of another one.                                           *)
EXTENDS Console, TLC

CONSTANTS agent, chief, boss, b1, b2, t1, t2

Roles == [u \in {agent, chief, boss} |-> IF u = agent THEN "agent" ELSE "admin"]

\* The first tab visits the pages; it may become the chief's by a reload, after a
\* login at the second.
Tours == [b \in {b1, b2} |-> IF b = b1 THEN Pages \ {"audit", "dashboard", "embeddings"} ELSE {}]
People == [b \in {b1, b2} |-> IF b = b1 THEN {agent, boss} ELSE {chief}]

Alike == Permutations({t1, t2})
=============================================================================
