----------------------------- MODULE MCTenants ------------------------------
(* Tenants with one demo account and a seed of two documents. *)
EXTENDS Tenants, TLC

CONSTANTS d1, d2, admin1

MCSeedDocs == <<d1, d2>>
MCSeedUsers == <<[name |-> admin1, role |-> "admin"]>>

\* A document that the first org of the name stamps, by whichever org's admin, before
\* or after, and one of the seed.
MCIngestible ==
  {[slug |-> slug, doc |-> d1] : slug \in {Unprefixed} \cup {Slug(name, 1) : name \in Name}}

Interchangeable == Permutations(Proc)
=============================================================================
