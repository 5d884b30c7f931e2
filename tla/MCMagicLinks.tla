---------------------------- MODULE MCMagicLinks ----------------------------
(* MagicLinks with a customer in each of two orgs, both of the same address. *)
EXTENDS MagicLinks, TLC

CONSTANTS ann, annElsewhere, here, there, mailA, o1, t1, t2

MCHomeOf == (ann :> here) @@ (annElsewhere :> there)
MCMailOf == (ann :> mailA) @@ (annElsewhere :> mailA)
MCBuyerOf == o1 :> ann
MCOpenedBy == (t1 :> ann) @@ (t2 :> annElsewhere)
Behind == -1

Interchangeable == Permutations(Proc)
=============================================================================
