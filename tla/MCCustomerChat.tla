--------------------------- MODULE MCCustomerChat ---------------------------
(* CustomerChat on small instances.                                        *)
EXTENDS CustomerChat, TLC

\* Customers, connections and frames are interchangeable; no property of these
\* runs is a liveness property.
Interchangeable ==
  Permutations(Customer) \cup Permutations(Socket) \cup Permutations(Frame)
=============================================================================
