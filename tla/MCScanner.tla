----------------------------- MODULE MCScanner -----------------------------
(* Instances of Scanner for TLC. *)
EXTENDS Scanner, TLC

\* Requests, customers and keys are interchangeable: the safety run uses it.
Interchangeable == Permutations(Requests) \cup Permutations(Customers) \cup Permutations(Keys)
=============================================================================
