---------------------------- MODULE MCDirectory ----------------------------
(* The instance that TLC checks: customers and names are only compared with *)
(* each other, so any two of them may be exchanged.                         *)
EXTENDS Directory, TLC

Interchangeable == Permutations(Customers) \cup Permutations(Names)
============================================================================
