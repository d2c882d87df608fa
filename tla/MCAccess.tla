------------------------------ MODULE MCAccess ------------------------------
(* The instance that TLC checks: requests, and businesses, are only ever     *)
(* compared with each other, so any two of them may be exchanged.            *)
EXTENDS Access, TLC

Interchangeable == Permutations(Requests) \cup Permutations(Businesses)
============================================================================
