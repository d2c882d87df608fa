---------------------------- MODULE MCEnrollment ----------------------------
(* The instance that TLC checks: requests and addresses are only ever       *)
(* compared with each other, so any two of them may be exchanged.           *)
EXTENDS Enrollment, TLC

Interchangeable == Permutations(Requests) \cup Permutations(Emails)
============================================================================
