--------------------------- MODULE MCOwnerConsole ---------------------------
(* The plans' limits, scaled to the two days of a month.                   *)
EXTENDS OwnerConsole, TLC

Limits == "negocio" :> 1 @@ "intelligence" :> 2

\* Requests are interchangeable.
Interchangeable == Permutations(Requests)
============================================================================
