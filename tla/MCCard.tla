------------------------------- MODULE MCCard -------------------------------
(* A business with everything on its passes and one with nothing.          *)
EXTENDS WalletPasses, TLC

MCBusinesses ==
    {[branded |-> TRUE, backFields |-> TRUE, promo |-> "promo", places |-> {"store"},
      set |-> {"logo", "hero", "googleLogo"},
      hosted |-> ({<<"logo">>, <<"icon">>} \cup ({"strip"} \X (0 .. 3))) \X Scales],
     [branded |-> FALSE, backFields |-> FALSE, promo |-> None, places |-> {},
      set |-> {}, hosted |-> {}]}

Symmetry == Permutations(Rules)
=============================================================================
