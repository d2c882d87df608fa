------------------------------ MODULE Loyalty ------------------------------
(***************************************************************************)
(* The pure loyalty engine, packages/core/src/loyalty.ts: one operator for *)
(* each exported function.  A list of reward rules is a function from rule *)
(* identifiers to [active, cost]; the order of the list is never observed. *)
(*                                                                         *)
(* The assertions of the code (a non-negative balance, a positive cost)    *)
(* are the domains of the operators: a caller that breaks one would make   *)
(* the program throw, and LoyaltyCard and Scanner check that none does.    *)
(***************************************************************************)
EXTENDS Integers, FiniteSets, FiniteSetsExt

\* last_stamp_at of a balance that never received a stamp (SQL NULL).
Never == -1

\* May a stamp be registered now?  The window is closed on the left: an
\* attempt exactly cooldown after the last stamp is allowed.
EvaluateStamp(programActive, cooldown, lastStampAt, now) ==
    IF ~programActive THEN "program_inactive"
    ELSE IF cooldown > 0 /\ lastStampAt # Never /\ now < lastStampAt + cooldown
         THEN "cooldown"
         ELSE "allowed"

\* One more stamp, with no upper limit.
ApplyStamp(stamps) == stamps + 1

\* Slip: the balance is compared with one stamp to spare.
EvaluateRedemptionOffByOne(stamps, ruleActive, ruleCost) ==
    IF ~ruleActive THEN "rule_inactive"
    ELSE IF stamps < ruleCost - 1 THEN "insufficient_stamps" ELSE "allowed"

\* May this rule be redeemed with this balance?
EvaluateRedemption(stamps, ruleActive, ruleCost) ==
    IF ~ruleActive THEN "rule_inactive"
    ELSE IF stamps < ruleCost THEN "insufficient_stamps" ELSE "allowed"

\* Slip: the card starts again from zero.
ApplyRedemptionReset(stamps, ruleCost) == 0

\* The cost is taken and the rest carried over.
ApplyRedemption(stamps, ruleCost) == stamps - ruleCost

\* The rules that can be redeemed with this balance.
AvailableRewards(stamps, rules) ==
    {r \in DOMAIN rules : rules[r].active /\ rules[r].cost <= stamps}

\* Slip: distinct unlocked rules, each counted once.
CountUnlockedRules(stamps, rules) == Cardinality(AvailableRewards(stamps, rules))

\* floor(stamps / cost), summed over the active rules.
CountAvailableRedemptions(stamps, rules) ==
    MapThenSumSet(LAMBDA r : stamps \div rules[r].cost,
                  {r \in DOMAIN rules : rules[r].active})

\* Slip: a full card shows empty.
CycleRemainder(stamps, required) == stamps % required

\* Progress in the current cycle; a whole number of cycles shows a full one.
CycleStampProgress(stamps, required) ==
    LET remainder == stamps % required
    IN  IF remainder = 0 /\ stamps > 0 THEN required ELSE remainder

\* Slip: a rule that was just reached is still upcoming.
StampsUntilReachedReward(stamps, rules) ==
    LET upcoming == {rules[r].cost : r \in {q \in DOMAIN rules :
                        rules[q].active /\ rules[q].cost >= stamps}}
    IN  IF upcoming = {} THEN -1 ELSE Min(upcoming) - stamps

\* Stamps missing for the cheapest active rule not yet reached, or -1 (the
\* code's null) when there is none.
StampsUntilNextReward(stamps, rules) ==
    LET upcoming == {rules[r].cost : r \in {q \in DOMAIN rules :
                        rules[q].active /\ rules[q].cost > stamps}}
    IN  IF upcoming = {} THEN -1 ELSE Min(upcoming) - stamps

\* The progress bar: clamped to the card's size.
StampProgress(stamps, required) ==
    [display |-> Min({stamps, required}), completed |-> stamps >= required]
=============================================================================
