---------------------------- MODULE LoyaltyCard ----------------------------
(***************************************************************************)
(* What one customer sees while stamps and redemptions follow each other:  *)
(* the numbers that loadCustomerLoyaltySnapshot (apps/web/lib/wallet/      *)
(* loyaltySnapshot.ts) and buildCustomerView (scanner/logic.ts) compute    *)
(* from the balance with the engine, for every set of rules.               *)
(***************************************************************************)
EXTENDS Loyalty

CONSTANTS
    Rules,          \* reward rules
    Costs,          \* what reward_rules.stamps_required may be
    Sizes,          \* what loyalty_programs.stamps_required may be
    MaxStamps       \* bound: the balance

ASSUME RulesAssumption == IsFiniteSet(Rules)
ASSUME CardAssumption ==
    /\ Costs \subseteq Nat \ {0} /\ Sizes \subseteq Nat \ {0} /\ MaxStamps \in Nat

VARIABLES stamps, rules, required
vars == <<stamps, rules, required>>

\* What the owner may have configured.
Configured ==
    /\ rules \in [Rules -> [active : BOOLEAN, cost : Costs]]
    /\ required \in Sizes

Init == stamps = 0 /\ Configured

Stamp ==
    /\ stamps < MaxStamps
    /\ stamps' = ApplyStamp(stamps)
    /\ UNCHANGED <<rules, required>>

Redeem(r) ==
    /\ EvaluateRedemption(stamps, rules[r].active, rules[r].cost) = "allowed"
    /\ stamps' = ApplyRedemption(stamps, rules[r].cost)
    /\ UNCHANGED <<rules, required>>

Next == Stamp \/ \E r \in Rules : Redeem(r)

Spec == Init /\ [][Next]_vars

\* What the pass shows.
Snapshot ==
    [available |-> AvailableRewards(stamps, rules),
     count     |-> CountAvailableRedemptions(stamps, rules),
     cycle     |-> CycleStampProgress(stamps, required),
     missing   |-> StampsUntilNextReward(stamps, rules),
     bar       |-> StampProgress(stamps, required)]

----------------------------------------------------------------------------
\* The largest number of redemptions the server would accept one after the
\* other, starting from this balance.
MostRedemptions ==
    LET most[s \in 0..MaxStamps] ==
            LET accepted == {r \in Rules :
                    EvaluateRedemption(s, rules[r].active, rules[r].cost) = "allowed"}
            IN  IF accepted = {} THEN 0
                ELSE 1 + Max({most[ApplyRedemption(s, rules[r].cost)] : r \in accepted})
    IN  most[stamps]

ActiveRules == {r \in Rules : rules[r].active}

\* The grid of the pass shows the cycle in progress: what is left out is a
\* whole number of cycles, only a new customer sees an empty card (a full
\* card never shows empty, loyalty.ts 89-98), and the grid and the progress
\* bar agree until the first card is full.
CycleHonest ==
    /\ (stamps - Snapshot.cycle) % required = 0
    /\ Snapshot.cycle \in 0..required
    /\ Snapshot.cycle = 0 <=> stamps = 0
    /\ stamps <= required => Snapshot.cycle = Snapshot.bar.display
    /\ Snapshot.bar.completed <=> Snapshot.bar.display = required

\* "Stamps for the next reward" is exact: that many stamps unlock a rule
\* that cannot be redeemed now, one less unlocks none, and it is missing
\* exactly when every active rule is unlocked (loyalty.ts 106-124).
NextRewardExact ==
    LET n == Snapshot.missing
        unlocked(s) == AvailableRewards(s, rules)
    IN  IF n = -1
        THEN unlocked(stamps) = ActiveRules
        ELSE /\ n > 0
             /\ unlocked(stamps + n) # unlocked(stamps)
             /\ unlocked(stamps + n - 1) = unlocked(stamps)

\* The count of available redemptions and the list of available rewards
\* promise something exactly when the server would accept a redemption, and
\* with one active rule the count is the number it would accept.
CountHonest ==
    /\ Snapshot.count > 0 <=> MostRedemptions > 0
    /\ Snapshot.available # {} <=> MostRedemptions > 0
    /\ Snapshot.count >= MostRedemptions
    /\ Cardinality(ActiveRules) = 1 => Snapshot.count = MostRedemptions

\* The three together: what the customer and the staff read off the card.
NumbersHonest == CycleHonest /\ NextRewardExact /\ CountHonest

\* "How many REAL redemptions the customer can make right now" (loyalty.ts
\* 71-77, and the title of its tests): the count as its comment states it.
CountIsReal == Snapshot.count = MostRedemptions
=============================================================================
