---------------------------- MODULE WalletPasses ----------------------------
(***************************************************************************)
(* What the two wallets show of one customer's card: the snapshot that     *)
(* loadCustomerLoyaltySnapshot takes, and what buildPassJson, buildPkpass, *)
(* buildLoyaltyClassPayload and buildLoyaltyObjectPayload make of it, at   *)
(* every moment of the days of Dashboard.                                  *)
(*                                                                         *)
(* A pass is a record of its layout's slots; a list of fields that are     *)
(* there under a condition is a set of fields.  Texts are reduced to what  *)
(* varies in them: the reward they name and the stamps they say are        *)
(* lacking.                                                                *)
(***************************************************************************)
EXTENDS Dashboard

CONSTANTS
    None,           \* null, undefined or absent
    Businesses      \* what businesses configured, see BusinessRow

Scales == {"@1x", "@2x", "@3x"}
\* A row of businesses with what its other tables add to the passes: whether
\* it has a brand colour, which of its image addresses are set, the last
\* promotion and the active locations, whether it has texts for the back of
\* the pass; and which image files answer at their addresses.
BusinessRow(b) ==
    /\ b.branded \in BOOLEAN /\ b.backFields \in BOOLEAN
    /\ b.set \subseteq {"logo", "hero", "googleLogo", "googleWideLogo", "googleHero"}
    /\ b.hosted \subseteq (({<<"logo">>, <<"icon">>} \cup ({"strip"} \X Nat)) \X Scales)

ASSUME WalletAssumption == \A b \in Businesses : BusinessRow(b)
\* It is no reward, no number, no text and no image.
ASSUME NoneAssumption ==
    /\ None \notin Rules \cup Nat \cup [lacking : Nat, reward : Rules]
    /\ None \notin {<<"logo">>, <<"icon">>} \cup ({"strip"} \X Nat)

----------------------------------------------------------------------------
(* The snapshot.                                                           *)

\* The head of the active rules ordered by their cost; Postgres may answer
\* with either of two equals.
FirstRules ==
    IF ActiveRules = {} THEN {None}
    ELSE {r \in ActiveRules : \A q \in ActiveRules : rules[r].cost <= rules[q].cost}

LifetimeStamps == SumFunction(visits)

\* Slip: the reward ahead, unlocked or not.
RewardAhead(first) == first

\* The head of the unlocked ones, which keep the order.
Reward(first) == IF first \in Snapshot.available THEN first ELSE None

\* What both platforms' builders may rely on: a cycle on the card, and a null
\* exactly where the business has no texts or nothing is ahead.
CustomerLoyaltySnapshot ==
    [next : Rules \cup {None}, reward : Rules \cup {None},
     count : Nat, cycle : 0 .. required, required : Nat \ {0},
     lifetime : Nat \cup {None}, missing : (Nat \ {0}) \cup {None}]

CustomerSnapshot(b, first) ==
    [next     |-> first,
     reward   |-> Reward(first),
     count    |-> Snapshot.count,
     cycle    |-> Snapshot.cycle,
     required |-> required,
     lifetime |-> IF b.backFields THEN LifetimeStamps ELSE None,
     missing  |-> IF b.backFields /\ Snapshot.missing # -1 THEN Snapshot.missing ELSE None]

\* "Te faltan n sellos para tu X", "Ya puedes canjear tu X" when n is 0.
Announced(lacking, reward) == [lacking |-> lacking, reward |-> reward]

\* A field of a list, when it has a value.
Field(key, value) == IF value = None THEN {} ELSE {[key |-> key, value |-> value]}

\* The account summary at the back, for a business that asked for it: total,
\* missing when there is a next reward, available.
Summary(in) ==
    IF in.lifetime = None THEN {}
    ELSE Field("totalStampsEarned", in.lifetime) \cup Field("stampsUntilNextReward", in.missing)
           \cup Field("availableRewards", in.count)

\* The texts and links of passBackFieldsConfig, all or none.
BackTexts(b) == IF b.backFields THEN {"howItWorks", "howToEarnStamp", "validUntil"} ELSE {}
BackLinks(b) == IF b.backFields THEN {"review", "createdWith"} ELSE {}

----------------------------------------------------------------------------
(* Apple.                                                                  *)

\* The lock screen's text near a location.
RelevantText(s) ==
    IF s.next = None THEN None
    ELSE Announced(Max({s.required - s.cycle, 0}), s.next)

\* What the pass is made from: the reward that can be redeemed, and apart from
\* it the one ahead.
PassJsonInput(b, s) ==
    [cycle |-> s.cycle, required |-> s.required, count |-> s.count,
     reward |-> s.reward, next |-> s.next,
     lifetime |-> s.lifetime, missing |-> s.missing,
     promo |-> b.promo, texts |-> BackTexts(b), links |-> BackLinks(b),
     locations |-> IF RelevantText(s) = None THEN {}
                   ELSE {[place |-> p, text |-> RelevantText(s)] : p \in b.places}]

\* Slip: the number of rewards gives way to the next one until there are three.
SecondaryCounting(in) ==
    IF in.count > 2 THEN Field("rewardsAvailable", in.count) ELSE Field("nextReward", in.next)

\* More than one redemption takes the place of the next reward.
Secondary(in) ==
    IF in.count > 1 THEN Field("rewardsAvailable", in.count) ELSE Field("nextReward", in.next)

PassJson(in) ==
    [header    |-> [cycle |-> in.cycle, required |-> in.required],
     secondary |-> Secondary(in),
     auxiliary |-> Field("reward", in.reward),
     promo     |-> in.promo,
     summary   |-> Summary(in),
     texts     |-> in.texts,
     links     |-> in.links,
     locations |-> in.locations]

\* An image in its three scales, or nothing when one of them is missing.
AssetSet(b, image) ==
    IF image # None /\ \A k \in Scales : <<image, k>> \in b.hosted THEN image ELSE None

\* The strip's address is the hero's with the number of stamps of the cycle.
Strip(b, cycle) == IF "hero" \in b.set THEN <<"strip", cycle>> ELSE None

\* The icon is in the logo's directory.
Icon(b) == IF "logo" \in b.set THEN <<"icon">> ELSE None

\* An icon is mandatory: a square of the brand's colour, or of one derived
\* from the business, stands in for it.
Pkpass(b, s) ==
    LET icon == AssetSet(b, Icon(b))
    IN  [pass   |-> PassJson(PassJsonInput(b, s)),
         colors |-> IF b.branded THEN "brand" ELSE "neutral",
         icon   |-> IF icon # None THEN icon ELSE <<IF b.branded THEN "brand" ELSE "derived">>,
         logo   |-> AssetSet(b, IF "logo" \in b.set THEN <<"logo">> ELSE None),
         strip  |-> AssetSet(b, Strip(b, s.cycle))]

\* The files of the archive; the manifest has one line for each of the others.
Contents(pkpass) ==
    {"pass.json"} \cup {<<"icon", k>> : k \in Scales}
      \cup {<<"logo", k>> : k \in IF pkpass.logo # None THEN Scales ELSE {}}
      \cup {<<"strip", k>> : k \in IF pkpass.strip # None THEN Scales ELSE {}}

----------------------------------------------------------------------------
(* Google.                                                                 *)

CurrentClassVersion == "v9"
ClassId(version) == <<"biz", version>>
ObjectId == "pass"

\* What the class is made from, the images that are set among them.
LoyaltyClassInput(b) ==
    [version   |-> CurrentClassVersion,
     color     |-> IF b.branded THEN "brand" ELSE "derived",
     images    |-> b.set \cap {"googleLogo", "googleWideLogo", "googleHero"},
     locations |-> b.places]

LoyaltyClass(in) ==
    [id |-> ClassId(in.version), color |-> in.color, images |-> in.images,
     locations |-> in.locations]

\* What the object is made from: its reward is the one ahead, unlocked or not.
LoyaltyObjectInput(b, s) ==
    [cycle |-> s.cycle, required |-> s.required, count |-> s.count, reward |-> s.next,
     lifetime |-> s.lifetime, missing |-> s.missing,
     texts |-> BackTexts(b), links |-> BackLinks(b)]

ProgressMessage(in) == Announced(Max({in.required - in.cycle, 0}), in.reward)

ObjectPayload(in) ==
    [id      |-> ObjectId,
     class   |-> ClassId(CurrentClassVersion),
     points  |-> [cycle |-> in.cycle, required |-> in.required],
     modules |-> (IF in.reward = None THEN {} ELSE Field("progress", ProgressMessage(in)))
                   \cup (IF in.count > 1 THEN Field("rewardsAvailable", in.count) ELSE {})
                   \cup Summary(in),
     texts   |-> in.texts,
     links   |-> in.links]

LoyaltyObject(b, s) == ObjectPayload(LoyaltyObjectInput(b, s))

\* The link carries the class and the object.
SaveLink(b, s) ==
    [classes |-> {LoyaltyClass(LoyaltyClassInput(b))}, objects |-> {LoyaltyObject(b, s)}]

----------------------------------------------------------------------------
Values(fields, key) == {f.value : f \in {g \in fields : g.key = key}}

\* The rules the server redeems now.
Redeemable ==
    {r \in Rules : EvaluateRedemption(stamps, rules[r].active, rules[r].cost) = "allowed"}

\* No active rule costs more than the card has stamps: what saving a rule
\* checks (rewards/logic.ts 187-203), and a card made smaller undoes.
RulesFit == \A r \in ActiveRules : rules[r].cost <= required

\* Google says that something can be redeemed.
GoogleAnnounces(object) ==
    \/ \E m \in Values(object.modules, "progress") : m.lacking = 0
    \/ Values(object.modules, "rewardsAvailable") # {}

\* The passes never promise what the till would refuse.  The snapshot is what
\* its type says, with a cycle that fits the card.  Apple names as
\* available a rule the server redeems, and names one whenever there is one
\* and whenever the scanner's panel has a button for one.  Both platforms show
\* the same stamps and say the same.  The grid's image is there whenever
\* the business hosts one for each number of stamps, and the total at the
\* back is the balance exactly while nothing was redeemed.
\*
\* While no rule costs more than the card (RulesFit): Google announces
\* nothing that cannot be redeemed; the stamps it says are lacking do unlock
\* the reward it names, and with one rule that costs the card they are, on the
\* first card, what the engine says.  It is silent about what can be redeemed
\* exactly when that is one redemption and the balance is not the one full
\* card: loyaltyPayload.ts 318-323 takes the message of progress to announce
\* that one redemption, but the message counts up to the full card.
PassesTellTheTruth ==
    \A b \in Businesses, first \in FirstRules :
    \A s \in {CustomerSnapshot(b, first)} :
    \A apple \in {Pkpass(b, s)}, google \in {LoyaltyObject(b, s)} :
      LET grid == {"strip"} \X (0 .. required)
      IN  /\ s \in CustomerLoyaltySnapshot
          /\ Values(apple.pass.auxiliary, "reward") \subseteq Redeemable
          /\ apple.pass.auxiliary # {} <=> Redeemable # {}
          /\ apple.pass.auxiliary # {} <=> TRUE \in Range(CustomerView.options)
          /\ apple.pass.header = google.points
          /\ \A l \in apple.pass.locations : {l.text} = Values(google.modules, "progress")
          /\ grid \X Scales \subseteq b.hosted /\ "hero" \in b.set
               => apple.strip = <<"strip", apple.pass.header.cycle>>
          /\ RulesFit =>
               /\ GoogleAnnounces(google) => Redeemable # {}
               /\ Redeemable # {} =>
                    (~GoogleAnnounces(google) <=> s.count = 1 /\ stamps # required)
               /\ \A m \in Values(google.modules, "progress") :
                    /\ rules[m.reward].cost <= stamps + m.lacking
                    /\ Cardinality(ActiveRules) = 1 /\ rules[m.reward].cost = required
                         => m.lacking \in {0, Snapshot.missing} \/ stamps > required
          /\ b.backFields =>
               \A n \in Values(apple.pass.summary, "totalStampsEarned") :
                 n >= stamps /\ (n = stamps <=> SumFunction(redeemed) = 0)

\* The pass the customer holds changes with every stamp and every redemption,
\* or the customer would think that nothing was registered.  This is said of
\* businesses with an active rule and none that costs more than the card
\* (RulesFit): Apple's pass always changes; Google's too, except when the only
\* redemption left is made beside a card begun anew.  And every redemption,
\* whatever the rules cost, uses up one of those announced.
EveryMoveShows ==
    [][stamps' # stamps =>
         /\ stamps' < stamps =>
              CountAvailableRedemptions(stamps', rules') < CountAvailableRedemptions(stamps, rules)
         /\ RulesFit /\ ActiveRules # {} =>
              \A b \in Businesses, first \in FirstRules :
              \A s \in {CustomerSnapshot(b, first)}, t \in {CustomerSnapshot(b, first)'} :
                /\ Pkpass(b, t) # Pkpass(b, s)
                /\ \/ LoyaltyObject(b, t) # LoyaltyObject(b, s)
                   \/ stamps' = stamps - required /\ stamps' > 0 /\ Redeemable' = {}]_stamps
=============================================================================
