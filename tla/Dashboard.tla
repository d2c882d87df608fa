------------------------------ MODULE Dashboard ------------------------------
(***************************************************************************)
(* What the owner sees of one customer: the metrics and the weekly charts  *)
(* of dashboard/logic.ts, recomputed from the rows at each visit of the    *)
(* page, while the customer of LoyaltyCard collects stamps and redeems     *)
(* them over the days.  The numbers of a business are sums over its        *)
(* customers, so one customer's share has everything that can be wrong     *)
(* with a window or a week.                                                *)
(*                                                                         *)
(* A timestamp is the day it falls on.  The lengths of the code (7 days,   *)
(* 8 weeks, a period of 30 days) are constants, to be scaled down.         *)
(***************************************************************************)
EXTENDS LoyaltyCard, Functions

CONSTANTS
    WeekDays,       \* days of a week
    WeeksBack,      \* WEEKS_BACK
    PeriodDays,     \* PERIOD_DAYS, and ACTIVE_WINDOW_DAYS, which equals it
    InactiveDays,   \* INACTIVE_WINDOW_DAYS
    NearRewardGap,  \* NEAR_REWARD_GAP
    MaxOpening,     \* bound: stamps of the first day
    MaxMoves,       \* bound: stamps and redemptions after the first day
    Horizon         \* bound: the last day

\* The period is longer than a week and ends before the charts begin: 30 days
\* against 7, and against 7 whole weeks.
ASSUME DashboardAssumption ==
    /\ {WeekDays, WeeksBack, PeriodDays, InactiveDays} \subseteq Nat \ {0}
    /\ WeekDays <= PeriodDays /\ PeriodDays <= (WeeksBack - 1) * WeekDays
    /\ PeriodDays <= InactiveDays
\* The bounds let the card begin.
ASSUME BoundsAssumption ==
    /\ {NearRewardGap, MaxOpening, MaxMoves, Horizon} \subseteq Nat
    /\ MaxOpening <= MaxStamps /\ WeekDays <= Horizon + 1

VARIABLES
    now,            \* today
    createdAt,      \* customers.created_at
    balance,        \* there is a row of customer_balances
    visits,         \* rows of transactions, by the day of their created_at
    redeemed        \* rows of redemptions, by the day of their redeemed_at

history == <<createdAt, balance, visits, redeemed>>

\* The card begins on a Sunday, the last day of the first week.
Opening == WeekDays - 1
Days == Opening .. Horizon
WeekOf(day) == day \div WeekDays
NoRows == [d \in Days |-> 0]

----------------------------------------------------------------------------
(* The days of a customer.                                                 *)

\* A customer comes on the first day, perhaps with many visits on that day,
\* or on a later one; one who came before the program was configured has no
\* balance until the first stamp.
Enroll ==
    /\ Configured
    /\ now = Opening
    /\ redeemed = NoRows
    /\ \E n \in 0 .. MaxOpening :
         /\ createdAt \in IF n > 0 THEN {Opening} ELSE Opening .. Opening + WeekDays
         /\ balance \in IF n > 0 THEN {TRUE} ELSE BOOLEAN
         /\ stamps = n
         /\ visits = [NoRows EXCEPT ![Opening] = n]

Moves == SumFunctionOnSet(visits, Days \ {Opening}) + SumFunction(redeemed)

Visit ==
    /\ createdAt <= now /\ Opening < now /\ Moves < MaxMoves
    /\ Stamp
    /\ balance' = TRUE
    /\ visits' = [visits EXCEPT ![now] = @ + 1]
    /\ UNCHANGED <<now, createdAt, redeemed>>

Collect(r) ==
    /\ createdAt <= now /\ Moves < MaxMoves
    /\ Redeem(r)
    /\ redeemed' = [redeemed EXCEPT ![now] = @ + 1]
    /\ UNCHANGED <<now, createdAt, balance, visits>>

NextDay ==
    /\ now < Horizon
    /\ now' = now + 1
    /\ UNCHANGED <<vars, history>>

DayByDay == Enroll /\ [][Visit \/ NextDay \/ \E r \in Rules : Collect(r)]_<<vars, history, now>>

----------------------------------------------------------------------------
(* loadDashboardMetrics.                                                   *)

Since(days) == {d \in Days : now - days <= d /\ d <= now}

LastStampAt == IF \E d \in Days : visits[d] > 0
               THEN Max({d \in Days : visits[d] > 0}) ELSE Never

Active == LastStampAt # Never /\ LastStampAt \in Since(PeriodDays)
Inactive == LastStampAt # Never /\ LastStampAt \notin Since(InactiveDays)
NewThisPeriod == createdAt \in Since(PeriodDays)
VisitsThisPeriod == SumFunctionOnSet(visits, Since(PeriodDays))
RedemptionsThisPeriod == SumFunctionOnSet(redeemed, Since(PeriodDays))

\* The first threshold above the balance, of the sorted list.
NearReward ==
    LET above == {rules[r].cost : r \in {q \in Rules : rules[q].active /\ rules[q].cost > stamps}}
    IN  balance /\ above # {} /\ Min(above) - stamps <= NearRewardGap

----------------------------------------------------------------------------
(* The charts.  Rows are read since a timestamp, grouped by the Monday of  *)
(* their week, and drawn for the weeks up to the current one.              *)

\* Slip: the rows of the weeks shown, counted from today.
ShownOnly == Since((WeeksBack - 1) * WeekDays)

Read == Since(WeeksBack * WeekDays)

ByWeek(rows) ==
    [w \in {WeekOf(d) : d \in {e \in Read : rows[e] > 0}} |->
        SumFunctionOnSet(rows, {d \in Read : WeekOf(d) = w})]

\* The week of each point: today's, and those of the same weekday before.
WeekOfPoint(i) == WeekOf(now - (WeeksBack - i) * WeekDays)

FillWeeks(values) ==
    [i \in 1 .. WeeksBack |->
        IF WeekOfPoint(i) \in DOMAIN values THEN values[WeekOfPoint(i)] ELSE 0]

VisitsByWeek == FillWeeks(ByWeek(visits))

\* The customer as a new one and, in the weeks with a visit that began after
\* the account was made, as a returning one.
New == FillWeeks([w \in {WeekOf(d) : d \in {createdAt} \cap Read} |-> 1])
Returning ==
    FillWeeks([w \in {v \in DOMAIN ByWeek(visits) : createdAt < v * WeekDays} |-> 1])

\* Redemptions per visit, in tenths of a percent, rounded to the nearest.
RedemptionRateByWeek ==
    LET seen == ByWeek(visits)  used == ByWeek(redeemed)
        rate(w) == IF w \in DOMAIN seen
                   THEN (2000 * (IF w \in DOMAIN used THEN used[w] ELSE 0) + seen[w])
                            \div (2 * seen[w])
                   ELSE 0
    IN  FillWeeks([w \in DOMAIN seen \cup DOMAIN used |-> rate(w)])

\* The page: nothing without customers, and charts only when the period has
\* something to show.
HasCustomers == createdAt <= now
HasActivity == VisitsThisPeriod > 0 \/ RedemptionsThisPeriod > 0
Drawn == HasCustomers /\ HasActivity

----------------------------------------------------------------------------
(* The customer on the staff's screens.                                    *)

\* A row of circles: filled ones, all in another colour when complete.
StampRow == [filled |-> {i \in 1 .. required : i <= StampProgress(stamps, required).display},
             done   |-> StampProgress(stamps, required).completed]

\* The scanner's panel: every active rule, with whether its button is there.
CustomerView ==
    [progress |-> StampProgress(stamps, required),
     options  |-> [r \in {q \in Rules : rules[q].active} |->
                     r \in AvailableRewards(stamps, rules)]]

\* The owner's page of the customer: the cards of its balances, and where its
\* first stamp was made, which tells only whether there is one.
CustomerPage ==
    [cards   |-> IF balance THEN {[stamps |-> stamps, row |-> StampRow]} ELSE {},
     stamped |-> SumFunction(visits) > 0]

----------------------------------------------------------------------------
\* The rows of a whole week, whenever they are read.
InWeek(rows, w) == SumFunctionOnSet(rows, {d \in Days : WeekOf(d) = w})

\* Every week of a chart is there in full, the oldest too, although the rows
\* are read from the middle of a week on; the weeks follow each other up to
\* the current one, whose visits are always drawn; the charts and the metrics
\* of the period tell the same story; a week's visitor is new or returning
\* and never both ("así un alta nueva con su primera visita la misma semana
\* no se cuenta dos veces", dashboard/logic.ts 218-220); a week's redemptions
\* show in its rate, unless there were visits beside them by the thousands
\* (one in two thousand is the last not rounded to zero); nobody is active and
\* inactive; the dashboard is near a reward when the customer's own card says
\* so, once there is a card; and the row of stamps, the scanner's panel and
\* the owner's page agree on what is full and on who has a card.
DashboardAddsUp ==
    /\ \A i \in 1 .. WeeksBack :
         /\ WeekOfPoint(i) = WeekOf(now) - (WeeksBack - i)
         /\ VisitsByWeek[i] = InWeek(visits, WeekOfPoint(i))
         /\ New[i] + Returning[i] <= 1
         /\ VisitsByWeek[i] > 0 => New[i] + Returning[i] = 1
         /\ RedemptionRateByWeek[i] > 0 <=>
              VisitsByWeek[i] \in 1 .. 2000 * InWeek(redeemed, WeekOfPoint(i))
    /\ VisitsThisPeriod <= SumFunction(VisitsByWeek)
    /\ Active <=> VisitsThisPeriod > 0
    /\ NewThisPeriod => SumFunction(New) = 1
    /\ RedemptionsThisPeriod > 0 =>
         \E i \in 1 .. WeeksBack : InWeek(redeemed, WeekOfPoint(i)) > 0
    /\ VisitsByWeek[WeeksBack] > 0 => Drawn
    /\ ~(Active /\ Inactive)
    /\ StampRow.done <=> StampRow.filled = 1 .. required
    /\ CustomerPage.stamped => CustomerPage.cards # {}
    /\ CustomerPage.cards = {} => \A r \in DOMAIN CustomerView.options : ~CustomerView.options[r]
    /\ NearReward <=> balance /\ StampsUntilNextReward(stamps, rules) \in 1 .. NearRewardGap
============================================================================
