--------------------------- MODULE LoyaltyLedger ---------------------------
(***************************************************************************)
(* What the scanner promises the businesses that use it: a ledger of       *)
(* stamps and of redemptions in which every entry is recorded in one step, *)
(* an idempotency key is used at most once in each of the two tables       *)
(* (unique (business_id, idempotency_key) in packages/db/src/schema/       *)
(* transactions.ts and redemptions.ts), two stamps of a customer are at    *)
(* least MinStampGap apart, and a redemption is paid for by the balance.   *)
(* Scanner implements it with concurrent database transactions.            *)
(***************************************************************************)
EXTENDS Integers

CONSTANTS
    Requests,       \* what names an entry
    Customers,
    Keys,           \* idempotency keys
    Times,          \* when a stamp may be registered
    Costs,          \* what a redemption may take
    MinStampGap,    \* MIN_STAMP_GAP_SECONDS
    Never           \* the last stamp of a customer without one

VARIABLES
    stamps,         \* current_stamps of each customer
    lastStamp,      \* last_stamp_at of each customer
    stampLog,       \* the transactions table
    redemptionLog   \* the redemptions table

vars == <<stamps, lastStamp, stampLog, redemptionLog>>

Unused(key, log) == \A e \in log : e.key # key

Init ==
    /\ stamps \in [Customers -> Nat]
    /\ lastStamp \in [Customers -> {Never} \cup Nat]
    /\ stampLog = {}
    /\ redemptionLog = {}

\* A visit is recorded and adds exactly one stamp.
Stamp(id, c, key, t) ==
    /\ Unused(key, stampLog)
    /\ lastStamp[c] # Never => t >= lastStamp[c] + MinStampGap
    /\ stampLog' = stampLog \cup {[id |-> id, customer |-> c, key |-> key, at |-> t]}
    /\ stamps' = [stamps EXCEPT ![c] = @ + 1]
    /\ lastStamp' = [lastStamp EXCEPT ![c] = t]
    /\ UNCHANGED redemptionLog

\* A reward is redeemed and takes exactly its cost.
Redeem(id, c, key, cost) ==
    /\ Unused(key, redemptionLog)
    /\ stamps[c] >= cost
    /\ redemptionLog' = redemptionLog
         \cup {[id |-> id, customer |-> c, key |-> key, cost |-> cost]}
    /\ stamps' = [stamps EXCEPT ![c] = @ - cost]
    /\ UNCHANGED <<lastStamp, stampLog>>

Next ==
    \E id \in Requests, c \in Customers, key \in Keys :
        \/ \E t \in Times : Stamp(id, c, key, t)
        \/ \E cost \in Costs : Redeem(id, c, key, cost)

Spec == Init /\ [][Next]_vars
=============================================================================
