------------------------------ MODULE Scanner ------------------------------
(***************************************************************************)
(* registerStampForSession and redeemRewardForSession of                   *)
(* apps/web/app/(product)/scanner/logic.ts: server actions that run at the *)
(* same time, each in one READ COMMITTED transaction, over one business    *)
(* with one loyalty program.                                               *)
(*                                                                         *)
(* An action is a statement of the transaction (or the statements between  *)
(* which nothing another transaction does can be told apart).  What a      *)
(* transaction wrote is visible to the others only once it committed, so   *)
(* the tables below hold committed rows only, and pending writes are a     *)
(* program counter and the values the request holds in memory.  A row of   *)
(* a table is named by the request that inserted it.                       *)
(***************************************************************************)
EXTENDS Loyalty

CONSTANTS
    Requests,       \* invocations of the two server actions
    Customers,
    Keys,           \* idempotency keys
    Rules,          \* reward rules of the program
    Costs,          \* what reward_rules.stamps_required may be
    Cooldowns,      \* what loyalty_programs.cooldown_seconds may be
    MinStampGap,    \* MIN_STAMP_GAP_SECONDS
    MaxOpening,     \* bound: stamps a customer starts with
    MaxTime,        \* bound: the clock
    MaxAdmin        \* bound: changes made by the owner and the platform

ASSUME CostsAssumption == Costs \subseteq Nat \ {0}
ASSUME CooldownsAssumption == Cooldowns \subseteq Nat
ASSUME GapAssumption == MinStampGap \in Nat \ {0}
ASSUME BoundsAssumption == MaxOpening \in Nat /\ MaxTime \in Nat /\ MaxAdmin \in Nat

VARIABLES
    businessActive, \* businesses.status = 'active'
    operatorActive, \* users.is_active and employees.is_active of the operator
    program,        \* the loyalty_programs row
    rules,          \* the reward_rules rows
    balance,        \* the customer_balances rows
    stampRows,      \* the transactions rows
    rewardRows,     \* the rewards rows
    redemptionRows, \* the redemptions rows
    spent,          \* stampsSpent of each redemption's audit_logs row
    pc,             \* where each request is
    req,            \* the input of each request
    late,           \* was the operator already deactivated when it was sent?
    seen,           \* what each request has read
    at,             \* the `now` of each request
    reply,          \* the answer of each request
    notified,       \* requests that scheduled the wallet notification
    clock,
    adminSteps,
    opening         \* the stamps each customer started with

config == <<businessActive, operatorActive, program, rules>>
tables == <<balance, stampRows, rewardRows, redemptionRows, spent>>
local == <<pc, req, late, seen, at, reply, notified>>
vars == <<config, tables, local, clock, adminSteps, opening>>

Kinds == {"stamp", "redeem"}
Inputs == [kind : Kinds, customer : Customers, key : Keys, rule : Rules]
Program == [active : BOOLEAN, cooldown : Cooldowns]
Rule == [active : BOOLEAN, cost : Costs]
Time == {Never} \cup 0..MaxTime
PCs == {"idle", "begin", "rule", "program", "lock", "decide", "insert",
        "commit", "respond", "done"}
Replies == {"none", "ok", "replayed", "rejected", "failed"}

\* A request that has read nothing.
NothingSeen == [active |-> FALSE, cooldown |-> 0, ruleActive |-> FALSE,
                cost |-> 0, stamps |-> 0, last |-> Never]

----------------------------------------------------------------------------
(* Locks and unique indexes.  Both live exactly as long as the             *)
(* transaction that holds them.                                            *)

\* Slip: a lock that survives the end of its transaction.
HoldingPastTheEnd == {"decide", "insert", "commit", "done"}

\* Requests that hold the row lock of a balance (SELECT ... FOR UPDATE).
Holding == {"decide", "insert", "commit"}

\* Slip: the balance is read without FOR UPDATE.
LockNotNeeded(c) == TRUE

LockFree(c) ==
    \A q \in Requests : ~(pc[q] \in Holding /\ req[q].customer = c)

Rows(kind) == IF kind = "stamp" THEN stampRows ELSE redemptionRows

\* A committed row of the table of this kind carries the key.
KeyUsed(kind, key) == \E q \in Rows(kind) : req[q].key = key

\* Slip: no unique index on (business_id, idempotency_key).
NoUniqueIndex(r) == FALSE

\* Another transaction inserted the key and has not ended: an INSERT ... ON
\* CONFLICT of the same key waits for it.
KeyInFlight(r) ==
    \E q \in Requests \ {r} :
        pc[q] = "commit" /\ req[q].kind = req[r].kind /\ req[q].key = req[r].key

----------------------------------------------------------------------------
Init ==
    /\ businessActive = TRUE
    /\ operatorActive = TRUE
    /\ program \in {p \in Program : p.active}
    /\ rules \in [Rules -> {q \in Rule : q.active}]
    /\ opening \in [Customers -> 0..MaxOpening]
    /\ balance = [c \in Customers |-> [stamps |-> opening[c], last |-> Never]]
    /\ stampRows = {} /\ rewardRows = {} /\ redemptionRows = {}
    /\ spent = [r \in Requests |-> 0]
    /\ req \in [Requests -> Inputs]
    /\ pc = [r \in Requests |-> "idle"]
    /\ late = [r \in Requests |-> FALSE]
    /\ seen = [r \in Requests |-> NothingSeen]
    /\ at = [r \in Requests |-> 0]
    /\ reply = [r \in Requests |-> "none"]
    /\ notified = {}
    /\ clock = 0
    /\ adminSteps = 0

Goto(r, from, to) == pc[r] = from /\ pc' = [pc EXCEPT ![r] = to]

\* The request ends with this answer, and what it read is forgotten.
Finish(r, answer) ==
    /\ pc' = [pc EXCEPT ![r] = "done"]
    /\ reply' = [reply EXCEPT ![r] = answer]
    /\ seen' = [seen EXCEPT ![r] = NothingSeen]

\* The operator's browser calls the server action.
Submit(r) ==
    /\ Goto(r, "idle", "begin")
    /\ late' = [late EXCEPT ![r] = ~operatorActive]
    /\ UNCHANGED <<config, tables, req, seen, at, reply, notified, clock, adminSteps, opening>>

\* A stamp is refused by one of the rate limiters; a redemption has none.
RateLimited(r) ==
    /\ pc[r] = "begin" /\ req[r].kind = "stamp"
    /\ Finish(r, "rejected")
    /\ UNCHANGED <<config, tables, req, late, at, notified, clock, adminSteps, opening>>

\* Slip: only the business is looked at, the operator's token is trusted.
AuthoriseByToken(r) ==
    /\ pc[r] = "begin"
    /\ IF businessActive
       THEN /\ Goto(r, "begin", IF req[r].kind = "redeem" THEN "rule" ELSE "program")
            /\ UNCHANGED <<seen, reply>>
       ELSE Finish(r, "rejected")
    /\ UNCHANGED <<config, tables, req, late, at, notified, clock, adminSteps, opening>>

\* requireOperationContext.  Its four SELECTs only decide whether to go on,
\* and an employee who was deactivated stays so: reading all of them at
\* the time of one of them loses no outcome.  The checks of the location and
\* the returns when a row is not found only refuse more calls, with nothing
\* written; they are left out.
Authorise(r) ==
    /\ pc[r] = "begin"
    /\ IF businessActive /\ operatorActive
       THEN /\ Goto(r, "begin", IF req[r].kind = "redeem" THEN "rule" ELSE "program")
            /\ UNCHANGED <<seen, reply>>
       ELSE Finish(r, "rejected")
    /\ UNCHANGED <<config, tables, req, late, at, notified, clock, adminSteps, opening>>

\* A redemption reads its rule, without a lock.
ReadRule(r) ==
    /\ Goto(r, "rule", "program")
    /\ seen' = [seen EXCEPT ![r].ruleActive = rules[req[r].rule].active,
                            ![r].cost = rules[req[r].rule].cost]
    /\ UNCHANGED <<config, tables, req, late, at, reply, notified, clock, adminSteps, opening>>

\* The program is read, without a lock.  A paused program ends a redemption
\* here, and a stamp when it is evaluated.
ReadProgram(r) ==
    /\ pc[r] = "program"
    /\ IF req[r].kind = "redeem" /\ ~program.active
       THEN Finish(r, "rejected")
       ELSE /\ Goto(r, "program", "lock")
            /\ seen' = [seen EXCEPT ![r].active = program.active,
                                    ![r].cooldown = program.cooldown]
            /\ UNCHANGED reply
    /\ UNCHANGED <<config, tables, req, late, at, notified, clock, adminSteps, opening>>

\* The balance is created if it is missing and locked.  An INSERT ... ON
\* CONFLICT waits for a transaction that is creating the row just as the
\* SELECT ... FOR UPDATE waits for one that holds it.
LockBalance(r) ==
    /\ Goto(r, "lock", "decide")
    /\ LockFree(req[r].customer)
    /\ seen' = [seen EXCEPT ![r].stamps = balance[req[r].customer].stamps,
                            ![r].last = balance[req[r].customer].last]
    /\ UNCHANGED <<config, tables, req, late, at, reply, notified, clock, adminSteps, opening>>

----------------------------------------------------------------------------
(* Under the lock: replay check, evaluation, and insertion.                *)

\* Slip: the program's cooldown without the floor.
ConfiguredCooldown(cooldown) == cooldown

EffectiveCooldown(cooldown) == IF cooldown >= MinStampGap THEN cooldown ELSE MinStampGap

\* What the engine says of the values this request read.
Verdict(r) ==
    IF req[r].kind = "stamp"
    THEN EvaluateStamp(seen[r].active, EffectiveCooldown(seen[r].cooldown), seen[r].last, clock)
    ELSE EvaluateRedemption(seen[r].stamps, seen[r].ruleActive, seen[r].cost)

\* The replay check: a retry is answered before anything is evaluated.
Replay(r) ==
    /\ pc[r] = "decide"
    /\ KeyUsed(req[r].kind, req[r].key)
    /\ Finish(r, "replayed")
    /\ UNCHANGED <<config, tables, req, late, at, notified, clock, adminSteps, opening>>

\* OperationRejectedError: the transaction is rolled back.
Reject(r) ==
    /\ pc[r] = "decide"
    /\ ~KeyUsed(req[r].kind, req[r].key)
    /\ Verdict(r) # "allowed"
    /\ Finish(r, "rejected")
    /\ UNCHANGED <<config, tables, req, late, at, notified, clock, adminSteps, opening>>

Accept(r) ==
    /\ Goto(r, "decide", "insert")
    /\ ~KeyUsed(req[r].kind, req[r].key)
    /\ Verdict(r) = "allowed"
    /\ at' = [at EXCEPT ![r] = clock]
    /\ UNCHANGED <<config, tables, req, late, seen, reply, notified, clock, adminSteps, opening>>

\* The INSERT that carries the key, once no other transaction has it in
\* flight.  It finds a row that another customer's request committed since
\* the replay check, or inserts its own.
InsertNew(r) ==
    /\ ~KeyInFlight(r)
    /\ ~KeyUsed(req[r].kind, req[r].key)
    /\ Goto(r, "insert", "commit")
    /\ UNCHANGED <<config, tables, req, late, seen, at, reply, notified, clock, adminSteps, opening>>

\* Slip: the conflict is answered as a genuine stamp.
StampConflictAsGenuine(r) ==
    /\ pc[r] = "insert" /\ req[r].kind = "stamp"
    /\ KeyUsed("stamp", req[r].key)
    /\ Finish(r, "ok")
    /\ notified' = notified \cup {r}
    /\ UNCHANGED <<config, tables, req, late, at, clock, adminSteps, opening>>

\* A stamp that finds its key taken commits what it did, which is nothing.
StampConflict(r) ==
    /\ pc[r] = "insert" /\ req[r].kind = "stamp"
    /\ KeyUsed("stamp", req[r].key)
    /\ Finish(r, "replayed")
    /\ UNCHANGED <<config, tables, req, late, at, notified, clock, adminSteps, opening>>

\* Slip: the conflict returns instead of throwing, which commits the reward.
RedeemConflictCommits(r) ==
    /\ pc[r] = "insert" /\ req[r].kind = "redeem"
    /\ KeyUsed("redeem", req[r].key)
    /\ Finish(r, "replayed")
    /\ rewardRows' = rewardRows \cup {r}
    /\ UNCHANGED <<config, balance, stampRows, redemptionRows, spent, req, late, at, notified,
                   clock, adminSteps, opening>>

\* A redemption has inserted its rewards row by then: ReplayDetectedError
\* rolls that row back, and a second transaction, which may fail, reads the
\* view for the answer.
RedeemConflict(r) ==
    /\ pc[r] = "insert" /\ req[r].kind = "redeem"
    /\ KeyUsed("redeem", req[r].key)
    /\ \E answer \in {"replayed", "failed"} : Finish(r, answer)
    /\ UNCHANGED <<config, tables, req, late, at, notified, clock, adminSteps, opening>>

\* Slip: last_stamp_at is not set.
CommitStampUntimed(r) ==
    /\ req[r].kind = "stamp"
    /\ Goto(r, "commit", "respond")
    /\ stampRows' = stampRows \cup {r}
    /\ balance' = [balance EXCEPT ![req[r].customer].stamps = ApplyStamp(seen[r].stamps)]
    /\ UNCHANGED <<config, rewardRows, redemptionRows, spent, req, late, seen, at, reply, notified,
                   clock, adminSteps, opening>>

\* The balance is written from the value read under the lock, with the
\* audit entry, and the transaction commits.
CommitStamp(r) ==
    /\ req[r].kind = "stamp"
    /\ Goto(r, "commit", "respond")
    /\ stampRows' = stampRows \cup {r}
    /\ balance' = [balance EXCEPT ![req[r].customer] =
                     [stamps |-> ApplyStamp(seen[r].stamps), last |-> at[r]]]
    /\ UNCHANGED <<config, rewardRows, redemptionRows, spent, req, late, seen, at, reply, notified,
                   clock, adminSteps, opening>>

CommitRedeem(r) ==
    /\ req[r].kind = "redeem"
    /\ Goto(r, "commit", "respond")
    /\ rewardRows' = rewardRows \cup {r}
    /\ redemptionRows' = redemptionRows \cup {r}
    /\ spent' = [spent EXCEPT ![r] = seen[r].cost]
    /\ balance' = [balance EXCEPT ![req[r].customer].stamps =
                     ApplyRedemption(seen[r].stamps, seen[r].cost)]
    /\ UNCHANGED <<config, stampRows, req, late, seen, at, reply, notified,
                   clock, adminSteps, opening>>

\* After the commit the wallet notification is scheduled and the answer sent.
Respond(r) ==
    /\ pc[r] = "respond"
    /\ Finish(r, "ok")
    /\ notified' = notified \cup {r}
    /\ UNCHANGED <<config, tables, req, late, at, clock, adminSteps, opening>>

\* The generic error, or no answer at all: lock_timeout while waiting for a
\* lock, statement_timeout, a lost connection or a killed process at any
\* point, the one after the commit included.  What was not committed is
\* rolled back.
Fail(r) ==
    /\ pc[r] \notin {"idle", "done"}
    /\ Finish(r, "failed")
    /\ UNCHANGED <<config, tables, req, late, at, notified, clock, adminSteps, opening>>

----------------------------------------------------------------------------
(* The owner, the platform and time.                                       *)

Administrative ==
    /\ adminSteps < MaxAdmin
    /\ adminSteps' = adminSteps + 1
    /\ UNCHANGED <<tables, local, clock, opening>>

\* setBusinessStatus: suspended and active again.
ToggleBusiness ==
    /\ Administrative
    /\ businessActive' = ~businessActive
    /\ UNCHANGED <<operatorActive, program, rules>>

\* deactivateEmployeeForSession: nothing reactivates an employee.
DeactivateOperator ==
    /\ Administrative
    /\ operatorActive
    /\ operatorActive' = FALSE
    /\ UNCHANGED <<businessActive, program, rules>>

\* saveProgramForSession.
SaveProgram ==
    /\ Administrative
    /\ program' \in Program \ {program}
    /\ UNCHANGED <<businessActive, operatorActive, rules>>

\* saveRewardRuleForSession and toggleRewardRuleForSession.
SaveRule(q) ==
    /\ Administrative
    /\ \E new \in Rule \ {rules[q]} : rules' = [rules EXCEPT ![q] = new]
    /\ UNCHANGED <<businessActive, operatorActive, program>>

Tick ==
    /\ clock < MaxTime
    /\ clock' = clock + 1
    /\ UNCHANGED <<config, tables, local, adminSteps, opening>>

----------------------------------------------------------------------------
\* The handler's own steps.
Handle(r) ==
    \/ Authorise(r) \/ ReadRule(r) \/ ReadProgram(r) \/ LockBalance(r)
    \/ Replay(r) \/ Reject(r) \/ Accept(r)
    \/ InsertNew(r) \/ StampConflict(r) \/ RedeemConflict(r)
    \/ CommitStamp(r) \/ CommitRedeem(r) \/ Respond(r)

Administer ==
    \/ ToggleBusiness \/ DeactivateOperator \/ SaveProgram
    \/ \E q \in Rules : SaveRule(q)

\* Every request was answered and the bounds are reached.
Terminated ==
    /\ \A r \in Requests : pc[r] = "done"
    /\ clock = MaxTime /\ adminSteps = MaxAdmin
    /\ UNCHANGED vars

Next ==
    \/ \E r \in Requests : Submit(r) \/ RateLimited(r) \/ Handle(r) \/ Fail(r)
    \/ Administer
    \/ Tick
    \/ Terminated

Spec == Init /\ [][Next]_vars

\* A request that was sent is run by the server to its end: the event loop
\* takes every step that is not waiting for another transaction.
FairSpec == Spec /\ \A r \in Requests : WF_vars(Handle(r))

----------------------------------------------------------------------------
TypeOK ==
    /\ businessActive \in BOOLEAN /\ operatorActive \in BOOLEAN
    /\ program \in Program
    /\ rules \in [Rules -> Rule]
    /\ balance \in [Customers -> [stamps : Nat, last : Time]]
    /\ stampRows \subseteq Requests
    /\ rewardRows \subseteq Requests
    /\ redemptionRows \subseteq Requests
    /\ spent \in [Requests -> Costs \cup {0}]
    /\ pc \in [Requests -> PCs]
    /\ req \in [Requests -> Inputs]
    /\ late \in [Requests -> BOOLEAN]
    /\ seen \in [Requests -> [active : BOOLEAN, cooldown : Cooldowns \cup {0},
                              ruleActive : BOOLEAN, cost : Costs \cup {0},
                              stamps : Nat, last : Time]]
    /\ at \in [Requests -> 0..MaxTime]
    /\ reply \in [Requests -> Replies]
    /\ notified \subseteq Requests
    /\ clock \in 0..MaxTime
    /\ adminSteps \in 0..MaxAdmin
    /\ opening \in [Customers -> 0..MaxOpening]

Of(rows, c) == {r \in rows : req[r].customer = c}

\* The stamps that the redemptions of a customer took, one by one, as their
\* audit entries record them.
StampsTaken(c) == UNION {{r} \X (1..spent[r]) : r \in Of(redemptionRows, c)}

\* The balance is what the ledger says: the opening stamps, one for each
\* committed stamp row, less what each committed redemption took.  The code
\* writes an absolute value computed from a read under the row lock
\* (logic.ts 580-590, 668-677, 793-803, 872-881): a lost update of either
\* kind, or a stamp row without its increment, breaks it.
BalanceConserved ==
    \A c \in Customers :
        balance[c].stamps + Cardinality(StampsTaken(c))
            = opening[c] + Cardinality(Of(stampRows, c))

\* A key has at most one effect in each table, whatever the customers and
\* the interleaving of the requests that carry it: the row lock serialises
\* only those of one customer, the unique index the others.
OneEffectPerKey ==
    \A kind \in Kinds : \A r, q \in Rows(kind) : r # q => req[r].key # req[q].key

\* Two stamps of a customer are at least MIN_STAMP_GAP_SECONDS apart, even
\* when several operators scan at once (logic.ts 161-165, 617-625).
StampGap ==
    \A r, q \in stampRows :
        r # q /\ req[r].customer = req[q].customer
            => at[r] >= at[q] + MinStampGap \/ at[q] >= at[r] + MinStampGap

\* No rewards row is left behind without the redemption that refers to it:
\* the conflict on the key rolls the reward back (logic.ts 843-870).
RewardsPaired == rewardRows = redemptionRows

\* The answer is true.  "ok": this request's row is committed and the
\* wallet is notified; "replayed": a committed row, inserted by another
\* request, carries the key; "rejected": this request changed nothing.  The
\* wallet is notified for genuine changes only.
HonestReplies ==
    \A r \in Requests :
        /\ reply[r] = "ok" => r \in Rows(req[r].kind) /\ r \in notified
        /\ reply[r] = "replayed" =>
             \E q \in Rows(req[r].kind) \ {r} : req[q].key = req[r].key
        /\ reply[r] = "rejected" => r \notin Rows(req[r].kind)
        /\ r \in notified => r \in Rows(req[r].kind)

\* The claims of the operator's token are not enough: a request sent after
\* the operator was deactivated has no effect (logic.ts 218-223).
RevokedNeverActs == \A r \in Requests : late[r] => r \notin stampRows \cup redemptionRows

\* A balance moves only with the row that explains it, from the value it
\* has at that moment: one more for a new stamp row, the recorded cost less
\* for a new redemption row, and nothing else ever touches it.  Rows are
\* never removed.
LedgerStep ==
    /\ stampRows \subseteq stampRows' /\ redemptionRows \subseteq redemptionRows'
    /\ \A c \in Customers :
         balance'[c] # balance[c] =>
            \/ \E r \in stampRows' \ stampRows :
                  /\ req[r].customer = c
                  /\ balance'[c].stamps = balance[c].stamps + 1
                  /\ balance'[c].last = at[r]
            \/ \E r \in redemptionRows' \ redemptionRows :
                  /\ req[r].customer = c
                  /\ balance'[c].stamps = balance[c].stamps - spent'[r]
                  /\ balance'[c].last = balance[c].last

BalanceMovesWithLedger == [][LedgerStep]_vars

\* Every request that was sent is answered, whoever holds the locks it needs.
Answered == \A r \in Requests : (pc[r] = "begin") ~> (pc[r] = "done")

----------------------------------------------------------------------------
\* The scanner implements the ledger: its commits are the ledger's entries,
\* and every other step changes nothing of it.
Ledger ==
    INSTANCE LoyaltyLedger WITH
        Times <- 0..MaxTime,
        stamps <- [c \in Customers |-> balance[c].stamps],
        lastStamp <- [c \in Customers |-> balance[c].last],
        stampLog <- {[id |-> r, customer |-> req[r].customer, key |-> req[r].key,
                      at |-> at[r]] : r \in stampRows},
        redemptionLog <- {[id |-> r, customer |-> req[r].customer, key |-> req[r].key,
                           cost |-> spent[r]] : r \in redemptionRows}

ImplementsLedger == Ledger!Spec
=============================================================================
