---------------------------- MODULE OwnerConsole ----------------------------
(***************************************************************************)
(* The owner's server actions: the program and its reward rules            *)
(* (rewards/logic.ts) and the promotions (promotions/logic.ts), as         *)
(* concurrent READ COMMITTED transactions of one business, with the audit  *)
(* log each of them writes (lib/tenant.ts).                                *)
(*                                                                         *)
(* A request that creates a program, a rule or a promotion gives it its    *)
(* name.  The owner's gate, the form's validation and an unknown rule      *)
(* refuse a request before it changes anything.                            *)
(***************************************************************************)
EXTENDS Integers, Sequences, FiniteSets

CONSTANTS
    Requests,
    None,
    MaxStamps,      \* bound: stamps a program or a rule may ask for
    DaysPerMonth,   \* bound: days of a month
    MaxDay,         \* bound: days that pass
    MonthlyLimit    \* MONTHLY_LIMIT_BY_PLAN: plan -> promotions a month

ASSUME NumbersAssumption == {MaxStamps, DaysPerMonth} \subseteq Nat \ {0} /\ MaxDay \in Nat
ASSUME LimitAssumption ==
    /\ MonthlyLimit \in [{"negocio", "intelligence"} -> Nat]
    /\ MonthlyLimit["negocio"] <= MonthlyLimit["intelligence"]

VARIABLES
    today,          \* the UTC day, of the database and of the server
    began,          \* transactions that have begun
    plan,           \* businesses.plan
    req,            \* the requests
    programs,       \* loyalty_programs, by the request that created each
    rules,          \* reward_rules, likewise
    promos,         \* promo_broadcasts, in the order of their commits
    audit,          \* audit_logs, in the order of their commits, each dated by its BEGIN
    posted          \* messages at the Google class, of each promotion

vars == <<today, began, plan, req, programs, rules, promos, audit, posted>>

DailyLimit == 1
Plans == {"basico", "negocio", "intelligence"}
Stamps == 1..MaxStamps
Month(day) == day \div DaysPerMonth

Kinds == {"program", "rule", "toggle", "promo"}
\* A transaction ends "sent", "refused" or "failed".
Pcs == {"idle", "begun", "read", "written", "sent", "refused", "failed"}
Request ==
    [kind : Kinds \cup {None}, pc : Pcs,
     order : Nat, day : 0..MaxDay,   \* created_at
     stamps : Stamps, target : Requests \cup {None},      \* the form
     found : Requests \cup {None}, active : BOOLEAN,      \* what was read
     seen : 0..MaxDay]                                    \* new Date()
Program == [order : Nat, stamps : Stamps]
Rule == [program : Requests, stamps : Stamps, active : BOOLEAN]
Promo == [by : Requests, day : 0..MaxDay, seen : 0..MaxDay]
Entry ==
    [about : Kinds, entity : Requests, stamps : Stamps, active : BOOLEAN,
     order : Nat]   \* created_at

ASSUME NoneAssumption == None \notin Requests \cup Kinds \cup Program \cup Rule

InTransaction(r) == req[r].pc \in {"begun", "read", "written"}
Created(table) == {r \in Requests : table[r] # None}

----------------------------------------------------------------------------
(* Transactions.                                                           *)

\* What a step makes of its request.
Become(r, x) == req' = [req EXCEPT ![r] = x]
Unchanged == UNCHANGED <<today, began, plan, programs, rules, promos, audit, posted>>

\* withTenantContext: BEGIN.  defaultNow() of its rows will be this instant.
Begin(r) ==
    /\ req[r].pc = "idle"
    /\ began' = began + 1
    /\ \E kind \in Kinds, n \in Stamps, target \in Created(rules) \cup {None} :
         /\ kind = "toggle" => target # None
         /\ kind \in {"program", "promo"} => target = None
         /\ kind \in {"toggle", "promo"} => n = 1
         /\ Become(r, [req[r] EXCEPT !.kind = kind, !.pc = "begun",
                                      !.stamps = n, !.target = target,
                                      !.order = began + 1, !.day = today])
    /\ UNCHANGED <<today, plan, programs, rules, promos, audit, posted>>

\* The row a transaction writes; None makes one, which nobody waits for.
RowOf(r) == IF req[r].kind = "program" THEN req[r].found ELSE req[r].target
EntityOf(r) == IF RowOf(r) = None THEN r ELSE RowOf(r)

\* Another transaction has written this row and not ended.
Locked(r, entity) ==
    \E q \in Requests \ {r} : req[q].pc = "written" /\ RowOf(q) = entity

\* SELECT ... FOR UPDATE on the business.
BusinessLocked(r) ==
    \E q \in Requests \ {r} : req[q].kind = "promo" /\ req[q].pc \in {"read", "written"}

Refuse(r) == Become(r, [req[r] EXCEPT !.pc = "refused"]) /\ Unchanged

\* A query fails or the process ends: the transaction is rolled back.
Fail(r) ==
    /\ InTransaction(r)
    /\ Become(r, [req[r] EXCEPT !.pc = "failed"])
    /\ Unchanged

----------------------------------------------------------------------------
(* rewards/logic.ts                                                        *)

\* The program every reader takes: the earliest created.
Current == IF Created(programs) = {} THEN None
           ELSE CHOOSE p \in Created(programs) :
                  \A q \in Created(programs) : programs[p].order <= programs[q].order

\* saveProgramForSession reads the program, and updates it or makes one.
ReadProgram(r) ==
    /\ req[r].kind = "program" /\ req[r].pc = "begun"
    /\ Become(r, [req[r] EXCEPT !.found = Current, !.pc = "read"])
    /\ Unchanged

\* saveRewardRuleForSession: no more stamps than the program asks for.
ReadForRule(r) ==
    /\ req[r].kind = "rule" /\ req[r].pc = "begun"
    /\ IF Current = None \/ req[r].stamps > programs[Current].stamps
       THEN Refuse(r)
       ELSE /\ Become(r, [req[r] EXCEPT !.pc = "read",
                            !.found = IF req[r].target = None THEN Current ELSE None])
            /\ Unchanged

\* toggleRewardRuleForSession
ReadForToggle(r) ==
    /\ req[r].kind = "toggle" /\ req[r].pc = "begun"
    /\ Become(r, [req[r] EXCEPT !.active = rules[req[r].target].active, !.pc = "read"])
    /\ Unchanged

\* writeAuditLog says what the transaction wrote; defaultNow() dates the entry
\* at its BEGIN, the only order that the table has.
EntryOf(r) ==
    [about |-> req[r].kind, entity |-> EntityOf(r), stamps |-> req[r].stamps,
     active |-> IF req[r].kind = "toggle" THEN ~req[r].active ELSE TRUE,
     order |-> req[r].order]

\* Slip: the entry is written on a connection of its own.
WriteAndLog(r) ==
    /\ req[r].kind # "promo" /\ req[r].pc = "read"
    /\ RowOf(r) # None => ~Locked(r, RowOf(r))
    /\ Become(r, [req[r] EXCEPT !.pc = "written"])
    /\ audit' = Append(audit, EntryOf(r))
    /\ UNCHANGED <<today, began, plan, programs, rules, promos, posted>>

\* INSERT, or UPDATE once the row is free, and its audit entry.
Write(r) ==
    /\ req[r].kind # "promo" /\ req[r].pc = "read"
    /\ RowOf(r) # None => ~Locked(r, RowOf(r))
    /\ Become(r, [req[r] EXCEPT !.pc = "written"])
    /\ Unchanged

Commit(r) ==
    LET e == EntityOf(r) IN
    /\ req[r].kind # "promo" /\ req[r].pc = "written"
    /\ Become(r, [req[r] EXCEPT !.pc = "sent"])
    /\ audit' = Append(audit, EntryOf(r))
    /\ CASE req[r].kind = "program" ->
              /\ programs' = [programs EXCEPT ![e] =
                    [order |-> IF RowOf(r) = None THEN req[r].order ELSE @.order,
                     stamps |-> req[r].stamps]]
              /\ UNCHANGED rules
         [] req[r].kind = "rule" ->
              /\ rules' = [rules EXCEPT ![e] =
                    IF RowOf(r) = None
                    THEN [program |-> req[r].found, stamps |-> req[r].stamps, active |-> TRUE]
                    ELSE [@ EXCEPT !.stamps = req[r].stamps]]
              /\ UNCHANGED programs
         [] req[r].kind = "toggle" ->
              /\ rules' = [rules EXCEPT ![e].active = ~req[r].active]
              /\ UNCHANGED programs
    /\ UNCHANGED <<today, began, plan, promos, posted>>

----------------------------------------------------------------------------
(* promotions/logic.ts                                                     *)

\* Slip: the business is read without FOR UPDATE.
LockNothing(r) ==
    /\ req[r].kind = "promo" /\ req[r].pc = "begun"
    /\ IF plan = "basico" THEN Refuse(r)
       ELSE /\ Become(r, [req[r] EXCEPT !.pc = "read", !.seen = today])
            /\ Unchanged

\* The row lock is granted; the plan and the clock are read under it.
LockBusiness(r) ==
    /\ req[r].kind = "promo" /\ req[r].pc = "begun"
    /\ ~BusinessLocked(r)
    /\ IF plan = "basico" THEN Refuse(r)
       ELSE /\ Become(r, [req[r] EXCEPT !.pc = "read", !.seen = today])
            /\ Unchanged

\* Both counts: created_at not before the start of the day, of the month.
SentSince(day) == Cardinality({i \in DOMAIN promos : promos[i].day >= day})
StartOfMonth(day) == Month(day) * DaysPerMonth

\* Slip: the month is not counted.
DayLeft(r) == SentSince(req[r].seen) < DailyLimit

QuotaLeft(r) ==
    /\ SentSince(req[r].seen) < DailyLimit
    /\ SentSince(StartOfMonth(req[r].seen)) < MonthlyLimit[plan]

\* INSERT and its audit entry, or one of the limits is reached.
InsertPromo(r) ==
    /\ req[r].kind = "promo" /\ req[r].pc = "read"
    /\ IF QuotaLeft(r) THEN Become(r, [req[r] EXCEPT !.pc = "written"]) /\ Unchanged
                       ELSE Refuse(r)

CommitPromo(r) ==
    /\ req[r].kind = "promo" /\ req[r].pc = "written"
    /\ Become(r, [req[r] EXCEPT !.pc = "sent"])
    /\ promos' = Append(promos, [by |-> r, day |-> req[r].day, seen |-> req[r].seen])
    /\ audit' = Append(audit, EntryOf(r))
    /\ UNCHANGED <<today, began, plan, programs, rules, posted>>

\* notifyWalletOfPromoBroadcast is scheduled after the commit.
Announces(r) == req[r].kind = "promo" /\ req[r].pc = "sent"

\* Slip: a lost answer is tried again without end.
AnnounceForever(r) ==
    /\ Announces(r)
    /\ posted' = [posted EXCEPT ![r] = @ + 1]
    /\ UNCHANGED <<today, began, plan, req, programs, rules, promos, audit>>

\* notifyGoogleClassForBusiness: an attempt reaches Google; one whose answer
\* is lost is tried again, up to three times.
Announce(r) ==
    /\ Announces(r)
    /\ posted[r] < 3
    /\ posted' = [posted EXCEPT ![r] = @ + 1]
    /\ UNCHANGED <<today, began, plan, req, programs, rules, promos, audit>>

----------------------------------------------------------------------------

\* The platform changes the plan: an UPDATE that waits for the row.
ChangePlan ==
    /\ ~BusinessLocked(None)
    /\ plan' \in Plans \ {plan}
    /\ UNCHANGED <<today, began, req, programs, rules, promos, audit, posted>>

Midnight ==
    /\ today < MaxDay
    /\ today' = today + 1
    /\ UNCHANGED <<began, plan, req, programs, rules, promos, audit, posted>>

Init ==
    /\ today = 0 /\ began = 0
    /\ plan = "negocio"
    /\ req = [r \in Requests |->
                [kind |-> None, pc |-> "idle", order |-> 0, day |-> 0, stamps |-> 1,
                 target |-> None, found |-> None, active |-> FALSE, seen |-> 0]]
    /\ programs = [r \in Requests |-> None]
    /\ rules = [r \in Requests |-> None]
    /\ promos = <<>> /\ audit = <<>>
    /\ posted = [r \in Requests |-> 0]

Next ==
    \/ ChangePlan \/ Midnight
    \/ \E r \in Requests :
         \/ Begin(r) \/ Fail(r)
         \/ ReadProgram(r) \/ ReadForRule(r) \/ ReadForToggle(r) \/ Write(r) \/ Commit(r)
         \/ LockBusiness(r) \/ InsertPromo(r) \/ CommitPromo(r) \/ Announce(r)

Spec == Init /\ [][Next]_vars

----------------------------------------------------------------------------
(* Properties.                                                             *)

\* Every variable has its type: a message is posted three times at most.
TypeOK ==
    /\ today \in 0..MaxDay /\ began \in Nat
    /\ plan \in Plans
    /\ req \in [Requests -> Request]
    /\ programs \in [Requests -> Program \cup {None}]
    /\ rules \in [Requests -> Rule \cup {None}]
    /\ promos \in Seq(Promo) /\ audit \in Seq(Entry)
    /\ posted \in [Requests -> 0..3]

\* The promotions of a day whose transactions did not last past midnight.
OfDay(day) == {i \in DOMAIN promos : promos[i].day = day /\ promos[i].seen = day}
InMonth(sent, m) ==
    {i \in DOMAIN sent : Month(sent[i].day) = m /\ Month(sent[i].seen) = m}

\* However many tabs and double clicks send at once, a day has one promotion.
\* A transaction that waits past midnight is dated the day before and counts
\* against neither day: the limit is about the others.
DailyLimitHolds == \A day \in 0..MaxDay : Cardinality(OfDay(day)) <= DailyLimit

\* A promotion is never committed past the limit of the plan the business has
\* at that very moment, whatever plan it had when the request was sent.
FitsThePlan(sent, m) == Cardinality(InMonth(sent, m)) <= MonthlyLimit[plan]
MonthlyStep ==
    \A i \in DOMAIN promos' \ DOMAIN promos :
      LET m == Month(promos'[i].seen) IN
      /\ plan # "basico"
      /\ FitsThePlan(promos', m) \/ InMonth(promos', m) = InMonth(promos, m)
MonthlyLimitHolds == [][MonthlyStep]_vars

Entries(about, entity) ==
    {i \in DOMAIN audit : audit[i].about = about /\ audit[i].entity = entity}
Logged(about, entity) == Entries(about, entity) # {}

\* What a reader of the table takes for the last entry: the latest date.
LastEntry(about, entity) ==
    CHOOSE i \in Entries(about, entity) :
      \A j \in Entries(about, entity) : audit[j].order <= audit[i].order

\* What an entry says of its row is what the row holds.
Agrees(entry, e) ==
    CASE entry.about = "program" -> programs[e] # None /\ programs[e].stamps = entry.stamps
      [] entry.about = "rule" -> rules[e] # None /\ rules[e].stamps = entry.stamps
      [] entry.about = "toggle" -> rules[e] # None /\ rules[e].active = entry.active
      [] entry.about = "promo" -> \E i \in DOMAIN promos : promos[i].by = e

\* The entry's transaction began before the other's and committed after it.
Encloses(i, j) == audit[i].order < audit[j].order /\ j < i

\* The log tells the truth as far as its dates can: the last entry about a
\* program, about a rule's stamps or about a rule's activity is what the row
\* holds, whatever was rolled back, unless that save ran within another save
\* of the row, which began earlier and committed later: then the row holds
\* what such an earlier entry says.  Every row has its entry, and no entry
\* is about a row or a promotion that is not there.
AuditTellsState ==
    /\ \A about \in Kinds, e \in Requests : Logged(about, e) =>
         LET last == LastEntry(about, e)
         IN  \/ Agrees(audit[last], e)
             \/ \E i \in Entries(about, e) : Encloses(i, last) /\ Agrees(audit[i], e)
    /\ \A p \in Created(programs) : Logged("program", p)
    /\ \A u \in Created(rules) : Logged("rule", u)

\* What customers receive was sent: a message at Google belongs to a
\* promotion that was committed.
OnlySentIsSeen == \A r \in Requests : posted[r] > 0 => \E i \in DOMAIN promos : promos[i].by = r

\* "ninguna recompensa puede pedir más sellos que eso": a rule never asks for
\* more stamps than the card of its program has (rewards/logic.ts 186-190).
RulesFitTheCard ==
    \A u \in Created(rules) : rules[u].stamps <= programs[rules[u].program].stamps
============================================================================
