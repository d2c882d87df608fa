--------------------------- MODULE ScannerProofs ---------------------------
(***************************************************************************)
(* What holds of Scanner for every set of requests, customers, keys and    *)
(* rules, every gap and every bound.  The argument rests on one inductive  *)
(* invariant: at most one request holds the lock of a balance, what the    *)
(* holder has read is what the balance still is, what it decided is        *)
(* allowed of that balance, and no two requests that hold a key, in a      *)
(* committed row or in one that is about to be, hold the same.             *)
(***************************************************************************)
EXTENDS Scanner, FiniteSetTheorems, TLAPS

\* At most one request is past the lock of a balance.
LockInv ==
    \A r, q \in Requests :
        pc[r] \in Holding /\ pc[q] \in Holding /\ req[r].customer = req[q].customer => r = q

\* What the holder of the lock read is still the balance.
FreshInv ==
    \A r \in Requests : pc[r] \in Holding =>
        /\ seen[r].stamps = balance[req[r].customer].stamps
        /\ seen[r].last = balance[req[r].customer].last

\* What was decided is allowed of what was read.
DecidedInv ==
    \A r \in Requests : pc[r] \in {"insert", "commit"} =>
        /\ req[r].kind = "stamp" /\ seen[r].last # Never => at[r] >= seen[r].last + MinStampGap
        /\ req[r].kind = "redeem" => seen[r].cost <= seen[r].stamps

\* A redemption that has read its rule knows a cost.
CostInv ==
    \A r \in Requests :
        req[r].kind = "redeem" /\ pc[r] \in {"program", "lock", "decide", "insert", "commit"}
            => seen[r].cost \in Costs

\* A row belongs to a request of its kind that has committed.
RowsInv ==
    /\ \A r \in stampRows : req[r].kind = "stamp" /\ pc[r] \in {"respond", "done"}
    /\ \A r \in redemptionRows : req[r].kind = "redeem" /\ pc[r] \in {"respond", "done"}

\* The request's key is in a committed row of its own or in its pending one.
Claims(r) == r \in stampRows \cup redemptionRows \/ pc[r] = "commit"

KeysInv ==
    \A r, q \in Requests :
        Claims(r) /\ Claims(q) /\ req[r].kind = req[q].kind /\ req[r].key = req[q].key => r = q

\* The last stamp of a balance is its latest row.
LastInv ==
    \A r \in stampRows : balance[req[r].customer].last >= at[r]

IInv ==
    /\ TypeOK /\ LockInv /\ FreshInv /\ DecidedInv /\ CostInv /\ RowsInv /\ KeysInv
    /\ LastInv /\ StampGap

----------------------------------------------------------------------------
(* Type correctness.                                                       *)

\* The engine's redemption of an affordable cost leaves a natural number.
LEMMA RedemptionType ==
    ASSUME NEW stamps \in Nat, NEW cost \in Nat, cost <= stamps
    PROVE  ApplyRedemption(stamps, cost) \in Nat
BY DEF ApplyRedemption

\* Costs, cooldowns and times are integers.
LEMMA ConstantTypes ==
    /\ \A c \in Costs \cup {0} : c \in Nat
    /\ \A c \in Cooldowns \cup {0} : c \in Nat
    /\ \A t \in 0..MaxTime : t \in Nat
    /\ \A t \in Time : t \in Int
    /\ 0 \in Costs \cup {0} /\ 0 \in Cooldowns \cup {0} /\ Never \in Time
BY CostsAssumption, CooldownsAssumption, BoundsAssumption DEF Time, Never

LEMMA TypeInit == Init => TypeOK
<1> SUFFICES ASSUME Init PROVE TypeOK
  OBVIOUS
<1>1. balance \in [Customers -> [stamps : Nat, last : Time]]
  BY BoundsAssumption, ConstantTypes DEF Init
<1>2. seen \in [Requests -> [active : BOOLEAN, cooldown : Cooldowns \cup {0},
                             ruleActive : BOOLEAN, cost : Costs \cup {0},
                             stamps : Nat, last : Time]]
  BY ConstantTypes DEF Init, NothingSeen
<1>3. rules \in [Rules -> Rule]
  BY DEF Init
<1> QED
  BY <1>1, <1>2, <1>3, BoundsAssumption DEF Init, TypeOK, Program, PCs, Replies

\* A request that ends keeps the types.
LEMMA FinishType ==
    ASSUME TypeOK, NEW r \in Requests, NEW answer \in Replies, Finish(r, answer)
    PROVE  /\ pc' \in [Requests -> PCs]
           /\ reply' \in [Requests -> Replies]
           /\ seen' \in [Requests -> [active : BOOLEAN, cooldown : Cooldowns \cup {0},
                                      ruleActive : BOOLEAN, cost : Costs \cup {0},
                                      stamps : Nat, last : Time]]
<1>1. NothingSeen \in [active : BOOLEAN, cooldown : Cooldowns \cup {0},
                       ruleActive : BOOLEAN, cost : Costs \cup {0},
                       stamps : Nat, last : Time]
  BY ConstantTypes DEF NothingSeen
<1> QED
  BY <1>1 DEF Finish, TypeOK, PCs

\* Every step of a request keeps the types.
LEMMA TypeRequest ==
    ASSUME IInv, NEW r \in Requests, Submit(r) \/ RateLimited(r) \/ Handle(r) \/ Fail(r)
    PROVE  TypeOK'
<1> USE DEF IInv
<1> DEFINE Same == UNCHANGED <<config, tables, req, clock, adminSteps, opening>>
<1>1. CASE Submit(r)
  BY <1>1 DEF Submit, Goto, TypeOK, PCs, config, tables
<1>2. CASE RateLimited(r) \/ Replay(r) \/ Reject(r) \/ StampConflict(r) \/ RedeemConflict(r)
             \/ Fail(r)
  <2>1. PICK answer \in Replies : Finish(r, answer)
    BY <1>2 DEF RateLimited, Replay, Reject, StampConflict, RedeemConflict, Fail, Replies
  <2>2. Same /\ UNCHANGED <<late, at, notified>>
    BY <1>2 DEF RateLimited, Replay, Reject, StampConflict, RedeemConflict, Fail
  <2> QED
    BY <2>1, <2>2, FinishType DEF TypeOK, config, tables
<1>3. CASE Authorise(r)
  <2>1. CASE businessActive /\ operatorActive
    BY <1>3, <2>1 DEF Authorise, Goto, TypeOK, PCs, config, tables
  <2>2. CASE ~(businessActive /\ operatorActive)
    <3>1. Finish(r, "rejected") /\ "rejected" \in Replies
      BY <1>3, <2>2 DEF Authorise, Replies
    <3> QED
      BY <1>3, <3>1, FinishType DEF Authorise, TypeOK, config, tables
  <2> QED
    BY <2>1, <2>2
<1>4. CASE ReadRule(r)
  <2>1. req[r].rule \in Rules
    BY DEF TypeOK, Inputs
  <2>2. rules[req[r].rule].active \in BOOLEAN /\ rules[req[r].rule].cost \in Costs \cup {0}
    BY <2>1 DEF TypeOK, Rule
  <2> QED
    BY <1>4, <2>2 DEF ReadRule, Goto, TypeOK, PCs, config, tables
<1>5. CASE ReadProgram(r)
  <2>1. CASE req[r].kind = "redeem" /\ ~program.active
    <3>1. Finish(r, "rejected") /\ "rejected" \in Replies
      BY <1>5, <2>1 DEF ReadProgram, Replies
    <3> QED
      BY <1>5, <3>1, FinishType DEF ReadProgram, TypeOK, config, tables
  <2>2. CASE ~(req[r].kind = "redeem" /\ ~program.active)
    <3>1. program.active \in BOOLEAN /\ program.cooldown \in Cooldowns \cup {0}
      BY DEF TypeOK, Program
    <3>2. /\ pc' = [pc EXCEPT ![r] = "lock"]
          /\ seen' = [seen EXCEPT ![r].active = program.active,
                                  ![r].cooldown = program.cooldown]
          /\ reply' = reply /\ Same /\ UNCHANGED <<late, at, notified>>
      BY <1>5, <2>2 DEF ReadProgram, Goto
    <3> QED
      BY <3>1, <3>2 DEF TypeOK, PCs, config, tables
  <2> QED
    BY <2>1, <2>2
<1>6. CASE LockBalance(r)
  <2>1. req[r].customer \in Customers
    BY DEF TypeOK, Inputs
  <2>2. balance[req[r].customer].stamps \in Nat /\ balance[req[r].customer].last \in Time
    BY <2>1 DEF TypeOK
  <2> QED
    BY <1>6, <2>2 DEF LockBalance, Goto, TypeOK, PCs, config, tables
<1>7. CASE Accept(r)
  BY <1>7 DEF Accept, Goto, TypeOK, PCs, config, tables
<1>8. CASE InsertNew(r)
  BY <1>8 DEF InsertNew, Goto, TypeOK, PCs, config, tables
<1>9. CASE CommitStamp(r)
  <2>1. req[r].customer \in Customers /\ seen[r].stamps \in Nat /\ at[r] \in Time
    BY DEF TypeOK, Inputs, Time
  <2>2. ApplyStamp(seen[r].stamps) \in Nat
    BY <2>1 DEF ApplyStamp
  <2>3. balance' \in [Customers -> [stamps : Nat, last : Time]]
    BY <1>9, <2>1, <2>2 DEF CommitStamp, TypeOK
  <2> QED
    BY <1>9, <2>3 DEF CommitStamp, Goto, TypeOK, PCs, config
<1>10. CASE CommitRedeem(r)
  <2>1. /\ req[r].customer \in Customers /\ seen[r].stamps \in Nat
        /\ seen[r].cost \in Costs \cup {0} /\ seen[r].cost \in Nat
    BY ConstantTypes DEF TypeOK, Inputs
  <2>2. seen[r].cost <= seen[r].stamps
    BY <1>10 DEF CommitRedeem, Goto, DecidedInv
  <2>3. ApplyRedemption(seen[r].stamps, seen[r].cost) \in Nat
    BY <2>1, <2>2, RedemptionType
  <2>4. balance' \in [Customers -> [stamps : Nat, last : Time]]
    BY <1>10, <2>1, <2>3 DEF CommitRedeem, TypeOK
  <2> QED
    BY <1>10, <2>1, <2>4 DEF CommitRedeem, Goto, TypeOK, PCs, config
<1>11. CASE Respond(r)
  <2>1. Finish(r, "ok") /\ "ok" \in Replies
    BY <1>11 DEF Respond, Replies
  <2> QED
    BY <1>11, <2>1, FinishType DEF Respond, TypeOK, config, tables
<1> QED
  BY <1>1, <1>2, <1>3, <1>4, <1>5, <1>6, <1>7, <1>8, <1>9, <1>10, <1>11 DEF Handle

\* The owner, the platform and the clock keep the types.
LEMMA TypeEnvironment ==
    ASSUME TypeOK, Administer \/ Tick
    PROVE  TypeOK'
<1>1. CASE ToggleBusiness
  BY <1>1, BoundsAssumption DEF ToggleBusiness, Administrative, TypeOK, tables, local
<1>2. CASE DeactivateOperator
  <2>1. operatorActive' \in BOOLEAN /\ UNCHANGED <<businessActive, program, rules>>
    BY <1>2 DEF DeactivateOperator
  <2>2. Administrative
    BY <1>2 DEF DeactivateOperator
  <2> QED
    BY <2>1, <2>2, BoundsAssumption DEF Administrative, TypeOK, tables, local
<1>3. CASE SaveProgram
  BY <1>3, BoundsAssumption DEF SaveProgram, Administrative, TypeOK, tables, local
<1>4. ASSUME NEW q \in Rules, SaveRule(q) PROVE TypeOK'
  BY <1>4, BoundsAssumption DEF SaveRule, Administrative, TypeOK, tables, local
<1>5. CASE Tick
  BY <1>5, BoundsAssumption DEF Tick, TypeOK, config, tables, local
<1> QED
  BY <1>1, <1>2, <1>3, <1>4, <1>5 DEF Administer

----------------------------------------------------------------------------
(* Preservation of the inductive invariant.                                *)

\* Everything but the types and the costs.
Core == LockInv /\ FreshInv /\ DecidedInv /\ RowsInv /\ KeysInv /\ LastInv /\ StampGap

\* A step of request r that writes no table and leaves it outside the lock,
\* and does not bring a finished request back.
Quiet(r) ==
    /\ UNCHANGED <<balance, stampRows, rewardRows, redemptionRows, req, at>>
    /\ \E s \in PCs \ Holding :
          pc' = [pc EXCEPT ![r] = s] /\ (s = "done" \/ pc[r] \notin {"respond", "done"})
    /\ \A q \in Requests \ {r} : seen'[q] = seen[q]

LEMMA QuietStep ==
    ASSUME TypeOK, Core, NEW r \in Requests, Quiet(r)
    PROVE  Core'
<1> PICK s \in PCs \ Holding :
        pc' = [pc EXCEPT ![r] = s] /\ (s = "done" \/ pc[r] \notin {"respond", "done"})
  BY DEF Quiet
<1>1. \A q \in Requests : pc'[q] \in Holding => q # r /\ pc[q] \in Holding
  BY DEF TypeOK
<1>2. \A q \in Requests : pc'[q] \in {"insert", "commit"} =>
          q # r /\ pc[q] \in {"insert", "commit"} /\ pc'[q] = pc[q]
  BY DEF TypeOK, Holding
<1>3. \A q \in Requests : pc[q] \in {"respond", "done"} => pc'[q] \in {"respond", "done"}
  BY DEF TypeOK
<1>4. UNCHANGED <<balance, stampRows, redemptionRows, req, at>>
  BY DEF Quiet
<1>5. \A q \in Requests : q # r => seen'[q] = seen[q]
  BY DEF Quiet
<1>6. LockInv'
  BY <1>1, <1>4 DEF Core, LockInv
<1>7. FreshInv'
  BY <1>1, <1>4, <1>5 DEF Core, FreshInv
<1>8. DecidedInv'
  BY <1>2, <1>4, <1>5 DEF Core, DecidedInv
<1>9. RowsInv'
  BY <1>3, <1>4 DEF Core, RowsInv, TypeOK
<1>10. KeysInv'
  BY <1>2, <1>4 DEF Core, KeysInv, Claims
<1>11. LastInv' /\ StampGap'
  BY <1>4 DEF Core, LastInv, StampGap
<1> QED
  BY <1>6, <1>7, <1>8, <1>9, <1>10, <1>11 DEF Core

\* The steps of a request that are quiet.
LEMMA QuietSteps ==
    ASSUME TypeOK, NEW r \in Requests,
           \/ Submit(r) \/ RateLimited(r) \/ Fail(r)
           \/ Authorise(r) \/ ReadRule(r) \/ ReadProgram(r)
           \/ Replay(r) \/ Reject(r) \/ StampConflict(r) \/ RedeemConflict(r) \/ Respond(r)
    PROVE  Quiet(r)
<1>1. ASSUME NEW answer, Finish(r, answer),
             UNCHANGED <<balance, stampRows, rewardRows, redemptionRows, req, at>>
      PROVE  Quiet(r)
  BY <1>1 DEF Finish, Quiet, PCs, Holding, TypeOK
<1>2. CASE Submit(r)
  BY <1>2 DEF Submit, Goto, Quiet, PCs, Holding, tables
<1>3. CASE RateLimited(r)
  BY <1>1, <1>3 DEF RateLimited, tables
<1>4. CASE Fail(r)
  BY <1>1, <1>4 DEF Fail, tables
<1>5. CASE Authorise(r)
  <2>1. CASE businessActive /\ operatorActive
    <3>1. /\ Goto(r, "begin", IF req[r].kind = "redeem" THEN "rule" ELSE "program")
          /\ UNCHANGED <<balance, stampRows, rewardRows, redemptionRows, req, at, seen>>
      BY <1>5, <2>1 DEF Authorise, tables
    <3> QED
      BY <3>1 DEF Goto, Quiet, PCs, Holding
  <2>2. CASE ~(businessActive /\ operatorActive)
    BY <1>1, <1>5, <2>2 DEF Authorise, tables
  <2> QED
    BY <2>1, <2>2
<1>6. CASE ReadRule(r)
  BY <1>6 DEF ReadRule, Goto, Quiet, PCs, Holding, tables, TypeOK
<1>7. CASE ReadProgram(r)
  <2>1. CASE req[r].kind = "redeem" /\ ~program.active
    BY <1>1, <1>7, <2>1 DEF ReadProgram, tables
  <2>2. CASE ~(req[r].kind = "redeem" /\ ~program.active)
    <3>1. /\ Goto(r, "program", "lock")
          /\ seen' = [seen EXCEPT ![r].active = program.active,
                                  ![r].cooldown = program.cooldown]
          /\ UNCHANGED <<balance, stampRows, rewardRows, redemptionRows, req, at>>
      BY <1>7, <2>2 DEF ReadProgram, tables
    <3> QED
      BY <3>1 DEF Goto, Quiet, PCs, Holding, TypeOK
  <2> QED
    BY <2>1, <2>2
<1>8. CASE Replay(r) \/ Reject(r) \/ StampConflict(r)
  BY <1>1, <1>8 DEF Replay, Reject, StampConflict, tables
<1>9. CASE RedeemConflict(r)
  BY <1>1, <1>9 DEF RedeemConflict, tables
<1>10. CASE Respond(r)
  BY <1>1, <1>10 DEF Respond, tables
<1> QED
  BY <1>2, <1>3, <1>4, <1>5, <1>6, <1>7, <1>8, <1>9, <1>10

\* The lock is taken: the balance read is the balance there is.
LEMMA LockStep ==
    ASSUME IInv, NEW r \in Requests, LockBalance(r)
    PROVE  Core'
<1> USE DEF IInv
<1>1. /\ pc' = [pc EXCEPT ![r] = "decide"] /\ pc[r] = "lock"
      /\ UNCHANGED <<balance, stampRows, redemptionRows, req, at>>
      /\ \A q \in Requests : q # r => seen'[q] = seen[q]
      /\ seen'[r].stamps = balance[req[r].customer].stamps
      /\ seen'[r].last = balance[req[r].customer].last
  BY DEF LockBalance, Goto, tables, TypeOK
<1>2. \A q \in Requests : pc[q] \in Holding => req[q].customer # req[r].customer
  BY DEF LockBalance, LockFree
<1>3. \A q \in Requests : q # r => pc'[q] = pc[q]
  BY <1>1 DEF TypeOK
<1>4. pc'[r] = "decide"
  BY <1>1 DEF TypeOK
<1>5. LockInv'
  BY <1>1, <1>2, <1>3 DEF LockInv
<1>6. FreshInv'
  BY <1>1, <1>3 DEF FreshInv
<1>7. DecidedInv'
  BY <1>1, <1>3, <1>4 DEF DecidedInv
<1>8. RowsInv'
  BY <1>1, <1>3 DEF RowsInv, TypeOK
<1>9. KeysInv'
  BY <1>1, <1>3, <1>4 DEF KeysInv, Claims
<1>10. LastInv' /\ StampGap'
  BY <1>1 DEF LastInv, StampGap
<1> QED
  BY <1>5, <1>6, <1>7, <1>8, <1>9, <1>10 DEF Core

\* What the engine allows is what the invariant asks of a decision.
LEMMA VerdictSound ==
    ASSUME TypeOK, NEW r \in Requests, Verdict(r) = "allowed"
    PROVE  /\ req[r].kind = "stamp" /\ seen[r].last # Never => clock >= seen[r].last + MinStampGap
           /\ req[r].kind = "redeem" => seen[r].cost <= seen[r].stamps
<1>1. /\ clock \in Int /\ seen[r].last \in Int /\ seen[r].cooldown \in Nat
      /\ seen[r].cost \in Nat /\ seen[r].stamps \in Nat /\ MinStampGap \in Nat \ {0}
  <2>1. /\ clock \in 0..MaxTime /\ seen[r].last \in Time /\ seen[r].cooldown \in Cooldowns \cup {0}
        /\ seen[r].cost \in Costs \cup {0} /\ seen[r].stamps \in Nat
    BY DEF TypeOK
  <2>2. seen[r].cost \in Nat /\ seen[r].last \in Int /\ clock \in Nat
    BY <2>1, ConstantTypes
  <2>3. seen[r].cooldown \in Nat
    BY <2>1, ConstantTypes
  <2> QED
    BY <2>1, <2>2, <2>3, GapAssumption
<1>2. CASE req[r].kind = "stamp"
  <2>1. EvaluateStamp(seen[r].active, EffectiveCooldown(seen[r].cooldown), seen[r].last, clock)
          = "allowed"
    BY <1>2 DEF Verdict
  <2>2. EffectiveCooldown(seen[r].cooldown) >= MinStampGap
         /\ EffectiveCooldown(seen[r].cooldown) \in Nat
    BY <1>1 DEF EffectiveCooldown
  <2> QED
    BY <1>1, <1>2, <2>1, <2>2 DEF EvaluateStamp
<1>3. CASE req[r].kind # "stamp"
  <2>1. EvaluateRedemption(seen[r].stamps, seen[r].ruleActive, seen[r].cost) = "allowed"
    BY <1>3 DEF Verdict
  <2> QED
    BY <1>1, <1>3, <2>1 DEF EvaluateRedemption
<1> QED
  BY <1>2, <1>3

\* The decision is taken under the lock.
LEMMA AcceptStep ==
    ASSUME IInv, NEW r \in Requests, Accept(r)
    PROVE  Core'
<1> USE DEF IInv
<1>1. /\ pc' = [pc EXCEPT ![r] = "insert"] /\ pc[r] = "decide"
      /\ UNCHANGED <<balance, stampRows, redemptionRows, req, seen>>
      /\ at' = [at EXCEPT ![r] = clock] /\ Verdict(r) = "allowed"
  BY DEF Accept, Goto, tables
<1>2. \A q \in Requests : q # r => pc'[q] = pc[q] /\ at'[q] = at[q]
  BY <1>1 DEF TypeOK
<1>3. pc'[r] = "insert" /\ at'[r] = clock
  BY <1>1 DEF TypeOK
<1>4. r \notin stampRows \cup redemptionRows
  BY <1>1 DEF RowsInv
<1>5. LockInv'
  BY <1>1, <1>2 DEF LockInv, Holding
<1>6. FreshInv'
  BY <1>1, <1>2 DEF FreshInv, Holding
<1>7. DecidedInv'
  BY <1>1, <1>2, <1>3, VerdictSound DEF DecidedInv
<1>8. RowsInv'
  BY <1>1, <1>2, <1>4 DEF RowsInv, TypeOK
<1>9. KeysInv'
  BY <1>1, <1>2, <1>3 DEF KeysInv, Claims
<1>10. LastInv' /\ StampGap'
  BY <1>1, <1>2, <1>4 DEF LastInv, StampGap, TypeOK
<1> QED
  BY <1>5, <1>6, <1>7, <1>8, <1>9, <1>10 DEF Core

\* The key is claimed when no row and no other pending insert has it.
LEMMA InsertStep ==
    ASSUME IInv, NEW r \in Requests, InsertNew(r)
    PROVE  Core'
<1> USE DEF IInv
<1>1. /\ pc' = [pc EXCEPT ![r] = "commit"] /\ pc[r] = "insert"
      /\ UNCHANGED <<balance, stampRows, redemptionRows, req, seen, at>>
      /\ ~KeyInFlight(r) /\ ~KeyUsed(req[r].kind, req[r].key)
  BY DEF InsertNew, Goto, tables
<1>2. \A q \in Requests : q # r => pc'[q] = pc[q]
  BY <1>1 DEF TypeOK
<1>3. pc'[r] = "commit"
  BY <1>1 DEF TypeOK
<1>4. LockInv'
  BY <1>1, <1>2 DEF LockInv, Holding
<1>5. FreshInv'
  BY <1>1, <1>2 DEF FreshInv, Holding
<1>6. DecidedInv'
  BY <1>1, <1>2 DEF DecidedInv
<1>7. RowsInv'
  BY <1>1, <1>2 DEF RowsInv, TypeOK
<1>8. ASSUME NEW q \in Requests, q # r, Claims(q), req[q].kind = req[r].kind,
             req[q].key = req[r].key
      PROVE  FALSE
  <2>1. CASE pc[q] = "commit"
    BY <1>1, <1>8, <2>1 DEF KeyInFlight
  <2>2. CASE q \in stampRows \cup redemptionRows
    <3>1. q \in Rows(req[r].kind)
      BY <1>8, <2>2 DEF RowsInv, Rows
    <3> QED
      BY <1>1, <1>8, <3>1 DEF KeyUsed
  <2> QED
    BY <1>8, <2>1, <2>2 DEF Claims
<1>9. \A q \in Requests : q # r => (Claims(q)' <=> Claims(q))
  BY <1>1, <1>2 DEF Claims
<1>10. KeysInv'
  BY <1>1, <1>8, <1>9 DEF KeysInv
<1>11. LastInv' /\ StampGap'
  BY <1>1 DEF LastInv, StampGap
<1> QED
  BY <1>4, <1>5, <1>6, <1>7, <1>10, <1>11 DEF Core

\* A stamp commits: the balance was not touched since it was read.
LEMMA CommitStampStep ==
    ASSUME IInv, NEW r \in Requests, CommitStamp(r)
    PROVE  Core'
<1> USE DEF IInv
<1> DEFINE c == req[r].customer
<1>1. /\ pc' = [pc EXCEPT ![r] = "respond"] /\ pc[r] = "commit" /\ req[r].kind = "stamp"
      /\ UNCHANGED <<redemptionRows, req, seen, at>>
      /\ stampRows' = stampRows \cup {r}
      /\ balance' = [balance EXCEPT ![c] =
                       [stamps |-> ApplyStamp(seen[r].stamps), last |-> at[r]]]
  BY DEF CommitStamp, Goto
<1>2. c \in Customers /\ at[r] \in Nat /\ MinStampGap \in Nat
  BY ConstantTypes, GapAssumption DEF TypeOK, Inputs
<1>3. \A q \in Requests : q # r => pc'[q] = pc[q]
  BY <1>1 DEF TypeOK
<1>4. pc'[r] = "respond"
  BY <1>1 DEF TypeOK
<1>5. \A q \in Requests : pc'[q] \in Holding =>
          /\ q # r /\ pc[q] \in Holding /\ req[q].customer # c
          /\ balance'[req[q].customer] = balance[req[q].customer]
  BY <1>1, <1>3, <1>4 DEF LockInv, Holding, TypeOK
<1>6. LockInv'
  BY <1>1, <1>5 DEF LockInv
<1>7. FreshInv'
  BY <1>1, <1>5 DEF FreshInv
<1>8. DecidedInv'
  BY <1>1, <1>3, <1>4 DEF DecidedInv
<1>9. RowsInv'
  BY <1>1, <1>3, <1>4 DEF RowsInv, TypeOK
<1>10. \A q \in Requests : Claims(q)' => Claims(q)
  BY <1>1, <1>3, <1>4 DEF Claims
<1>11. KeysInv'
  BY <1>1, <1>10 DEF KeysInv
<1>12. balance'[c].last = at[r] /\ seen[r].last = balance[c].last
  BY <1>1, <1>2 DEF TypeOK, FreshInv, Holding
<1>13. seen[r].last # Never => at[r] >= seen[r].last + MinStampGap
  BY <1>1 DEF DecidedInv
<1>14. \A q \in stampRows : req[q].customer = c => at[r] >= at[q] + MinStampGap
  <2> TAKE q \in stampRows
  <2>1. at[q] \in Nat
    BY ConstantTypes DEF TypeOK
  <2>2. seen[r].last \in Int
    BY ConstantTypes DEF TypeOK
  <2>3. req[q].customer = c => seen[r].last >= at[q]
    BY <1>12 DEF LastInv
  <2> QED
    BY <1>2, <1>13, <2>1, <2>2, <2>3 DEF Never
<1>15. LastInv'
  <2> SUFFICES ASSUME NEW q \in stampRows' PROVE (balance'[req[q].customer].last >= at[q])
    BY <1>1 DEF LastInv
  <2>1. at[q] \in Nat
    BY <1>1, ConstantTypes DEF TypeOK
  <2>2. CASE req[q].customer = c
    BY <1>1, <1>2, <1>12, <1>14, <2>1, <2>2
  <2>3. CASE req[q].customer # c
    <3>1. q \in stampRows /\ req[q].customer \in Customers
      BY <1>1, <2>3 DEF TypeOK, Inputs
    <3> QED
      BY <1>1, <2>3, <3>1 DEF LastInv, TypeOK
  <2> QED
    BY <2>2, <2>3
<1>16. StampGap'
  BY <1>1, <1>14 DEF StampGap
<1> QED
  BY <1>6, <1>7, <1>8, <1>9, <1>11, <1>15, <1>16 DEF Core

\* A redemption commits: only the stamps of its customer change.
LEMMA CommitRedeemStep ==
    ASSUME IInv, NEW r \in Requests, CommitRedeem(r)
    PROVE  Core'
<1> USE DEF IInv
<1> DEFINE c == req[r].customer
<1>1. /\ pc' = [pc EXCEPT ![r] = "respond"] /\ pc[r] = "commit" /\ req[r].kind = "redeem"
      /\ UNCHANGED <<stampRows, req, seen, at>>
      /\ redemptionRows' = redemptionRows \cup {r}
      /\ balance' = [balance EXCEPT ![c].stamps =
                       ApplyRedemption(seen[r].stamps, seen[r].cost)]
  BY DEF CommitRedeem, Goto
<1>2. c \in Customers
  BY DEF TypeOK, Inputs
<1>3. \A q \in Requests : q # r => pc'[q] = pc[q]
  BY <1>1 DEF TypeOK
<1>4. pc'[r] = "respond"
  BY <1>1 DEF TypeOK
<1>5. \A q \in Requests : pc'[q] \in Holding =>
          /\ q # r /\ pc[q] \in Holding /\ req[q].customer # c
          /\ balance'[req[q].customer] = balance[req[q].customer]
  BY <1>1, <1>3, <1>4 DEF LockInv, Holding, TypeOK
<1>6. LockInv'
  BY <1>1, <1>5 DEF LockInv
<1>7. FreshInv'
  BY <1>1, <1>5 DEF FreshInv
<1>8. DecidedInv'
  BY <1>1, <1>3, <1>4 DEF DecidedInv
<1>9. RowsInv'
  BY <1>1, <1>3, <1>4 DEF RowsInv, TypeOK
<1>10. \A q \in Requests : Claims(q)' => Claims(q)
  BY <1>1, <1>3, <1>4 DEF Claims
<1>11. KeysInv'
  BY <1>1, <1>10 DEF KeysInv
<1>12. \A b \in Customers : balance'[b].last = balance[b].last
  BY <1>1 DEF TypeOK
<1>13. LastInv'
  BY <1>1, <1>12 DEF LastInv, TypeOK, Inputs
<1>14. StampGap'
  BY <1>1 DEF StampGap
<1> QED
  BY <1>6, <1>7, <1>8, <1>9, <1>11, <1>13, <1>14 DEF Core

\* The cost a redemption knows is kept until it ends.
LEMMA CostStep ==
    ASSUME IInv, NEW r \in Requests, Submit(r) \/ RateLimited(r) \/ Handle(r) \/ Fail(r)
    PROVE  CostInv'
<1> USE DEF IInv
<1> DEFINE Known == {"program", "lock", "decide", "insert", "commit"}
<1>1. ASSUME UNCHANGED req, \A q \in Requests : q # r => pc'[q] = pc[q] /\ seen'[q] = seen[q],
             pc'[r] \in Known /\ req[r].kind = "redeem" => seen'[r].cost \in Costs
      PROVE  CostInv'
  BY <1>1 DEF CostInv
<1>2. ASSUME NEW answer, Finish(r, answer), UNCHANGED req PROVE CostInv'
  BY <1>1, <1>2 DEF Finish, TypeOK
<1>3. CASE Submit(r)
  BY <1>1, <1>3 DEF Submit, Goto, TypeOK
<1>4. CASE RateLimited(r) \/ Replay(r) \/ Reject(r) \/ StampConflict(r) \/ RedeemConflict(r)
             \/ Respond(r) \/ Fail(r)
  BY <1>2, <1>4 DEF RateLimited, Replay, Reject, StampConflict, RedeemConflict, Respond, Fail
<1>5. CASE Authorise(r)
  <2>1. CASE businessActive /\ operatorActive
    <3>1. /\ Goto(r, "begin", IF req[r].kind = "redeem" THEN "rule" ELSE "program")
          /\ UNCHANGED <<req, seen>>
      BY <1>5, <2>1 DEF Authorise
    <3> QED
      BY <1>1, <3>1 DEF Goto, TypeOK
  <2>2. CASE ~(businessActive /\ operatorActive)
    BY <1>2, <1>5, <2>2 DEF Authorise
  <2> QED
    BY <2>1, <2>2
<1>6. CASE ReadRule(r)
  <2>1. rules[req[r].rule].cost \in Costs
    BY DEF TypeOK, Inputs, Rule
  <2>2. seen'[r].cost \in Costs /\ \A q \in Requests : q # r => seen'[q] = seen[q]
    BY <1>6, <2>1 DEF ReadRule, TypeOK
  <2> QED
    BY <1>1, <1>6, <2>2 DEF ReadRule, Goto, TypeOK
<1>7. CASE ReadProgram(r)
  <2>1. CASE req[r].kind = "redeem" /\ ~program.active
    BY <1>2, <1>7, <2>1 DEF ReadProgram
  <2>2. CASE ~(req[r].kind = "redeem" /\ ~program.active)
    <3>1. /\ Goto(r, "program", "lock") /\ UNCHANGED req
          /\ seen' = [seen EXCEPT ![r].active = program.active,
                                  ![r].cooldown = program.cooldown]
      BY <1>7, <2>2 DEF ReadProgram
    <3>2. seen'[r].cost = seen[r].cost /\ \A q \in Requests : q # r => seen'[q] = seen[q]
      BY <3>1 DEF TypeOK
    <3> QED
      BY <1>1, <3>1, <3>2 DEF Goto, CostInv, TypeOK
  <2> QED
    BY <2>1, <2>2
<1>8. CASE LockBalance(r)
  <2>1. seen'[r].cost = seen[r].cost /\ \A q \in Requests : q # r => seen'[q] = seen[q]
    BY <1>8 DEF LockBalance, TypeOK
  <2> QED
    BY <1>1, <1>8, <2>1 DEF LockBalance, Goto, CostInv, TypeOK
<1>9. CASE Accept(r)
  BY <1>1, <1>9 DEF Accept, Goto, CostInv, TypeOK
<1>10. CASE InsertNew(r)
  BY <1>1, <1>10 DEF InsertNew, Goto, CostInv, TypeOK
<1>11. CASE CommitStamp(r)
  BY <1>1, <1>11 DEF CommitStamp, Goto, CostInv, TypeOK
<1>12. CASE CommitRedeem(r)
  BY <1>1, <1>12 DEF CommitRedeem, Goto, CostInv, TypeOK
<1> QED
  BY <1>3, <1>4, <1>5, <1>6, <1>7, <1>8, <1>9, <1>10, <1>11, <1>12 DEF Handle

\* A step that changes nothing the invariant speaks of.
LEMMA UntouchedStep ==
    ASSUME Core, CostInv,
           UNCHANGED <<balance, stampRows, redemptionRows, pc, req, seen, at>>
    PROVE  Core' /\ CostInv'
BY DEF Core, CostInv, LockInv, FreshInv, DecidedInv, RowsInv, KeysInv, Claims, LastInv, StampGap

LEMMA InvInit == Init => IInv
<1> SUFFICES ASSUME Init PROVE IInv
  OBVIOUS
<1>1. TypeOK
  BY TypeInit
<1>2. stampRows = {} /\ redemptionRows = {} /\ \A r \in Requests : pc[r] = "idle"
  BY DEF Init
<1> QED
  BY <1>1, <1>2 DEF IInv, LockInv, FreshInv, DecidedInv, CostInv, RowsInv, KeysInv, Claims,
                    LastInv, StampGap, Holding

LEMMA InvNext == IInv /\ [Next]_vars => IInv'
<1> SUFFICES ASSUME IInv, [Next]_vars PROVE IInv'
  OBVIOUS
<1>1. TypeOK /\ Core /\ CostInv
  BY DEF IInv, Core
<1>2. ASSUME TypeOK', Core', CostInv' PROVE IInv'
  BY <1>2 DEF IInv, Core
<1>3. ASSUME NEW r \in Requests, Submit(r) \/ RateLimited(r) \/ Handle(r) \/ Fail(r)
      PROVE  IInv'
  <2>1. TypeOK' /\ CostInv'
    BY <1>3, TypeRequest, CostStep
  <2>2. Core'
    <3>1. CASE LockBalance(r)
      BY <3>1, LockStep
    <3>2. CASE Accept(r)
      BY <3>2, AcceptStep
    <3>3. CASE InsertNew(r)
      BY <3>3, InsertStep
    <3>4. CASE CommitStamp(r)
      BY <3>4, CommitStampStep
    <3>5. CASE CommitRedeem(r)
      BY <3>5, CommitRedeemStep
    <3>6. CASE \/ Submit(r) \/ RateLimited(r) \/ Fail(r)
               \/ Authorise(r) \/ ReadRule(r) \/ ReadProgram(r)
               \/ Replay(r) \/ Reject(r) \/ StampConflict(r) \/ RedeemConflict(r) \/ Respond(r)
      BY <1>1, <3>6, QuietSteps, QuietStep
    <3> QED
      BY <1>3, <3>1, <3>2, <3>3, <3>4, <3>5, <3>6 DEF Handle
  <2> QED
    BY <1>2, <2>1, <2>2
<1>4. CASE Administer \/ Tick
  <2>1. TypeOK'
    BY <1>1, <1>4, TypeEnvironment
  <2>2. UNCHANGED <<balance, stampRows, redemptionRows, pc, req, seen, at>>
    BY <1>4 DEF Administer, ToggleBusiness, DeactivateOperator, SaveProgram, SaveRule,
                Administrative, Tick, tables, local
  <2> QED
    BY <1>1, <1>2, <2>1, <2>2, UntouchedStep
<1>5. CASE UNCHANGED vars
  <2>1. TypeOK'
    BY <1>1, <1>5 DEF TypeOK, vars, config, tables, local
  <2>2. UNCHANGED <<balance, stampRows, redemptionRows, pc, req, seen, at>>
    BY <1>5 DEF vars, tables, local
  <2> QED
    BY <1>1, <1>2, <2>1, <2>2, UntouchedStep
<1> QED
  BY <1>3, <1>4, <1>5 DEF Next, Terminated

\* The inductive invariant holds in every state.
THEOREM Invariance == Spec => []IInv
<1>1. Init => IInv
  BY InvInit
<1>2. IInv /\ [Next]_vars => IInv'
  BY InvNext
<1> QED
  BY <1>1, <1>2, PTL DEF Spec

----------------------------------------------------------------------------
(* The results.                                                            *)

\* Every variable keeps its type: in particular no interleaving of stamps
\* and redemptions makes a balance negative, which is what the CHECK
\* (current_stamps >= 0) of the table and the exception of applyRedemption
\* guard against.
THEOREM TypeCorrect == Spec => []TypeOK
<1>1. IInv => TypeOK
  BY DEF IInv
<1> QED
  BY <1>1, Invariance, PTL

\* Whatever the number of requests that carry a key, and whatever customers
\* they name, the key has at most one stamp row and one redemption row.
THEOREM KeysAreUsedOnce == Spec => []OneEffectPerKey
<1>1. IInv => OneEffectPerKey
  <2> SUFFICES ASSUME IInv, NEW kind \in Kinds, NEW r \in Rows(kind), NEW q \in Rows(kind),
                      req[r].key = req[q].key
               PROVE  r = q
    BY DEF OneEffectPerKey
  <2>1. r \in Requests /\ q \in Requests /\ Claims(r) /\ Claims(q)
    BY DEF IInv, TypeOK, Rows, Claims
  <2>2. req[r].kind = req[q].kind
    BY DEF IInv, RowsInv, Rows
  <2> QED
    BY <2>1, <2>2 DEF IInv, KeysInv
<1> QED
  BY <1>1, Invariance, PTL

\* Two stamps of a customer are never closer than the floor.
THEOREM StampsKeepTheGap == Spec => []StampGap
<1>1. IInv => StampGap
  BY DEF IInv
<1> QED
  BY <1>1, Invariance, PTL

----------------------------------------------------------------------------
(* Answers: a request that has not ended has answered nothing, one that is *)
(* about to answer "ok" has committed its row, and rows are only ever      *)
(* added, so that an answer stays true.                                    *)

\* Until a request ends it has answered nothing, and between its commit and
\* its answer its row is there.
OpenInv ==
    \A r \in Requests :
        /\ pc[r] # "done" => reply[r] = "none"
        /\ pc[r] = "respond" => r \in Rows(req[r].kind)

AnswersInv == OpenInv /\ HonestReplies /\ RewardsPaired

\* The three tables and the requests in them.
Recorded == <<stampRows, rewardRows, redemptionRows, req>>

\* A request that goes on without a commit.
Advances(r) ==
    /\ pc[r] # "done"
    /\ \E s \in PCs \ {"respond", "done"} : pc' = [pc EXCEPT ![r] = s]
    /\ UNCHANGED <<Recorded, reply, notified>>

\* A request that ends without a commit, with an answer that is true of it.
Ends(r) ==
    /\ pc[r] # "done"
    /\ \E answer \in Replies :
         /\ Finish(r, answer)
         /\ answer = "ok" => r \in Rows(req[r].kind) /\ r \in notified'
         /\ answer = "replayed" => \E q \in Rows(req[r].kind) \ {r} : req[q].key = req[r].key
         /\ answer = "rejected" => r \notin Rows(req[r].kind)
    /\ notified' = notified \/ (notified' = notified \cup {r} /\ r \in Rows(req[r].kind))
    /\ UNCHANGED Recorded

LEMMA AdvanceStep ==
    ASSUME TypeOK, AnswersInv, NEW r \in Requests, Advances(r)
    PROVE  AnswersInv'
<1> PICK s \in PCs \ {"respond", "done"} : pc' = [pc EXCEPT ![r] = s]
  BY DEF Advances
<1>1. /\ pc[r] # "done" /\ reply' = reply /\ notified' = notified /\ req' = req
      /\ \A kind \in Kinds : Rows(kind)' = Rows(kind)
      /\ rewardRows' = rewardRows /\ redemptionRows' = redemptionRows
  BY DEF Advances, Recorded, Rows
<1>2. \A q \in Requests : req[q].kind \in Kinds
  BY DEF TypeOK, Inputs
<1>3. pc'[r] = s /\ \A q \in Requests : q # r => pc'[q] = pc[q]
  BY DEF TypeOK
<1>4. OpenInv'
  BY <1>1, <1>2, <1>3 DEF AnswersInv, OpenInv
<1>5. HonestReplies'
  BY <1>1, <1>2 DEF AnswersInv, HonestReplies
<1>6. RewardsPaired'
  BY <1>1 DEF AnswersInv, RewardsPaired
<1> QED
  BY <1>4, <1>5, <1>6 DEF AnswersInv

LEMMA EndStep ==
    ASSUME TypeOK, AnswersInv, NEW r \in Requests, Ends(r)
    PROVE  AnswersInv'
<1> PICK answer \in Replies :
         /\ Finish(r, answer)
         /\ answer = "ok" => r \in Rows(req[r].kind) /\ r \in notified'
         /\ answer = "replayed" => \E q \in Rows(req[r].kind) \ {r} : req[q].key = req[r].key
         /\ answer = "rejected" => r \notin Rows(req[r].kind)
  BY DEF Ends
<1>1. /\ req' = req /\ \A kind \in Kinds : Rows(kind)' = Rows(kind)
      /\ rewardRows' = rewardRows /\ redemptionRows' = redemptionRows
  BY DEF Ends, Recorded, Rows
<1>2. \A q \in Requests : req[q].kind \in Kinds
  BY DEF TypeOK, Inputs
<1>3. /\ pc'[r] = "done" /\ reply'[r] = answer
      /\ \A q \in Requests : q # r => pc'[q] = pc[q] /\ reply'[q] = reply[q]
  BY DEF Finish, TypeOK
<1>4. /\ notified \subseteq notified'
      /\ \A q \in notified' : q \in notified \/ (q = r /\ r \in Rows(req[r].kind))
  BY DEF Ends
<1>5. OpenInv'
  BY <1>1, <1>2, <1>3 DEF AnswersInv, OpenInv
<1>6. HonestReplies'
  <2> SUFFICES ASSUME NEW q \in Requests
               PROVE  /\ reply'[q] = "ok" => q \in Rows(req[q].kind) /\ q \in notified'
                      /\ reply'[q] = "replayed" =>
                           \E p \in Rows(req[q].kind) \ {q} : req[p].key = req[q].key
                      /\ reply'[q] = "rejected" => q \notin Rows(req[q].kind)
                      /\ q \in notified' => q \in Rows(req[q].kind)
    BY <1>1, <1>2 DEF HonestReplies
  <2>1. CASE q = r
    BY <1>3, <1>4, <2>1 DEF AnswersInv, HonestReplies
  <2>2. CASE q # r
    BY <1>3, <1>4, <2>2 DEF AnswersInv, HonestReplies
  <2> QED
    BY <2>1, <2>2
<1>7. RewardsPaired'
  BY <1>1 DEF AnswersInv, RewardsPaired
<1> QED
  BY <1>5, <1>6, <1>7 DEF AnswersInv

\* A commit adds the request's row to the table of its kind, and to that of
\* the rewards with a redemption; it had answered nothing before.
LEMMA CommitStep ==
    ASSUME TypeOK, AnswersInv, NEW r \in Requests, CommitStamp(r) \/ CommitRedeem(r)
    PROVE  AnswersInv'
<1>1. /\ pc[r] = "commit" /\ pc' = [pc EXCEPT ![r] = "respond"]
      /\ UNCHANGED <<req, reply, notified>>
  BY DEF CommitStamp, CommitRedeem, Goto
<1>2. \A q \in Requests : req[q].kind \in Kinds
  BY DEF TypeOK, Inputs
<1>3. \A kind \in Kinds :
        Rows(kind)' = IF kind = req[r].kind THEN Rows(kind) \cup {r} ELSE Rows(kind)
  <2>1. CASE CommitStamp(r)
    BY <2>1 DEF CommitStamp, Rows, Kinds
  <2>2. CASE CommitRedeem(r)
    BY <2>2 DEF CommitRedeem, Rows, Kinds
  <2> QED
    BY <2>1, <2>2
<1>4. pc'[r] = "respond" /\ \A q \in Requests : q # r => pc'[q] = pc[q]
  BY <1>1 DEF TypeOK
<1>5. reply[r] = "none"
  BY <1>1 DEF AnswersInv, OpenInv
<1>6. OpenInv'
  BY <1>1, <1>2, <1>3, <1>4, <1>5 DEF AnswersInv, OpenInv
<1>7. \A q \in Requests :
        /\ Rows(req[q].kind) \subseteq Rows(req[q].kind)'
        /\ q # r => (q \in Rows(req[q].kind)' <=> q \in Rows(req[q].kind))
  BY <1>1, <1>2, <1>3
<1>8. HonestReplies'
  <2> SUFFICES ASSUME NEW q \in Requests
               PROVE  /\ reply[q] = "ok" => q \in Rows(req[q].kind)' /\ q \in notified
                      /\ reply[q] = "replayed" =>
                           \E p \in Rows(req[q].kind)' \ {q} : req[p].key = req[q].key
                      /\ reply[q] = "rejected" => q \notin Rows(req[q].kind)'
                      /\ q \in notified => q \in Rows(req[q].kind)'
    BY <1>1, <1>2, <1>3 DEF HonestReplies
  <2> QED
    BY <1>5, <1>7 DEF AnswersInv, HonestReplies
<1>9. RewardsPaired'
  <2>1. CASE CommitStamp(r)
    BY <2>1 DEF AnswersInv, RewardsPaired, CommitStamp
  <2>2. CASE CommitRedeem(r)
    BY <2>2 DEF AnswersInv, RewardsPaired, CommitRedeem
  <2> QED
    BY <2>1, <2>2
<1> QED
  BY <1>6, <1>8, <1>9 DEF AnswersInv

\* A step that changes nothing the answers speak of.
LEMMA SilentStep ==
    ASSUME AnswersInv, UNCHANGED <<Recorded, pc, reply, notified>>
    PROVE  AnswersInv'
BY DEF AnswersInv, OpenInv, HonestReplies, RewardsPaired, Recorded, Rows

----------------------------------------------------------------------------
\* A request that has not committed has no row.
LEMMA NotYet ==
    ASSUME IInv, NEW r \in Requests, pc[r] \notin {"respond", "done"}
    PROVE  r \notin Rows(req[r].kind)
BY DEF IInv, RowsInv, Rows

\* Every step of a request but its commit goes on or ends.
LEMMA RequestStep ==
    ASSUME IInv, AnswersInv, NEW r \in Requests,
           Submit(r) \/ RateLimited(r) \/ Handle(r) \/ Fail(r)
    PROVE  Advances(r) \/ Ends(r) \/ CommitStamp(r) \/ CommitRedeem(r)
<1>1. CASE Submit(r) \/ ReadRule(r) \/ LockBalance(r) \/ Accept(r) \/ InsertNew(r)
  BY <1>1 DEF Submit, ReadRule, LockBalance, Accept, InsertNew, Goto, Advances, Recorded, PCs, tables
<1>2. CASE RateLimited(r) \/ Reject(r)
  <2>1. pc[r] \notin {"respond", "done"} /\ Finish(r, "rejected")
        /\ UNCHANGED <<Recorded, notified>>
    BY <1>2 DEF RateLimited, Reject, Recorded, tables
  <2> QED
    BY <2>1, NotYet DEF Ends, Replies
<1>3. CASE Authorise(r)
  <2>1. CASE businessActive /\ operatorActive
    BY <1>3, <2>1 DEF Authorise, Goto, Advances, Recorded, PCs, tables
  <2>2. CASE ~(businessActive /\ operatorActive)
    <3>1. pc[r] \notin {"respond", "done"} /\ Finish(r, "rejected")
          /\ UNCHANGED <<Recorded, notified>>
      BY <1>3, <2>2 DEF Authorise, Recorded, tables
    <3> QED
      BY <3>1, NotYet DEF Ends, Replies
  <2> QED
    BY <2>1, <2>2
<1>4. CASE ReadProgram(r)
  <2>1. CASE req[r].kind = "redeem" /\ ~program.active
    <3>1. pc[r] \notin {"respond", "done"} /\ Finish(r, "rejected")
          /\ UNCHANGED <<Recorded, notified>>
      BY <1>4, <2>1 DEF ReadProgram, Recorded, tables
    <3> QED
      BY <3>1, NotYet DEF Ends, Replies
  <2>2. CASE ~(req[r].kind = "redeem" /\ ~program.active)
    BY <1>4, <2>2 DEF ReadProgram, Goto, Advances, Recorded, PCs, tables
  <2> QED
    BY <2>1, <2>2
<1>5. CASE Replay(r) \/ StampConflict(r) \/ RedeemConflict(r)
  <2>1. /\ pc[r] \notin {"respond", "done"} /\ KeyUsed(req[r].kind, req[r].key)
        /\ Finish(r, "replayed") \/ Finish(r, "failed")
        /\ UNCHANGED <<Recorded, notified>>
    BY <1>5 DEF Replay, StampConflict, RedeemConflict, Recorded, tables
  <2>2. \E q \in Rows(req[r].kind) \ {r} : req[q].key = req[r].key
    BY <2>1, NotYet DEF KeyUsed
  <2> QED
    BY <2>1, <2>2 DEF Ends, Replies
<1>6. CASE Respond(r)
  <2>1. /\ pc[r] = "respond" /\ Finish(r, "ok") /\ notified' = notified \cup {r}
        /\ UNCHANGED Recorded
    BY <1>6 DEF Respond, Recorded, tables
  <2>2. r \in Rows(req[r].kind)
    BY <2>1 DEF AnswersInv, OpenInv
  <2> QED
    BY <2>1, <2>2 DEF Ends, Replies
<1>7. CASE Fail(r)
  BY <1>7 DEF Fail, Ends, Replies, Recorded, tables
<1> QED
  BY <1>1, <1>2, <1>3, <1>4, <1>5, <1>6, <1>7 DEF Handle

LEMMA AnswersInit == Init => AnswersInv
BY DEF Init, AnswersInv, OpenInv, HonestReplies, RewardsPaired, Rows

LEMMA AnswersNext == IInv /\ AnswersInv /\ [Next]_vars => AnswersInv'
<1> SUFFICES ASSUME IInv, AnswersInv, [Next]_vars PROVE AnswersInv'
  OBVIOUS
<1>1. TypeOK
  BY DEF IInv
<1>2. ASSUME NEW r \in Requests, Submit(r) \/ RateLimited(r) \/ Handle(r) \/ Fail(r)
      PROVE  AnswersInv'
  BY <1>1, <1>2, RequestStep, AdvanceStep, EndStep, CommitStep
<1>3. CASE Administer \/ Tick
  <2>1. UNCHANGED <<tables, local>>
    BY <1>3 DEF Administer, ToggleBusiness, DeactivateOperator, SaveProgram, SaveRule,
                Administrative, Tick
  <2> QED
    BY <2>1, SilentStep DEF tables, local, Recorded
<1>4. CASE UNCHANGED vars
  BY <1>4, SilentStep DEF vars, tables, local, Recorded
<1> QED
  BY <1>2, <1>3, <1>4 DEF Next, Terminated

LEMMA AnswersHold == Spec => []AnswersInv
<1> QED
  BY AnswersInit, AnswersNext, Invariance, PTL DEF Spec

----------------------------------------------------------------------------
\* Whatever fails or overtakes it, an answer is true for good: "ok" has its
\* row, "replayed" another's with the key, "rejected" none, and the wallet is
\* notified of genuine changes only.
THEOREM AnswersAreTrue == Spec => []HonestReplies
<1>1. AnswersInv => HonestReplies
  BY DEF AnswersInv
<1> QED
  BY <1>1, AnswersHold, PTL

\* No reward is left behind without its redemption, and none is redeemed
\* without its reward.
THEOREM RewardsArePaired == Spec => []RewardsPaired
<1>1. AnswersInv => RewardsPaired
  BY DEF AnswersInv
<1> QED
  BY <1>1, AnswersHold, PTL
----------------------------------------------------------------------------
(* The action properties and the refinement of LoyaltyLedger: only a       *)
(* commit writes the tables, and a commit is an entry of the ledger,       *)
(* because what its request read under the lock is still the balance       *)
(* (FreshInv), was enough for what it decided (DecidedInv), and its key is *)
(* nobody else's (KeysInv).                                                *)

\* A request that is not finished has no row yet.
LEMMA NoRowYet ==
    ASSUME IInv, NEW r \in Requests, pc[r] \notin {"respond", "done"}
    PROVE  r \notin stampRows /\ r \notin redemptionRows
BY DEF IInv, RowsInv

\* Only the two commits write what the ledger records.
Unrecorded ==
    /\ UNCHANGED <<balance, stampRows, redemptionRows, req>>
    /\ \A r \in stampRows : at'[r] = at[r]
    /\ \A r \in redemptionRows : spent'[r] = spent[r]

LEMMA StepCases ==
    ASSUME IInv, [Next]_vars
    PROVE  \/ Unrecorded
           \/ \E r \in Requests : CommitStamp(r) \/ CommitRedeem(r)
<1>1. ASSUME UNCHANGED <<tables, req, at>> PROVE Unrecorded
  BY <1>1 DEF Unrecorded, tables
<1>2. ASSUME NEW r \in Requests,
             \/ Submit(r) \/ RateLimited(r) \/ Fail(r)
             \/ Authorise(r) \/ ReadRule(r) \/ ReadProgram(r) \/ LockBalance(r)
             \/ Replay(r) \/ Reject(r) \/ InsertNew(r) \/ StampConflict(r)
             \/ RedeemConflict(r) \/ Respond(r)
      PROVE  Unrecorded
  <2>1. UNCHANGED <<tables, req, at>>
    BY <1>2 DEF Submit, RateLimited, Fail, Authorise, ReadRule, ReadProgram, LockBalance,
                Replay, Reject, InsertNew, StampConflict, RedeemConflict, Respond
  <2> QED
    BY <1>1, <2>1
<1>3. ASSUME NEW r \in Requests, Accept(r) PROVE Unrecorded
  <2>1. UNCHANGED <<tables, req>> /\ at' = [at EXCEPT ![r] = clock] /\ pc[r] = "decide"
    BY <1>3 DEF Accept, Goto
  <2>2. r \notin stampRows
    BY <2>1, NoRowYet
  <2>3. \A q \in stampRows : at'[q] = at[q]
    BY <2>1, <2>2 DEF IInv, TypeOK
  <2> QED
    BY <2>1, <2>3 DEF Unrecorded, tables
<1>4. CASE Administer \/ Tick
  <2>1. UNCHANGED <<tables, local>>
    BY <1>4 DEF Administer, ToggleBusiness, DeactivateOperator, SaveProgram, SaveRule,
                Administrative, Tick
  <2> QED
    BY <1>1, <2>1 DEF local
<1>5. CASE UNCHANGED vars
  BY <1>1, <1>5 DEF vars, local
<1> QED
  BY <1>2, <1>3, <1>4, <1>5 DEF Next, Handle, Terminated

\* What a stamp's commit does to the tables.
LEMMA StampEffect ==
    ASSUME IInv, NEW r \in Requests, CommitStamp(r)
    PROVE  /\ req[r].kind = "stamp" /\ req[r].customer \in Customers
           /\ r \notin stampRows /\ stampRows' = stampRows \cup {r}
           /\ UNCHANGED <<redemptionRows, req, at, spent>>
           /\ balance' = [balance EXCEPT ![req[r].customer] =
                [stamps |-> balance[req[r].customer].stamps + 1, last |-> at[r]]]
           /\ balance[req[r].customer].last # Never =>
                at[r] >= balance[req[r].customer].last + MinStampGap
<1>1. /\ pc[r] = "commit" /\ req[r].kind = "stamp" /\ stampRows' = stampRows \cup {r}
      /\ UNCHANGED <<redemptionRows, req, at, spent>>
      /\ balance' = [balance EXCEPT ![req[r].customer] =
           [stamps |-> ApplyStamp(seen[r].stamps), last |-> at[r]]]
  BY DEF CommitStamp, Goto
<1>2. req[r].customer \in Customers
  BY DEF IInv, TypeOK, Inputs
<1>3. /\ seen[r].stamps = balance[req[r].customer].stamps
      /\ seen[r].last = balance[req[r].customer].last
  BY <1>1 DEF IInv, FreshInv, Holding
<1>4. seen[r].last # Never => at[r] >= seen[r].last + MinStampGap
  BY <1>1 DEF IInv, DecidedInv
<1>5. r \notin stampRows
  BY <1>1, NoRowYet
<1> QED
  BY <1>1, <1>2, <1>3, <1>4, <1>5 DEF ApplyStamp

\* What a redemption's commit does to the tables.
LEMMA RedeemEffect ==
    ASSUME IInv, NEW r \in Requests, CommitRedeem(r)
    PROVE  /\ req[r].kind = "redeem" /\ req[r].customer \in Customers
           /\ r \notin redemptionRows /\ redemptionRows' = redemptionRows \cup {r}
           /\ UNCHANGED <<stampRows, req, at>>
           /\ seen[r].cost \in Costs
           /\ seen[r].cost <= balance[req[r].customer].stamps
           /\ spent' = [spent EXCEPT ![r] = seen[r].cost]
           /\ balance' = [balance EXCEPT ![req[r].customer].stamps =
                balance[req[r].customer].stamps - seen[r].cost]
<1>1. /\ pc[r] = "commit" /\ req[r].kind = "redeem" /\ redemptionRows' = redemptionRows \cup {r}
      /\ UNCHANGED <<stampRows, req, at>>
      /\ spent' = [spent EXCEPT ![r] = seen[r].cost]
      /\ balance' = [balance EXCEPT ![req[r].customer].stamps =
           ApplyRedemption(seen[r].stamps, seen[r].cost)]
  BY DEF CommitRedeem, Goto
<1>2. req[r].customer \in Customers
  BY DEF IInv, TypeOK, Inputs
<1>3. seen[r].stamps = balance[req[r].customer].stamps
  BY <1>1 DEF IInv, FreshInv, Holding
<1>4. seen[r].cost <= seen[r].stamps
  BY <1>1 DEF IInv, DecidedInv
<1>5. seen[r].cost \in Costs
  BY <1>1 DEF IInv, CostInv
<1>6. r \notin redemptionRows
  BY <1>1, NoRowYet
<1> QED
  BY <1>1, <1>2, <1>3, <1>4, <1>5, <1>6 DEF ApplyRedemption

----------------------------------------------------------------------------
\* No lost update, for any number of concurrent requests: every step that
\* moves a balance adds the row that explains the move, and moves it from
\* the value it has at that moment.
THEOREM NoLostUpdate == Spec => BalanceMovesWithLedger
<1>1. ASSUME IInv, [Next]_vars PROVE [LedgerStep]_vars
  <2>1. CASE Unrecorded
    BY <2>1 DEF Unrecorded, LedgerStep
  <2>2. ASSUME NEW r \in Requests, CommitStamp(r) PROVE LedgerStep
    <3> DEFINE c == req[r].customer
    <3>1. /\ c \in Customers
          /\ balance' = [balance EXCEPT ![c] =
                           [stamps |-> balance[c].stamps + 1, last |-> at[r]]]
          /\ r \in stampRows' \ stampRows /\ stampRows \subseteq stampRows'
          /\ redemptionRows \subseteq redemptionRows'
      BY <1>1, <2>2, StampEffect
    <3>2. balance \in [Customers -> [stamps : Nat, last : Time]]
      BY <1>1 DEF IInv, TypeOK
    <3>3. /\ \A d \in Customers : balance'[d] # balance[d] => d = c
          /\ balance'[c].stamps = balance[c].stamps + 1 /\ balance'[c].last = at[r]
      BY <3>1, <3>2
    <3> QED
      BY <3>1, <3>3 DEF LedgerStep
  <2>3. ASSUME NEW r \in Requests, CommitRedeem(r) PROVE LedgerStep
    <3> DEFINE c == req[r].customer
    <3>1. /\ c \in Customers
          /\ balance' = [balance EXCEPT ![c].stamps = balance[c].stamps - seen[r].cost]
          /\ spent' = [spent EXCEPT ![r] = seen[r].cost]
          /\ r \in redemptionRows' \ redemptionRows /\ redemptionRows \subseteq redemptionRows'
          /\ stampRows \subseteq stampRows'
      BY <1>1, <2>3, RedeemEffect
    <3>2. /\ balance \in [Customers -> [stamps : Nat, last : Time]]
          /\ spent \in [Requests -> Costs \cup {0}]
      BY <1>1 DEF IInv, TypeOK
    <3>3. /\ \A d \in Customers : balance'[d] # balance[d] => d = c
          /\ balance'[c].stamps = balance[c].stamps - seen[r].cost
          /\ balance'[c].last = balance[c].last
          /\ spent'[r] = seen[r].cost
      BY <3>1, <3>2
    <3> QED
      BY <3>1, <3>3 DEF LedgerStep
  <2> QED
    BY <1>1, <2>1, <2>2, <2>3, StepCases
<1> QED
  BY <1>1, Invariance, PTL DEF Spec, BalanceMovesWithLedger

----------------------------------------------------------------------------
(* The balance is the sum of its ledger.                                   *)

\* The tables are finite, whatever the number of requests.
RowsFinite == IsFiniteSet(stampRows) /\ \A c \in Customers : IsFiniteSet(StampsTaken(c))

ConservedInv == RowsFinite /\ BalanceConserved

\* What a redemption takes is as many stamps as it costs.
LEMMA Taken ==
    ASSUME NEW r, NEW cost \in Nat
    PROVE  IsFiniteSet({r} \X (1..cost)) /\ Cardinality({r} \X (1..cost)) = cost
<1>1. IsFiniteSet(1..cost) /\ Cardinality(1..cost) = cost
  BY FS_Interval
<1>2. IsFiniteSet({r}) /\ Cardinality({r}) = 1
  BY FS_Singleton
<1> QED
  BY <1>1, <1>2, FS_Product

LEMMA ConservedInit == Init => ConservedInv
<1> SUFFICES ASSUME Init PROVE ConservedInv
  OBVIOUS
<1>1. IsFiniteSet(stampRows)
  BY FS_EmptySet DEF Init
<1>2. ASSUME NEW c \in Customers
      PROVE  /\ Of(stampRows, c) = {} /\ StampsTaken(c) = {}
             /\ balance[c].stamps = opening[c] /\ opening[c] \in Nat
  BY <1>2, BoundsAssumption DEF Init, Of, StampsTaken
<1> QED
  BY <1>1, <1>2, FS_EmptySet DEF ConservedInv, RowsFinite, BalanceConserved

\* A stamp adds one row of its customer, and nothing is taken.
LEMMA ConservedStamp ==
    ASSUME IInv, ConservedInv, NEW r \in Requests, CommitStamp(r), opening' = opening
    PROVE  ConservedInv'
<1> DEFINE d == req[r].customer
<1>1. /\ d \in Customers /\ r \notin stampRows /\ stampRows' = stampRows \cup {r}
      /\ UNCHANGED <<redemptionRows, req, spent>>
      /\ balance' = [balance EXCEPT ![d] = [stamps |-> balance[d].stamps + 1, last |-> at[r]]]
  BY StampEffect
<1>2. \A c \in Customers : StampsTaken(c)' = StampsTaken(c)
  BY <1>1 DEF StampsTaken, Of
<1>3. IsFiniteSet(stampRows')
  BY <1>1, FS_AddElement DEF ConservedInv, RowsFinite
<1>4. ASSUME NEW c \in Customers
      PROVE  balance[c].stamps' + Cardinality(StampsTaken(c))
                 = opening[c] + Cardinality(Of(stampRows, c)')
  <2>1. IsFiniteSet(Of(stampRows, c)) /\ r \notin Of(stampRows, c)
    BY <1>1, FS_Subset DEF ConservedInv, RowsFinite, Of
  <2>2. /\ balance \in [Customers -> [stamps : Nat, last : Time]]
        /\ opening[c] \in Nat
    BY BoundsAssumption DEF IInv, TypeOK
  <2>3. Cardinality(Of(stampRows, c)) \in Nat /\ Cardinality(StampsTaken(c)) \in Nat
    BY <2>1, FS_CardinalityType DEF ConservedInv, RowsFinite
  <2>4. balance[c].stamps + Cardinality(StampsTaken(c)) = opening[c] + Cardinality(Of(stampRows, c))
    BY DEF ConservedInv, BalanceConserved
  <2>5. CASE c = d
    <3>1. Of(stampRows, c)' = Of(stampRows, c) \cup {r}
      BY <1>1, <2>5 DEF Of
    <3>2. Cardinality(Of(stampRows, c)') = Cardinality(Of(stampRows, c)) + 1
      BY <2>1, <3>1, FS_AddElement
    <3>3. balance[c].stamps' = balance[c].stamps + 1 /\ balance[c].stamps \in Nat
      BY <1>1, <2>2, <2>5
    <3> QED
      BY <2>2, <2>3, <2>4, <3>2, <3>3
  <2>6. CASE c # d
    <3>1. Of(stampRows, c)' = Of(stampRows, c)
      BY <1>1, <2>6 DEF Of
    <3>2. balance[c].stamps' = balance[c].stamps
      BY <1>1, <2>2, <2>6
    <3> QED
      BY <2>4, <3>1, <3>2
  <2> QED
    BY <2>5, <2>6
<1> QED
  BY <1>2, <1>3, <1>4 DEF ConservedInv, RowsFinite, BalanceConserved

\* A redemption takes as many stamps as it writes off.
LEMMA ConservedRedeem ==
    ASSUME IInv, ConservedInv, NEW r \in Requests, CommitRedeem(r), opening' = opening
    PROVE  ConservedInv'
<1> DEFINE d == req[r].customer
           cost == seen[r].cost
<1>1. /\ d \in Customers /\ r \notin redemptionRows /\ redemptionRows' = redemptionRows \cup {r}
      /\ UNCHANGED <<stampRows, req>>
      /\ cost \in Costs /\ cost <= balance[d].stamps
      /\ spent' = [spent EXCEPT ![r] = cost]
      /\ balance' = [balance EXCEPT ![d].stamps = balance[d].stamps - cost]
  BY RedeemEffect
<1>2. /\ balance \in [Customers -> [stamps : Nat, last : Time]]
      /\ spent \in [Requests -> Costs \cup {0}] /\ redemptionRows \subseteq Requests
  BY DEF IInv, TypeOK
<1>3. spent'[r] = cost /\ \A q \in redemptionRows : spent'[q] = spent[q]
  BY <1>1, <1>2
<1>4. cost \in Nat
  BY <1>1, CostsAssumption
<1>5. \A c \in Customers : Of(stampRows, c)' = Of(stampRows, c)
  BY <1>1 DEF Of
<1>6. ASSUME NEW c \in Customers
      PROVE  /\ IsFiniteSet(StampsTaken(c)')
             /\ balance[c].stamps' + Cardinality(StampsTaken(c)')
                  = opening[c] + Cardinality(Of(stampRows, c))
  <2>1. /\ IsFiniteSet(StampsTaken(c)) /\ Cardinality(StampsTaken(c)) \in Nat
    BY FS_CardinalityType DEF ConservedInv, RowsFinite
  <2>2. balance[c].stamps + Cardinality(StampsTaken(c)) = opening[c] + Cardinality(Of(stampRows, c))
    BY DEF ConservedInv, BalanceConserved
  <2>3. CASE c = d
    <3>1. Of(redemptionRows, c)' = Of(redemptionRows, c) \cup {r}
      BY <1>1, <2>3 DEF Of
    <3>2. \A q \in Of(redemptionRows, c) : spent'[q] = spent[q]
      BY <1>3 DEF Of
    <3>3. StampsTaken(c)' = StampsTaken(c) \cup ({r} \X (1..cost))
      BY <1>3, <3>1, <3>2 DEF StampsTaken
    <3>4. StampsTaken(c) \cap ({r} \X (1..cost)) = {}
      BY <1>1 DEF StampsTaken, Of
    <3>5. /\ IsFiniteSet(StampsTaken(c)')
          /\ Cardinality(StampsTaken(c)') = Cardinality(StampsTaken(c)) + cost
      <4> DEFINE T == {r} \X (1..cost)
      <4>1. IsFiniteSet(T) /\ Cardinality(T) = cost
        BY <1>4, Taken
      <4>2. StampsTaken(c)' = StampsTaken(c) \cup T /\ Cardinality(StampsTaken(c) \cap T) = 0
        BY <3>3, <3>4, FS_EmptySet
      <4> HIDE DEF T
      <4>3. /\ IsFiniteSet(StampsTaken(c) \cup T)
            /\ Cardinality(StampsTaken(c) \cup T)
                 = Cardinality(StampsTaken(c)) + Cardinality(T) - Cardinality(StampsTaken(c) \cap T)
        BY <2>1, <4>1, FS_Union
      <4> QED
        BY <1>4, <2>1, <4>1, <4>2, <4>3
    <3>6. balance[c].stamps' = balance[c].stamps - cost /\ balance[c].stamps \in Nat
      BY <1>1, <1>2, <2>3
    <3> QED
      BY <1>4, <2>1, <2>2, <3>5, <3>6
  <2>4. CASE c # d
    <3>1. Of(redemptionRows, c)' = Of(redemptionRows, c)
      BY <1>1, <2>4 DEF Of
    <3>2. \A q \in Of(redemptionRows, c) : spent'[q] = spent[q]
      BY <1>3 DEF Of
    <3>3. StampsTaken(c)' = StampsTaken(c)
      BY <3>1, <3>2 DEF StampsTaken
    <3>4. balance[c].stamps' = balance[c].stamps
      BY <1>1, <1>2, <2>4
    <3> QED
      BY <2>1, <2>2, <3>3, <3>4
  <2> QED
    BY <2>3, <2>4
<1> QED
  BY <1>1, <1>5, <1>6 DEF ConservedInv, RowsFinite, BalanceConserved

LEMMA ConservedNext == IInv /\ ConservedInv /\ [Next]_vars => ConservedInv'
<1> SUFFICES ASSUME IInv, ConservedInv, [Next]_vars PROVE ConservedInv'
  OBVIOUS
<1>1. opening' = opening
  BY DEF Next, vars, Handle, Submit, RateLimited, Fail, Authorise, ReadRule, ReadProgram,
         LockBalance, Replay, Reject, Accept, InsertNew, StampConflict, RedeemConflict,
         CommitStamp, CommitRedeem, Respond, Administer, ToggleBusiness, DeactivateOperator,
         SaveProgram, SaveRule, Administrative, Tick, Terminated
<1>2. CASE Unrecorded
  <2>1. \A c \in Customers : \A q \in Of(redemptionRows, c) : spent'[q] = spent[q]
    BY <1>2 DEF Unrecorded, Of
  <2>2. \A c \in Customers : /\ Of(stampRows, c)' = Of(stampRows, c)
                             /\ Of(redemptionRows, c)' = Of(redemptionRows, c)
    BY <1>2 DEF Unrecorded, Of
  <2>3. \A c \in Customers : StampsTaken(c)' = StampsTaken(c)
    BY <2>1, <2>2 DEF StampsTaken
  <2> QED
    BY <1>1, <1>2, <2>2, <2>3 DEF Unrecorded, ConservedInv, RowsFinite, BalanceConserved
<1> QED
  BY <1>1, <1>2, StepCases, ConservedStamp, ConservedRedeem

\* However stamps and redemptions interleave, wait and fail: a balance is
\* its opening stamps and one for each stamp row, less what the recorded
\* redemptions took.
THEOREM BalanceIsTheLedger == Spec => []BalanceConserved
<1>1. ConservedInv => BalanceConserved
  BY DEF ConservedInv
<1> QED
  BY <1>1, ConservedInit, ConservedNext, Invariance, PTL DEF Spec

----------------------------------------------------------------------------
\* A request that was sent after the operator was deactivated: the operator
\* stays deactivated, and the request does not get past the authorisation.
LateInv ==
    \A r \in Requests : late[r] =>
        ~operatorActive /\ pc[r] \in {"begin", "done"} /\ r \notin stampRows \cup redemptionRows

LEMMA LateNext == IInv /\ LateInv /\ [Next]_vars => LateInv'
<1> SUFFICES ASSUME IInv, LateInv, [Next]_vars PROVE LateInv'
  OBVIOUS
<1>0. pc \in [Requests -> PCs] /\ late \in [Requests -> BOOLEAN]
  BY DEF IInv, TypeOK
<1>1. ASSUME operatorActive' => operatorActive, UNCHANGED <<late, pc, stampRows, redemptionRows>>
      PROVE  LateInv'
  BY <1>1 DEF LateInv
<1>2. ASSUME NEW r \in Requests, late'[r] = late[r], UNCHANGED operatorActive,
             \A q \in Requests : q # r => late'[q] = late[q] /\ pc'[q] = pc[q],
             stampRows' \subseteq stampRows \cup {r},
             redemptionRows' \subseteq redemptionRows \cup {r},
             late[r] => pc'[r] = "done" /\ r \notin stampRows' \cup redemptionRows'
      PROVE  LateInv'
  BY <1>2 DEF LateInv
<1>3. ASSUME NEW r \in Requests, Submit(r) PROVE LateInv'
  <2>1. /\ pc' = [pc EXCEPT ![r] = "begin"] /\ pc[r] = "idle"
        /\ late' = [late EXCEPT ![r] = ~operatorActive]
        /\ UNCHANGED <<operatorActive, stampRows, redemptionRows>>
    BY <1>3 DEF Submit, Goto, config, tables
  <2>2. r \notin stampRows \cup redemptionRows
    BY <2>1, NoRowYet
  <2>3. pc'[r] = "begin" /\ \A q \in Requests : q # r => pc'[q] = pc[q] /\ late'[q] = late[q]
    BY <1>0, <2>1
  <2>4. late'[r] = ~operatorActive
    BY <1>0, <2>1, Zenon
  <2> QED
    BY <2>1, <2>2, <2>3, <2>4 DEF LateInv
<1>4. ASSUME NEW r \in Requests, NEW answer, Finish(r, answer),
             UNCHANGED <<operatorActive, late, stampRows, redemptionRows>>
      PROVE  LateInv'
  <2>1. pc'[r] = "done" /\ \A q \in Requests : q # r => pc'[q] = pc[q]
    BY <1>0, <1>4 DEF Finish
  <2> QED
    BY <1>2, <1>4, <2>1 DEF LateInv
<1>5. ASSUME NEW r \in Requests, NEW from, NEW to, Goto(r, from, to), from # "begin",
             from # "done", UNCHANGED <<operatorActive, late>>,
             stampRows' \subseteq stampRows \cup {r},
             redemptionRows' \subseteq redemptionRows \cup {r}
      PROVE  LateInv'
  <2>1. ~late[r]
    BY <1>5 DEF Goto, LateInv
  <2>2. \A q \in Requests : q # r => pc'[q] = pc[q]
    BY <1>0, <1>5 DEF Goto
  <2> QED
    BY <1>2, <1>5, <2>1, <2>2
<1>6. ASSUME NEW r \in Requests,
             \/ RateLimited(r) \/ Fail(r) \/ Replay(r) \/ Reject(r)
             \/ StampConflict(r) \/ RedeemConflict(r) \/ Respond(r)
      PROVE  LateInv'
  <2>1. PICK answer : Finish(r, answer)
    BY <1>6 DEF RateLimited, Fail, Replay, Reject, StampConflict, RedeemConflict, Respond
  <2>2. UNCHANGED <<operatorActive, late, stampRows, redemptionRows>>
    BY <1>6 DEF RateLimited, Fail, Replay, Reject, StampConflict, RedeemConflict, Respond,
                config, tables
  <2> QED
    BY <1>4, <2>1, <2>2
<1>7. ASSUME NEW r \in Requests, Authorise(r) PROVE LateInv'
  <2>1. UNCHANGED <<operatorActive, late, stampRows, redemptionRows>>
    BY <1>7 DEF Authorise, config, tables
  <2>2. CASE businessActive /\ operatorActive
    <3>1. ~late[r] /\ \A q \in Requests : q # r => pc'[q] = pc[q]
      BY <1>0, <1>7, <2>2 DEF Authorise, Goto, LateInv
    <3> QED
      BY <1>2, <2>1, <3>1
  <2>3. CASE ~(businessActive /\ operatorActive)
    BY <1>4, <1>7, <2>1, <2>3 DEF Authorise
  <2> QED
    BY <2>2, <2>3
<1>8. ASSUME NEW r \in Requests, ReadProgram(r) PROVE LateInv'
  <2>1. UNCHANGED <<operatorActive, late, stampRows, redemptionRows>>
    BY <1>8 DEF ReadProgram, config, tables
  <2>2. CASE req[r].kind = "redeem" /\ ~program.active
    BY <1>4, <1>8, <2>1, <2>2 DEF ReadProgram
  <2>3. CASE ~(req[r].kind = "redeem" /\ ~program.active)
    <3>1. Goto(r, "program", "lock")
      BY <1>8, <2>3 DEF ReadProgram
    <3> QED
      BY <1>5, <2>1, <3>1
  <2> QED
    BY <2>2, <2>3
<1>9. ASSUME NEW r \in Requests, ReadRule(r) PROVE LateInv'
  BY <1>5, <1>9 DEF ReadRule, config, tables
<1>10. ASSUME NEW r \in Requests, LockBalance(r) PROVE LateInv'
  BY <1>5, <1>10 DEF LockBalance, config, tables
<1>11. ASSUME NEW r \in Requests, Accept(r) PROVE LateInv'
  BY <1>5, <1>11 DEF Accept, config, tables
<1>12. ASSUME NEW r \in Requests, InsertNew(r) PROVE LateInv'
  BY <1>5, <1>12 DEF InsertNew, config, tables
<1>13. ASSUME NEW r \in Requests, CommitStamp(r) PROVE LateInv'
  BY <1>5, <1>13 DEF CommitStamp, config
<1>14. ASSUME NEW r \in Requests, CommitRedeem(r) PROVE LateInv'
  BY <1>5, <1>14 DEF CommitRedeem, config
<1>15. CASE Administer \/ Tick
  <2>1. UNCHANGED <<late, pc, stampRows, redemptionRows>>
    BY <1>15 DEF Administer, ToggleBusiness, DeactivateOperator, SaveProgram, SaveRule,
                 Administrative, Tick, tables, local
  <2>2. operatorActive' => operatorActive
    BY <1>15 DEF Administer, ToggleBusiness, DeactivateOperator, SaveProgram, SaveRule,
                 Tick, config
  <2> QED
    BY <1>1, <2>1, <2>2
<1>16. CASE UNCHANGED vars
  BY <1>1, <1>16 DEF vars, config, tables, local
<1> QED
  BY <1>3, <1>6, <1>7, <1>8, <1>9, <1>10, <1>11, <1>12, <1>13, <1>14, <1>15, <1>16
     DEF Next, Handle, Terminated

\* A request sent after the operator was deactivated has no effect, however
\* long it waits and whatever the owner does meanwhile.
THEOREM RevocationHolds == Spec => []RevokedNeverActs
<1>1. Init => LateInv
  BY DEF Init, LateInv
<1>2. LateInv => RevokedNeverActs
  BY DEF LateInv, RevokedNeverActs
<1> QED
  BY <1>1, <1>2, Invariance, LateNext, PTL DEF Spec

----------------------------------------------------------------------------
(* The refinement.                                                         *)

\* Names of the ledger's state, as the scanner's tables give it.
Stamps == [c \in Customers |-> balance[c].stamps]
LastStamp == [c \in Customers |-> balance[c].last]
StampEntry(r) == [id |-> r, customer |-> req[r].customer, key |-> req[r].key, at |-> at[r]]
StampLog == {StampEntry(r) : r \in stampRows}
RedemptionEntry(r) ==
    [id |-> r, customer |-> req[r].customer, key |-> req[r].key, cost |-> spent[r]]
RedemptionLog == {RedemptionEntry(r) : r \in redemptionRows}

LEMMA LedgerInit == Init => Ledger!Init
<1> SUFFICES ASSUME Init PROVE Ledger!Init
  OBVIOUS
<1>1. \A c \in Customers : balance[c].stamps \in Nat /\ balance[c].last = Never
  BY BoundsAssumption DEF Init
<1>2. stampRows = {} /\ redemptionRows = {}
  BY DEF Init
<1> QED
  BY <1>1, <1>2 DEF Ledger!Init

\* The commit of a stamp is an entry of the ledger: its key is unused there,
\* because no two requests claim one.
LEMMA LedgerStamp ==
    ASSUME IInv, NEW r \in Requests, CommitStamp(r)
    PROVE  Ledger!Next
<1>0. req[r].customer \in Customers /\ req[r].key \in Keys /\ at[r] \in 0..MaxTime
  BY DEF IInv, TypeOK, Inputs
<1> PICK c \in Customers, k \in Keys, t \in 0..MaxTime :
        c = req[r].customer /\ k = req[r].key /\ t = at[r]
  BY <1>0
<1>1. /\ req[r].kind = "stamp" /\ c \in Customers
      /\ r \notin stampRows /\ stampRows' = stampRows \cup {r}
      /\ UNCHANGED <<redemptionRows, req, at, spent>>
      /\ balance' = [balance EXCEPT ![c] = [stamps |-> balance[c].stamps + 1, last |-> t]]
      /\ balance[c].last # Never => t >= balance[c].last + MinStampGap
  BY StampEffect
<1>2. balance \in [Customers -> [stamps : Nat, last : Time]]
  BY DEF IInv, TypeOK
<1>4. \A q \in stampRows : req[q].key # k
  <2> SUFFICES ASSUME NEW q \in stampRows, req[q].key = k PROVE FALSE
    OBVIOUS
  <2>1. q \in Requests /\ req[q].kind = "stamp" /\ Claims(q)
    BY DEF IInv, TypeOK, RowsInv, Claims
  <2>2. Claims(r)
    BY DEF CommitStamp, Goto, Claims
  <2> QED
    BY <1>1, <2>1, <2>2 DEF IInv, KeysInv
<1>5. Stamps' = [Stamps EXCEPT ![c] = @ + 1]
  BY <1>1, <1>2 DEF Stamps
<1>6. LastStamp' = [LastStamp EXCEPT ![c] = t]
  BY <1>1, <1>2 DEF LastStamp
<1>7. StampLog' = StampLog \cup {[id |-> r, customer |-> c, key |-> k, at |-> t]}
  BY <1>1 DEF StampLog, StampEntry
<1>8. RedemptionLog' = RedemptionLog
  BY <1>1 DEF RedemptionLog, RedemptionEntry
<1>9. Ledger!Unused(k, StampLog)
  BY <1>4 DEF Ledger!Unused, StampLog, StampEntry
<1>10. LastStamp[c] # Never => t >= LastStamp[c] + MinStampGap
  BY <1>1 DEF LastStamp
<1>11. Ledger!Stamp(r, c, k, t)
  BY <1>5, <1>6, <1>7, <1>8, <1>9, <1>10
     DEF Ledger!Stamp, Stamps, LastStamp, StampLog, StampEntry, RedemptionLog, RedemptionEntry
<1> QED
  BY <1>11 DEF Ledger!Next

\* The commit of a redemption is an entry of the ledger, paid by the balance.
LEMMA LedgerRedeem ==
    ASSUME IInv, NEW r \in Requests, CommitRedeem(r)
    PROVE  Ledger!Next
<1>0. req[r].customer \in Customers /\ req[r].key \in Keys /\ seen[r].cost \in Costs
  BY RedeemEffect DEF IInv, TypeOK, Inputs
<1> PICK c \in Customers, k \in Keys, cost \in Costs :
        c = req[r].customer /\ k = req[r].key /\ cost = seen[r].cost
  BY <1>0
<1>1. /\ req[r].kind = "redeem" /\ c \in Customers
      /\ r \notin redemptionRows /\ redemptionRows' = redemptionRows \cup {r}
      /\ UNCHANGED <<stampRows, req, at>>
      /\ cost \in Costs /\ cost <= balance[c].stamps
      /\ spent' = [spent EXCEPT ![r] = cost]
      /\ balance' = [balance EXCEPT ![c].stamps = balance[c].stamps - cost]
  BY RedeemEffect
<1>2. /\ balance \in [Customers -> [stamps : Nat, last : Time]]
      /\ spent \in [Requests -> Costs \cup {0}] /\ redemptionRows \subseteq Requests
  BY DEF IInv, TypeOK
<1>4. \A q \in redemptionRows : req[q].key # k
  <2> SUFFICES ASSUME NEW q \in redemptionRows, req[q].key = k PROVE FALSE
    OBVIOUS
  <2>1. q \in Requests /\ req[q].kind = "redeem" /\ Claims(q)
    BY DEF IInv, TypeOK, RowsInv, Claims
  <2>2. Claims(r)
    BY DEF CommitRedeem, Goto, Claims
  <2> QED
    BY <1>1, <2>1, <2>2 DEF IInv, KeysInv
<1>5. Stamps' = [Stamps EXCEPT ![c] = @ - cost]
  BY <1>1, <1>2 DEF Stamps
<1>6. LastStamp' = LastStamp
  BY <1>1, <1>2 DEF LastStamp
<1>7. StampLog' = StampLog
  BY <1>1 DEF StampLog, StampEntry
<1>8. RedemptionLog' = RedemptionLog
        \cup {[id |-> r, customer |-> c, key |-> k, cost |-> cost]}
  <2>1. spent'[r] = cost /\ \A q \in redemptionRows : spent'[q] = spent[q]
    BY <1>1, <1>2
  <2>2. req' = req /\ redemptionRows' = redemptionRows \cup {r}
    BY <1>1
  <2> QED
    BY <2>1, <2>2 DEF RedemptionLog, RedemptionEntry
<1>9. Ledger!Unused(k, RedemptionLog)
  BY <1>4 DEF Ledger!Unused, RedemptionLog, RedemptionEntry
<1>10. Stamps[c] >= cost
  <2>1. cost \in Nat /\ balance[c].stamps \in Nat
    BY <1>1, <1>2, CostsAssumption
  <2> QED
    BY <1>1, <2>1 DEF Stamps
<1>11. Ledger!Redeem(r, c, k, cost)
  BY <1>5, <1>6, <1>7, <1>8, <1>9, <1>10
     DEF Ledger!Redeem, Stamps, LastStamp, StampLog, StampEntry, RedemptionLog, RedemptionEntry
<1> QED
  BY <1>11 DEF Ledger!Next

\* A step that records nothing leaves the ledger as it is.
LEMMA LedgerStutter ==
    ASSUME IInv, Unrecorded
    PROVE  UNCHANGED Ledger!vars
<1>1. /\ UNCHANGED <<balance, stampRows, redemptionRows, req>>
      /\ \A r \in stampRows : at'[r] = at[r]
      /\ \A r \in redemptionRows : spent'[r] = spent[r]
  BY DEF Unrecorded
<1>2. Stamps' = Stamps /\ LastStamp' = LastStamp
  BY <1>1 DEF Stamps, LastStamp
<1>3. StampLog' = StampLog
  BY <1>1 DEF StampLog, StampEntry
<1>4. RedemptionLog' = RedemptionLog
  BY <1>1 DEF RedemptionLog, RedemptionEntry
<1> QED
  BY <1>2, <1>3, <1>4
     DEF Ledger!vars, Stamps, LastStamp, StampLog, StampEntry, RedemptionLog, RedemptionEntry

\* The concurrent transactions are the ledger: initial states map to initial
\* states, a commit to the entry it records, and every other step to none.
THEOREM ScannerIsALedger == Spec => ImplementsLedger
<1>1. ASSUME IInv, [Next]_vars PROVE [Ledger!Next]_(Ledger!vars)
  BY <1>1, StepCases, LedgerStutter, LedgerStamp, LedgerRedeem
<1> QED
  BY <1>1, LedgerInit, Invariance, PTL DEF Spec, ImplementsLedger, Ledger!Spec
=============================================================================
