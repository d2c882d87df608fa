---------------------------- MODULE OwnerProofs ----------------------------
(***************************************************************************)
(* What holds of OwnerConsole for every set of requests, any length of a   *)
(* month and any limits of the plans.  The argument: the row lock leaves   *)
(* one promotion at a time between its counts and its commit, so neither   *)
(* the promotions nor the plan it counted with change under it, and what   *)
(* it found of the quota is still true when it commits.                    *)
(***************************************************************************)
EXTENDS OwnerConsole, FiniteSetTheorems, WellFoundedInduction, TLAPS

Counting(r) == req[r].kind = "promo" /\ req[r].pc \in {"read", "written"}

\* One promotion at a time holds the row of its business.
OneHolder == \A r, q \in Requests : Counting(r) /\ Counting(q) => r = q

\* What a promotion read under the lock stays true until it commits.
QuotaInv ==
    \A r \in Requests : Counting(r) =>
        /\ plan # "basico"
        /\ req[r].pc = "written" => QuotaLeft(r)

\* A request updates rows that are there, or makes one of a program that is.
RowsInv ==
    \A r \in Requests :
        /\ req[r].kind = None => req[r].pc = "idle"
        /\ req[r].pc = "idle" => req[r].found = None
        /\ req[r].kind = "program" /\ req[r].found # None => programs[req[r].found] # None
        /\ req[r].kind \in {"rule", "toggle"} /\ req[r].target # None => rules[req[r].target] # None
        /\ req[r].kind = "toggle" => req[r].target # None
        /\ /\ req[r].kind = "rule" /\ req[r].target = None
           /\ req[r].pc \in {"read", "written"}
           => req[r].found # None

\* Only promotions that were committed are announced.
SentInv ==
    \A r \in Requests :
        /\ req[r].kind = "promo" /\ req[r].pc = "sent" => \E i \in DOMAIN promos : promos[i].by = r
        /\ posted[r] > 0 => Announces(r)

IInv == TypeOK /\ RowsInv /\ OneHolder /\ QuotaInv /\ DailyLimitHolds /\ SentInv

\* The steps of a request that change it: all but the announcements.
Acts(r) ==
    \/ Begin(r) \/ Fail(r)
    \/ ReadProgram(r) \/ ReadForRule(r) \/ ReadForToggle(r) \/ Write(r) \/ Commit(r)
    \/ LockBusiness(r) \/ InsertPromo(r) \/ CommitPromo(r)

----------------------------------------------------------------------------
(* Type correctness.                                                       *)

\* With no request sent and empty tables the invariant holds.
LEMMA InitInv == Init => IInv
<1> SUFFICES ASSUME Init PROVE IInv
  OBVIOUS
<1>1. TypeOK
  BY NumbersAssumption DEF Init, TypeOK, Plans, Request, Pcs, Stamps
<1>2. DailyLimitHolds
  <2> SUFFICES ASSUME NEW day \in 0..MaxDay PROVE Cardinality(OfDay(day)) <= DailyLimit
    BY DEF DailyLimitHolds
  <2>1. OfDay(day) = {}
    BY DEF Init, OfDay
  <2> QED
    BY <2>1, FS_EmptySet DEF DailyLimit
<1> QED
  BY <1>1, <1>2, NoneAssumption DEF Init, IInv, RowsInv, Kinds, Announces, OneHolder, QuotaInv, SentInv, Counting, Created

\* A set of numbers has a least one: the intervals below them are ordered by
\* inclusion, which is well-founded on finite sets.
LEMMA Least ==
    ASSUME NEW S \in SUBSET Nat, S # {}
    PROVE  \E n \in S : \A k \in S : n <= k
<1> DEFINE below == {0..n : n \in S}
<1>1. below \subseteq FiniteSubsetsOf(Nat) /\ below # {}
  <2> SUFFICES ASSUME NEW n \in S PROVE 0..n \in FiniteSubsetsOf(Nat)
    OBVIOUS
  <2>1. IsFiniteSet(0..n)
    BY FS_Interval
  <2>2. 0..n \subseteq Nat
    OBVIOUS
  <2> QED
    BY <2>1, <2>2 DEF FiniteSubsetsOf
<1>2. PICK T \in below : \A U \in below : <<U, T>> \notin StrictSubsetOrdering(Nat)
  <2>1. IsWellFoundedOn(StrictSubsetOrdering(Nat), FiniteSubsetsOf(Nat))
    BY FS_StrictSubsetOrderingWellFounded
  <2> HIDE DEF below
  <2> QED
    BY <1>1, <2>1, WFMin
<1>3. PICK n \in S : T = 0..n
  OBVIOUS
<1>4. ASSUME NEW k \in S, k < n PROVE FALSE
  <2>1. 0..k \in below /\ 0..k \subseteq Nat /\ 0..n \subseteq Nat
    OBVIOUS
  <2>2. 0..k \subseteq 0..n
    BY <1>4
  <2>3. n \in 0..n /\ n \notin 0..k
    BY <1>4
  <2>4. <<0..k, 0..n>> \in StrictSubsetOrdering(Nat)
    BY <2>1, <2>2, <2>3, Zenon DEF StrictSubsetOrdering
  <2> QED
    BY <1>2, <1>3, <2>1, <2>4
<1>5. \A k \in S : n <= k
  BY <1>4
<1> QED
  BY <1>5

\* The current program is one that exists.
LEMMA CurrentExists ==
    ASSUME IInv, Current # None
    PROVE  Current \in Requests /\ programs[Current] # None /\ programs[Current] \in Program
<1> DEFINE orders == {programs[p].order : p \in Created(programs)}
<1>1. \A p \in Created(programs) : p \in Requests /\ programs[p] # None /\ programs[p] \in Program
  BY DEF Created, IInv, TypeOK
<1>2. \A p \in Created(programs) : programs[p].order \in Nat
  BY <1>1 DEF Program
<1>3. Created(programs) # {}
  BY DEF Current
<1>4. orders \subseteq Nat /\ orders # {}
  BY <1>2, <1>3
<1>5. PICK n \in orders : \A k \in orders : n <= k
  <2> HIDE DEF orders
  <2> QED
    BY <1>4, Least
<1>6. \E p \in Created(programs) :
        \A q \in Created(programs) : programs[p].order <= programs[q].order
  BY <1>5
<1>7. Current \in Created(programs)
  BY <1>3, <1>6 DEF Current
<1> QED
  BY <1>1, <1>7

\* A request whose rule or program is updated has it at hand.
LEMMA RowExists ==
    ASSUME IInv, NEW r \in Requests, req[r].pc = "written"
    PROVE  /\ req[r].kind = "program" /\ RowOf(r) # None => programs[EntityOf(r)] \in Program
           /\ req[r].kind \in {"rule", "toggle"} /\ RowOf(r) # None => rules[EntityOf(r)] \in Rule
           /\ req[r].kind = "toggle" => RowOf(r) # None
           /\ req[r].kind = "rule" /\ RowOf(r) = None => req[r].found \in Requests
           /\ EntityOf(r) \in Requests
<1>1. req[r] \in Request
  BY DEF IInv, TypeOK
<1>2. /\ programs \in [Requests -> Program \cup {None}]
      /\ rules \in [Requests -> Rule \cup {None}]
  BY DEF IInv, TypeOK
<1>3. /\ req[r].found \in Requests \cup {None} /\ req[r].target \in Requests \cup {None}
      /\ RowOf(r) \in Requests \cup {None}
  BY <1>1 DEF Request, RowOf
<1> QED
  BY <1>2, <1>3 DEF IInv, RowsInv, RowOf, EntityOf

\* Whatever a request does, it becomes a request.
LEMMA Becoming ==
    ASSUME IInv, NEW r \in Requests, Acts(r)
    PROVE  \E x \in Request : Become(r, x)
<1>1. req[r] \in Request
  BY DEF IInv, TypeOK
<1>2. \A pc \in Pcs : [req[r] EXCEPT !.pc = pc] \in Request
  BY <1>1 DEF Request
<1>3. today \in 0..MaxDay /\ began \in Nat
  BY DEF IInv, TypeOK
<1>4. CASE Begin(r)
  <2>1. PICK kind \in Kinds, n \in Stamps, target \in Created(rules) \cup {None} :
          Become(r, [req[r] EXCEPT !.kind = kind, !.pc = "begun", !.stamps = n,
                                   !.target = target, !.order = began + 1, !.day = today])
    BY <1>4 DEF Begin
  <2>2. target \in Requests \cup {None} /\ "begun" \in Pcs
    BY DEF Created, Pcs
  <2>3. kind \in Kinds \cup {None} /\ began + 1 \in Nat /\ today \in 0..MaxDay
    BY <1>3
  <2>4. [req[r] EXCEPT !.kind = kind, !.pc = "begun", !.stamps = n, !.target = target,
                       !.order = began + 1, !.day = today] \in Request
    BY <1>1, <2>2, <2>3 DEF Request
  <2> QED
    BY <2>1, <2>4
<1>5. CASE Fail(r) \/ Write(r) \/ InsertPromo(r)
  BY <1>2, <1>5 DEF Fail, Write, InsertPromo, Refuse, Pcs
<1>6. CASE ReadProgram(r)
  <2>1. Current \in Requests \cup {None}
    BY CurrentExists
  <2>2. [req[r] EXCEPT !.found = Current, !.pc = "read"] \in Request
    BY <1>1, <2>1 DEF Request, Pcs
  <2> QED
    BY <1>6, <2>2 DEF ReadProgram
<1>7. CASE ReadForRule(r)
  <2>1. (IF req[r].target = None THEN Current ELSE None) \in Requests \cup {None}
    BY CurrentExists
  <2>2. \A p \in Requests \cup {None} : [req[r] EXCEPT !.pc = "read", !.found = p] \in Request
    BY <1>1 DEF Request, Pcs
  <2> QED
    BY <1>2, <1>7, <2>1, <2>2 DEF ReadForRule, Refuse, Pcs
<1>8. CASE ReadForToggle(r)
  <2>1. rules[req[r].target] \in Rule
    <3>1. req[r].target \in Requests /\ rules[req[r].target] # None
      BY <1>1, <1>8 DEF ReadForToggle, IInv, RowsInv, Request
    <3> QED
      BY <3>1 DEF IInv, TypeOK
  <2>2. rules[req[r].target].active \in BOOLEAN
    BY <2>1 DEF Rule
  <2>3. \A b \in BOOLEAN : [req[r] EXCEPT !.active = b, !.pc = "read"] \in Request
    BY <1>1 DEF Request, Pcs
  <2> QED
    BY <1>8, <2>2, <2>3 DEF ReadForToggle
<1>9. CASE Commit(r) \/ CommitPromo(r)
  BY <1>2, <1>9 DEF Commit, CommitPromo, Pcs
<1>10. CASE LockBusiness(r)
  <2>1. [req[r] EXCEPT !.pc = "read", !.seen = today] \in Request
    BY <1>1, <1>3 DEF Request, Pcs
  <2> QED
    BY <1>2, <1>10, <2>1 DEF LockBusiness, Refuse, Pcs
<1> QED
  BY <1>4, <1>5, <1>6, <1>7, <1>8, <1>9, <1>10 DEF Acts

\* A request that begins: a form of some kind, with a rule that is there.
LEMMA BeginFields ==
    ASSUME IInv, NEW r \in Requests, Begin(r)
    PROVE  /\ req'[r].pc = "begun" /\ req'[r].kind \in Kinds /\ req'[r].found = req[r].found
           /\ req[r].pc = "idle"
           /\ req'[r].target # None => rules[req'[r].target] # None
           /\ req'[r].kind = "toggle" => req'[r].target # None
<1>1. req[r] \in Request /\ req \in [Requests -> Request] /\ req[r].pc = "idle"
  BY DEF IInv, TypeOK, Begin
<1>2. PICK kind \in Kinds, n \in Stamps, target \in Created(rules) \cup {None} :
        /\ kind = "toggle" => target # None
        /\ Become(r, [req[r] EXCEPT !.kind = kind, !.pc = "begun", !.stamps = n,
                                    !.target = target, !.order = began + 1, !.day = today])
  BY DEF Begin
<1>3. /\ req'[r].pc = "begun" /\ req'[r].kind = kind /\ req'[r].target = target
      /\ req'[r].found = req[r].found
  BY <1>1, <1>2 DEF Become, Request
<1>4. target # None => rules[target] # None
  BY DEF Created
<1> QED
  BY <1>1, <1>2, <1>3, <1>4

\* The other requests stay what they are.
LEMMA Others ==
    ASSUME IInv, NEW r \in Requests, Acts(r)
    PROVE  \A q \in Requests \ {r} : req'[q] = req[q]
BY Becoming DEF IInv, TypeOK, Become

\* Only the two commits write to the tables.
LEMMA Effects ==
    ASSUME NEW r \in Requests, Acts(r)
    PROVE  /\ today' = today /\ plan' = plan /\ posted' = posted
           /\ began' = began \/ began' = began + 1
           /\ Commit(r) \/ (programs' = programs /\ rules' = rules)
           /\ CommitPromo(r) \/ promos' = promos
           /\ Commit(r) \/ CommitPromo(r) \/ audit' = audit
BY DEF Acts, Begin, Fail, ReadProgram, ReadForRule, ReadForToggle, Write, Commit,
       LockBusiness, InsertPromo, CommitPromo, Refuse, Unchanged

\* What a commit of a program, of a rule or of a toggle makes of the two tables.
LEMMA CommitTables ==
    ASSUME IInv, NEW r \in Requests, Commit(r)
    PROVE  /\ programs' \in [Requests -> Program \cup {None}]
           /\ rules' \in [Requests -> Rule \cup {None}]
           /\ \A q \in Requests : (programs[q] # None => programs'[q] # None)
                               /\ (rules[q] # None => rules'[q] # None)
<1> DEFINE e == EntityOf(r)
<1>1. /\ programs \in [Requests -> Program \cup {None}]
      /\ rules \in [Requests -> Rule \cup {None}]
      /\ None \notin Program /\ None \notin Rule
  BY NoneAssumption DEF IInv, TypeOK
<1>2. req[r].pc = "written" /\ e \in Requests
  BY RowExists DEF Commit
<1>3. req[r].order \in Nat /\ req[r].stamps \in Stamps /\ req[r].kind \in {"program", "rule", "toggle"}
  BY <1>2 DEF IInv, TypeOK, RowsInv, Request, Kinds, Commit
<1>4. CASE req[r].kind = "program"
  <2>1. PICK x : programs' = [programs EXCEPT ![e] = x] /\ rules' = rules
                 /\ x = [order |-> IF RowOf(r) = None THEN req[r].order ELSE programs[e].order,
                         stamps |-> req[r].stamps]
    BY <1>4 DEF Commit
  <2>2. x \in Program
    BY <1>2, <1>3, <1>4, <2>1, RowExists DEF Program
  <2> HIDE DEF e
  <2> QED
    BY <1>1, <1>2, <2>1, <2>2
<1>5. CASE req[r].kind = "rule"
  <2>1. PICK x : rules' = [rules EXCEPT ![e] = x] /\ programs' = programs
                 /\ x = IF RowOf(r) = None
                        THEN [program |-> req[r].found, stamps |-> req[r].stamps, active |-> TRUE]
                        ELSE [rules[e] EXCEPT !.stamps = req[r].stamps]
    BY <1>5 DEF Commit
  <2>2. x \in Rule
    BY <1>2, <1>3, <1>5, <2>1, RowExists DEF Rule
  <2> HIDE DEF e
  <2> QED
    BY <1>1, <1>2, <2>1, <2>2
<1>6. CASE req[r].kind = "toggle"
  <2>1. PICK x : rules' = [rules EXCEPT ![e] = x] /\ programs' = programs
                 /\ x = [rules[e] EXCEPT !.active = ~req[r].active]
    BY <1>6 DEF Commit
  <2>2. rules[e] \in Rule
    BY <1>2, <1>6, RowExists
  <2>3. x \in Rule
    BY <2>1, <2>2 DEF Rule
  <2> HIDE DEF e
  <2> QED
    BY <1>1, <1>2, <2>1, <2>3
<1> QED
  BY <1>3, <1>4, <1>5, <1>6

\* Every step keeps the types.
LEMMA TypeStep == IInv /\ [Next]_vars => TypeOK'
<1> SUFFICES ASSUME IInv, [Next]_vars PROVE TypeOK'
  OBVIOUS
<1>1. TypeOK
  BY DEF IInv
<1>2. CASE UNCHANGED vars
  BY <1>1, <1>2 DEF TypeOK, vars
<1>3. CASE ChangePlan \/ Midnight
  BY <1>1, <1>3, NumbersAssumption DEF TypeOK, ChangePlan, Midnight
<1>4. CASE \E r \in Requests : Announce(r)
  BY <1>1, <1>4 DEF TypeOK, Announce
<1>5. ASSUME NEW r \in Requests, Acts(r) PROVE TypeOK'
  <2>1. req' \in [Requests -> Request]
    BY <1>1, <1>5, Becoming DEF TypeOK, Become
  <2>2. programs' \in [Requests -> Program \cup {None}] /\ rules' \in [Requests -> Rule \cup {None}]
    BY <1>1, <1>5, Effects, CommitTables DEF TypeOK
  <2>3. promos' \in Seq(Promo)
    <3>1. [by |-> r, day |-> req[r].day, seen |-> req[r].seen] \in Promo
      BY <1>1 DEF TypeOK, Request, Promo
    <3>2. promos \in Seq(Promo)
      BY <1>1 DEF TypeOK
    <3>3. CASE CommitPromo(r)
      BY <3>1, <3>2, <3>3 DEF CommitPromo
    <3> QED
      BY <1>5, <3>2, <3>3, Effects
  <2>4. audit' \in Seq(Entry)
    <3>1. CASE Commit(r) \/ CommitPromo(r)
      <4>1. req[r].pc = "written" /\ req[r].kind \in Kinds
        BY <1>1, <3>1 DEF TypeOK, IInv, RowsInv, Request, Commit, CommitPromo
      <4>2. EntryOf(r) \in Entry
        BY <1>1, <4>1, RowExists DEF EntryOf, Entry, TypeOK, Request
      <4>3. audit \in Seq(Entry) /\ audit' = Append(audit, EntryOf(r))
        BY <1>1, <3>1 DEF TypeOK, Commit, CommitPromo
      <4> QED
        BY <4>2, <4>3
    <3> QED
      BY <1>1, <1>5, <3>1, Effects DEF TypeOK
  <2> QED
    BY <1>1, <1>5, <2>1, <2>2, <2>3, <2>4, Effects DEF TypeOK
<1> QED
  BY <1>2, <1>3, <1>4, <1>5 DEF Next, Acts

----------------------------------------------------------------------------
(* The row lock.                                                           *)

\* Who holds the row held it, or finds it free; and an insertion found a quota.
LEMMA Holder ==
    ASSUME IInv, NEW r \in Requests, Acts(r), Counting(r)'
    PROVE  /\ promos' = promos
           /\ \/ ~BusinessLocked(r) /\ plan # "basico" /\ req'[r].pc = "read"
              \/ Counting(r) /\ req'[r].pc = "read" /\ req[r].pc = "read"
              \/ Counting(r) /\ QuotaLeft(r) /\ req'[r].seen = req[r].seen
<1>1. req[r] \in Request /\ req \in [Requests -> Request]
  BY DEF IInv, TypeOK
<1>2. CASE LockBusiness(r)
  BY <1>1, <1>2 DEF LockBusiness, Counting, Refuse, Become, Unchanged, Request
<1>3. CASE InsertPromo(r)
  BY <1>1, <1>3 DEF InsertPromo, Counting, Refuse, Become, Unchanged, Request
<1>4. CASE Begin(r) \/ Fail(r) \/ CommitPromo(r)
  <2>1. CASE Fail(r) \/ CommitPromo(r)
    BY <1>1, <2>1 DEF Fail, CommitPromo, Counting, Become, Request
  <2>2. CASE Begin(r)
    BY <2>2, BeginFields DEF Counting
  <2> QED
    BY <1>4, <2>1, <2>2
<1>5. CASE ReadProgram(r) \/ ReadForRule(r) \/ ReadForToggle(r) \/ Write(r) \/ Commit(r)
  <2>1. req[r].kind # "promo"
    BY <1>5 DEF ReadProgram, ReadForRule, ReadForToggle, Write, Commit
  <2>2. req'[r].kind = req[r].kind
    BY <1>1, <1>5 DEF ReadProgram, ReadForRule, ReadForToggle, Write, Commit, Refuse, Become, Request
  <2> QED
    BY <2>1, <2>2 DEF Counting
<1> QED
  BY <1>2, <1>3, <1>4, <1>5 DEF Acts

\* While a promotion holds the row no other is committed.
LEMMA Shut ==
    ASSUME IInv, NEW r \in Requests, Acts(r), NEW q \in Requests \ {r}, Counting(q)
    PROVE  promos' = promos /\ BusinessLocked(r)
<1>1. ~CommitPromo(r)
  BY DEF IInv, OneHolder, Counting, CommitPromo
<1> QED
  BY <1>1, Effects DEF BusinessLocked, Counting

\* The lock is granted to one promotion at a time.
LEMMA HolderStep == IInv /\ [Next]_vars => OneHolder'
<1> SUFFICES ASSUME IInv, [Next]_vars PROVE OneHolder'
  OBVIOUS
<1>1. CASE req' = req
  BY <1>1 DEF IInv, OneHolder, Counting
<1>2. ASSUME NEW r \in Requests, Acts(r) PROVE OneHolder'
  <2> SUFFICES ASSUME NEW p \in Requests, NEW q \in Requests, Counting(p)', Counting(q)'
               PROVE  p = q
    BY DEF OneHolder
  <2>1. \A o \in Requests \ {r} : Counting(o)' => Counting(o)
    BY <1>2, Others DEF Counting
  <2>2. \A o \in Requests \ {r} : Counting(o) /\ Counting(r)' => FALSE
    BY <1>2, Holder, Shut DEF IInv, OneHolder
  <2> QED
    BY <2>1, <2>2 DEF IInv, OneHolder
<1> QED
  BY <1>1, <1>2 DEF Next, Acts, ChangePlan, Midnight, Announce, vars

\* What a promotion found of the quota stays true while it holds the row.
LEMMA QuotaStep == IInv /\ [Next]_vars => QuotaInv'
<1> SUFFICES ASSUME IInv, [Next]_vars PROVE QuotaInv'
  OBVIOUS
<1>1. CASE req' = req /\ promos' = promos /\ plan' = plan
  BY <1>1 DEF IInv, QuotaInv, Counting, QuotaLeft, SentSince
<1>2. CASE ChangePlan
  <2>1. req' = req /\ \A r \in Requests : ~Counting(r)
    BY <1>2, NoneAssumption DEF ChangePlan, BusinessLocked, Counting
  <2> QED
    BY <2>1 DEF QuotaInv, Counting
<1>3. ASSUME NEW r \in Requests, Acts(r) PROVE QuotaInv'
  <2> SUFFICES ASSUME NEW q \in Requests, Counting(q)'
               PROVE  plan' # "basico" /\ (req'[q].pc = "written" => QuotaLeft(q)')
    BY DEF QuotaInv
  <2>1. plan' = plan
    BY <1>3, Effects
  <2>2. \A o \in Requests : promos' = promos /\ req'[o].seen = req[o].seen /\ QuotaLeft(o)
          => QuotaLeft(o)'
    BY <2>1 DEF QuotaLeft, SentSince
  <2>3. CASE q = r
    BY <1>3, <2>1, <2>2, <2>3, Holder DEF IInv, QuotaInv
  <2>4. CASE q # r
    <3>1. req'[q] = req[q] /\ Counting(q)
      BY <1>3, <2>4, Others DEF Counting
    <3>2. promos' = promos
      BY <1>3, <2>4, <3>1, Shut
    <3> QED
      BY <2>1, <2>2, <3>1, <3>2 DEF IInv, QuotaInv
  <2> QED
    BY <2>3, <2>4
<1> QED
  BY <1>1, <1>2, <1>3 DEF Next, Acts, Midnight, Announce, vars

----------------------------------------------------------------------------
(* The tables.                                                             *)

\* What the steps after the first leave of a request.
LEMMA Fields ==
    ASSUME IInv, NEW r \in Requests, Acts(r), ~Begin(r)
    PROVE  /\ req'[r].kind = req[r].kind /\ req'[r].target = req[r].target
           /\ req[r].pc \in {"begun", "read", "written"} /\ req'[r].pc # "idle"
           /\ \/ req'[r].found = req[r].found
                 /\ (req'[r].pc = "read" => req[r].kind # "rule")
                 /\ (req'[r].pc = "written" => req[r].pc = "read")
              \/ ReadProgram(r) /\ req'[r].found = Current
              \/ /\ ReadForRule(r) /\ Current # None
                 /\ req'[r].found = IF req[r].target = None THEN Current ELSE None
<1> USE DEF Become
<1>1. req[r] \in Request /\ req \in [Requests -> Request]
  BY DEF IInv, TypeOK
<1>2. CASE Fail(r) \/ Write(r) \/ Commit(r) \/ CommitPromo(r) \/ InsertPromo(r)
  <2>1. /\ req[r].pc \in {"begun", "read", "written"}
        /\ \/ Become(r, [req[r] EXCEPT !.pc = "written"]) /\ req[r].pc = "read"
           \/ \E pc \in {"failed", "refused", "sent"} : Become(r, [req[r] EXCEPT !.pc = pc])
    BY <1>2 DEF Fail, InTransaction, Write, Commit, CommitPromo, InsertPromo, Refuse
  <2> QED
    BY <1>1, <2>1 DEF Request
<1>3. CASE ReadProgram(r)
  BY <1>1, <1>3 DEF ReadProgram, Request
<1>4. CASE ReadForRule(r)
  <2>1. CASE Current = None \/ req[r].stamps > programs[Current].stamps
    BY <1>1, <1>4, <2>1 DEF ReadForRule, Refuse, Request
  <2>2. CASE ~(Current = None \/ req[r].stamps > programs[Current].stamps)
    BY <1>1, <1>4, <2>2 DEF ReadForRule, Request
  <2> QED
    BY <2>1, <2>2
<1>5. CASE ReadForToggle(r)
  BY <1>1, <1>5 DEF ReadForToggle, Request
<1>6. CASE LockBusiness(r)
  BY <1>1, <1>6 DEF LockBusiness, Refuse, Request
<1> QED
  BY <1>2, <1>3, <1>4, <1>5, <1>6 DEF Acts

\* Rows are never removed, and requests keep to rows that are there.
LEMMA RowsStep == IInv /\ [Next]_vars => RowsInv'
<1> SUFFICES ASSUME IInv, [Next]_vars PROVE RowsInv'
  OBVIOUS
<1>1. CASE req' = req /\ programs' = programs /\ rules' = rules
  BY <1>1 DEF IInv, RowsInv
<1>2. ASSUME NEW r \in Requests, Acts(r) PROVE RowsInv'
  <2>1. \A p \in Requests : (programs[p] # None => programs'[p] # None)
                         /\ (rules[p] # None => rules'[p] # None)
    BY <1>2, Effects, CommitTables
  <2>2. \A q \in Requests : req[q].found \in Requests \cup {None}
                         /\ req[q].target \in Requests \cup {None}
    BY DEF IInv, TypeOK, Request
  <2>3. \A q \in Requests : req'[q].target \in Requests \cup {None}
    BY TypeStep DEF TypeOK, Request
  <2> DEFINE Rows(q) ==
        /\ req[q].kind = None => req[q].pc = "idle"
        /\ req[q].pc = "idle" => req[q].found = None
        /\ req[q].kind = "program" /\ req[q].found # None => programs[req[q].found] # None
        /\ req[q].kind \in {"rule", "toggle"} /\ req[q].target # None => rules[req[q].target] # None
        /\ req[q].kind = "toggle" => req[q].target # None
        /\ /\ req[q].kind = "rule" /\ req[q].target = None
           /\ req[q].pc \in {"read", "written"}
           => req[q].found # None
  <2>4. \A q \in Requests : Rows(q)
    BY DEF IInv, RowsInv
  <2>5. ASSUME NEW q \in Requests \ {r} PROVE Rows(q)'
    BY <1>2, <2>1, <2>2, <2>4, Others
  <2>6. ASSUME Begin(r) PROVE Rows(r)'
    <3>1. req'[r].found = None /\ req'[r].kind # None
      BY <2>4, <2>6, BeginFields, NoneAssumption
    <3> QED
      BY <2>1, <2>3, <2>6, <3>1, BeginFields
  <2>7. ASSUME ~Begin(r) PROVE Rows(r)'
    <3>1. CASE ReadProgram(r) /\ req'[r].found = Current
      <4>1. req[r].kind = "program" /\ programs' = programs
        BY <1>2, <3>1 DEF ReadProgram, Unchanged
      <4> QED
        BY <1>2, <2>4, <2>7, <3>1, <4>1, Fields, CurrentExists
    <3>2. CASE /\ ReadForRule(r) /\ Current # None
               /\ req'[r].found = IF req[r].target = None THEN Current ELSE None
      <4>1. req[r].kind = "rule" /\ req[r].pc = "begun"
        BY <3>2 DEF ReadForRule
      <4> QED
        BY <1>2, <2>1, <2>2, <2>4, <2>7, <3>2, <4>1, Fields
    <3>3. CASE /\ req'[r].found = req[r].found
               /\ req'[r].pc = "read" => req[r].kind # "rule"
               /\ req'[r].pc = "written" => req[r].pc = "read"
      BY <1>2, <2>1, <2>2, <2>4, <2>7, <3>3, Fields
    <3> QED
      BY <1>2, <2>7, <3>1, <3>2, <3>3, Fields
  <2>8. \A q \in Requests : Rows(q)'
    BY <2>5, <2>6, <2>7
  <2> QED
    BY <2>8 DEF RowsInv
<1> QED
  BY <1>1, <1>2 DEF Next, Acts, ChangePlan, Midnight, Announce, vars

\* A promotion is in the table once it is sent, and only then announced.
LEMMA SentStep == IInv /\ [Next]_vars => SentInv'
<1> SUFFICES ASSUME IInv, [Next]_vars PROVE SentInv'
  OBVIOUS
<1>1. posted \in [Requests -> 0..3] /\ promos \in Seq(Promo) /\ req \in [Requests -> Request]
  BY DEF IInv, TypeOK
<1>2. CASE req' = req /\ posted' = posted /\ promos' = promos
  BY <1>2 DEF IInv, SentInv, Announces
<1>3. ASSUME NEW r \in Requests, Announce(r) PROVE SentInv'
  BY <1>1, <1>3 DEF Announce, Announces, IInv, SentInv
<1>4. ASSUME NEW r \in Requests, Acts(r) PROVE SentInv'
  <2>1. posted' = posted
    BY <1>4, Effects
  <2>2. req[r].pc # "sent"
    BY <1>4, BeginFields, Fields
  <2>3. posted[r] = 0
    BY <1>1, <2>2 DEF IInv, SentInv, Announces
  <2>4. \A i \in DOMAIN promos : i \in DOMAIN promos' /\ promos'[i].by = promos[i].by
    <3>1. CASE CommitPromo(r)
      BY <1>1, <3>1 DEF CommitPromo
    <3> QED
      BY <1>4, <3>1, Effects
  <2>5. req'[r].kind = "promo" /\ req'[r].pc = "sent" => \E i \in DOMAIN promos' : promos'[i].by = r
    <3>1. CASE CommitPromo(r)
      <4>1. promos'[Len(promos) + 1].by = r /\ Len(promos) + 1 \in DOMAIN promos'
        BY <1>1, <3>1 DEF CommitPromo
      <4> QED
        BY <4>1
    <3>2. CASE ~CommitPromo(r)
      <4>1. req[r] \in Request
        BY <1>1
      <4>2. CASE Begin(r)
        BY <4>2, BeginFields
      <4>3. CASE Fail(r) \/ LockBusiness(r) \/ InsertPromo(r)
        BY <1>1, <4>1, <4>3 DEF Fail, LockBusiness, InsertPromo, Refuse, Become, Request
      <4>4. CASE ReadProgram(r) \/ ReadForRule(r) \/ ReadForToggle(r) \/ Write(r) \/ Commit(r)
        <5>1. req[r].kind # "promo" /\ ~Begin(r)
          BY <4>4 DEF Begin, ReadProgram, ReadForRule, ReadForToggle, Write, Commit
        <5> QED
          BY <1>4, <5>1, Fields
      <4> QED
        BY <1>4, <3>2, <4>2, <4>3, <4>4 DEF Acts
    <3> QED
      BY <3>1, <3>2
  <2> SUFFICES ASSUME NEW q \in Requests
               PROVE  /\ req'[q].kind = "promo" /\ req'[q].pc = "sent"
                           => \E i \in DOMAIN promos' : promos'[i].by = q
                      /\ posted'[q] > 0 => Announces(q)'
    BY DEF SentInv
  <2>6. CASE q = r
    BY <2>1, <2>3, <2>5, <2>6
  <2>7. CASE q # r
    <3>1. req'[q] = req[q]
      BY <1>4, <2>7, Others
    <3> QED
      BY <2>1, <2>4, <3>1 DEF IInv, SentInv, Announces
  <2> QED
    BY <2>6, <2>7
<1> QED
  BY <1>2, <1>3, <1>4 DEF Next, Acts, ChangePlan, Midnight, vars

----------------------------------------------------------------------------
(* The limits.                                                             *)

\* Promotions since some day are part of the table, and a commit adds its own.
LEMMA Sent ==
    ASSUME promos \in Seq(Promo)
    PROVE  \A day : /\ IsFiniteSet({i \in DOMAIN promos : promos[i].day >= day})
                    /\ SentSince(day) \in Nat
<1> TAKE day
<1>1. IsFiniteSet(DOMAIN promos)
  BY FS_Interval
<1>2. {i \in DOMAIN promos : promos[i].day >= day} \in SUBSET DOMAIN promos
  OBVIOUS
<1>3. IsFiniteSet({i \in DOMAIN promos : promos[i].day >= day})
  BY <1>1, <1>2, FS_Subset
<1> QED
  BY <1>3, FS_CardinalityType DEF SentSince

\* What a commit adds to the promotions.
LEMMA Committed ==
    ASSUME IInv, NEW r \in Requests, CommitPromo(r)
    PROVE  /\ DOMAIN promos' = DOMAIN promos \cup {Len(promos) + 1}
           /\ Len(promos) + 1 \notin DOMAIN promos
           /\ promos' \in Seq(Promo)
           /\ promos'[Len(promos) + 1].day = req[r].day
           /\ promos'[Len(promos) + 1].seen = req[r].seen
           /\ \A i \in DOMAIN promos : promos'[i] = promos[i] /\ promos[i] \in Promo
           /\ QuotaLeft(r) /\ plan \in DOMAIN MonthlyLimit
           /\ req[r].day \in 0..MaxDay /\ req[r].seen \in 0..MaxDay
<1>1. promos \in Seq(Promo) /\ req[r] \in Request
  BY DEF IInv, TypeOK
<1>2. [by |-> r, day |-> req[r].day, seen |-> req[r].seen] \in Promo
  BY <1>1 DEF Promo, Request
<1>3. promos' = Append(promos, [by |-> r, day |-> req[r].day, seen |-> req[r].seen])
  BY DEF CommitPromo
<1>4. QuotaLeft(r) /\ plan # "basico"
  BY DEF CommitPromo, IInv, QuotaInv, Counting
<1>5. plan \in DOMAIN MonthlyLimit
  BY <1>4, LimitAssumption DEF IInv, TypeOK, Plans
<1> QED
  BY <1>1, <1>2, <1>3, <1>4, <1>5 DEF Request

\* A promotion is committed on a day that has none.
LEMMA DailyStep == IInv /\ [Next]_vars => DailyLimitHolds'
<1> SUFFICES ASSUME IInv, [Next]_vars PROVE DailyLimitHolds'
  OBVIOUS
<1>1. CASE promos' = promos
  BY <1>1 DEF IInv, DailyLimitHolds, OfDay
<1>2. ASSUME NEW r \in Requests, CommitPromo(r) PROVE DailyLimitHolds'
  <2> DEFINE n == Len(promos) + 1
  <2> SUFFICES ASSUME NEW day \in 0..MaxDay PROVE Cardinality(OfDay(day)') <= DailyLimit
    BY DEF DailyLimitHolds
  <2>1. CASE req[r].day = day /\ req[r].seen = day
    <3> DEFINE since == {i \in DOMAIN promos : promos[i].day >= day}
    <3>1. promos \in Seq(Promo)
      BY DEF IInv, TypeOK
    <3>2. IsFiniteSet(since) /\ Cardinality(since) \in Nat
      BY <3>1, Sent DEF SentSince
    <3>3. Cardinality(since) < 1
      BY <1>2, <2>1, Committed DEF QuotaLeft, SentSince, DailyLimit
    <3>4. since = {}
      BY <3>2, <3>3, FS_EmptySet
    <3>5. OfDay(day)' = {n}
      <4>1. \A i \in DOMAIN promos : promos[i].day # day
        <5> SUFFICES ASSUME NEW i \in DOMAIN promos, promos[i].day = day PROVE FALSE
          OBVIOUS
        <5>1. i \in since
          OBVIOUS
        <5> QED
          BY <3>4, <5>1
      <4>2. /\ DOMAIN promos' = DOMAIN promos \cup {n}
            /\ promos'[n].day = day /\ promos'[n].seen = day
            /\ \A i \in DOMAIN promos : promos'[i] = promos[i]
        BY <1>2, <2>1, Committed
      <4> HIDE DEF n
      <4> QED
        BY <4>1, <4>2 DEF OfDay
    <3>6. Cardinality({n}) = 1
      BY FS_Singleton
    <3> QED
      BY <3>5, <3>6 DEF DailyLimit
  <2>2. CASE ~(req[r].day = day /\ req[r].seen = day)
    <3>1. /\ DOMAIN promos' = DOMAIN promos \cup {n}
          /\ promos'[n].day = req[r].day /\ promos'[n].seen = req[r].seen
          /\ \A i \in DOMAIN promos : promos'[i] = promos[i]
      BY <1>2, Committed
    <3>2. OfDay(day)' = OfDay(day)
      <4> HIDE DEF n
      <4> QED
        BY <2>2, <3>1 DEF OfDay
    <3> QED
      BY <3>2 DEF IInv, DailyLimitHolds
  <2> QED
    BY <2>1, <2>2
<1>3. ASSUME NEW r \in Requests, Acts(r), ~CommitPromo(r) PROVE promos' = promos
  BY <1>3, Effects
<1> QED
  BY <1>1, <1>2, <1>3 DEF Next, Acts, ChangePlan, Midnight, Announce, vars

\* A day is not before the start of its month.
LEMMA MonthStarts ==
    ASSUME NEW day \in Nat, NEW seen \in Nat, Month(day) = Month(seen)
    PROVE  day >= StartOfMonth(seen)
<1>1. DaysPerMonth \in Nat \ {0}
  BY NumbersAssumption
<1>2. day >= (day \div DaysPerMonth) * DaysPerMonth
  <2> DEFINE m == day \div DaysPerMonth
  <2>1. m \in Nat /\ day = m * DaysPerMonth + (day % DaysPerMonth) /\ (day % DaysPerMonth) \in Nat
    BY <1>1, SMTT(30)
  <2> HIDE DEF m
  <2>2. m * DaysPerMonth \in Nat
    BY <1>1, <2>1
  <2>3. day >= m * DaysPerMonth
    BY <2>1, <2>2
  <2> QED
    BY <2>3 DEF m
<1> QED
  BY <1>2 DEF Month, StartOfMonth

\* A promotion that is committed leaves its month within the limit.
LEMMA CommitFits ==
    ASSUME IInv, NEW r \in Requests, CommitPromo(r), NEW i \in DOMAIN promos' \ DOMAIN promos
    PROVE  LET m == Month(promos'[i].seen) IN
           /\ plan # "basico"
           /\ FitsThePlan(promos', m) \/ InMonth(promos', m) = InMonth(promos, m)
<1> DEFINE m == Month(req[r].seen)
           n == Len(promos) + 1
           since == {j \in DOMAIN promos : promos[j].day >= StartOfMonth(req[r].seen)}
<1>1. i = n /\ promos'[i].seen = req[r].seen /\ promos'[i].day = req[r].day
  BY Committed
<1>2. plan # "basico"
  BY DEF CommitPromo, IInv, QuotaInv, Counting
<1>3. /\ DOMAIN promos' = DOMAIN promos \cup {n}
      /\ \A j \in DOMAIN promos : promos'[j] = promos[j] /\ promos[j].day \in Nat
  <2>1. \A x \in Promo : x.day \in Nat
    BY NumbersAssumption DEF Promo
  <2> QED
    BY <2>1, Committed
<1>4. CASE Month(req[r].day) = m
  <2>1. InMonth(promos', m) \subseteq since \cup {n}
    <3> SUFFICES ASSUME NEW j \in DOMAIN promos, Month(promos'[j].day) = m PROVE j \in since
      BY <1>3 DEF InMonth
    <3>1. promos[j].day \in Nat /\ Month(promos[j].day) = m /\ req[r].seen \in Nat
      BY <1>3, Committed, NumbersAssumption
    <3> QED
      BY <3>1, MonthStarts
  <2>2. IsFiniteSet(since) /\ Cardinality(since) \in Nat
    BY Sent DEF SentSince, IInv, TypeOK
  <2>3. Cardinality(since) < MonthlyLimit[plan] /\ MonthlyLimit[plan] \in Nat
    BY Committed, LimitAssumption DEF QuotaLeft, SentSince
  <2>4. IsFiniteSet(since \cup {n}) /\ Cardinality(since \cup {n}) <= Cardinality(since) + 1
        /\ Cardinality(since \cup {n}) \in Nat
    <3> HIDE DEF since, n
    <3>1. IsFiniteSet(since \cup {n})
          /\ Cardinality(since \cup {n}) = IF n \in since THEN Cardinality(since)
                                           ELSE Cardinality(since) + 1
      BY <2>2, FS_AddElement
    <3> QED
      BY <2>2, <3>1
  <2>5. /\ Cardinality(InMonth(promos', m)) <= Cardinality(since \cup {n})
        /\ Cardinality(InMonth(promos', m)) \in Nat
    <3> HIDE DEF since, n, m
    <3> QED
      BY <2>1, <2>4, FS_Subset, FS_CardinalityType
  <2>6. Cardinality(InMonth(promos', m)) <= MonthlyLimit[plan]
    <3> HIDE DEF since, n, m
    <3> QED
      BY <2>2, <2>3, <2>4, <2>5
  <2> QED
    BY <1>1, <1>2, <2>6 DEF FitsThePlan
<1>5. CASE Month(req[r].day) # m
  <2>1. InMonth(promos', m) = InMonth(promos, m)
    <3> HIDE DEF n, m
    <3> QED
      BY <1>1, <1>3, <1>5 DEF InMonth
  <2> QED
    BY <1>1, <1>2, <2>1
<1> QED
  BY <1>4, <1>5

\* Every step preserves the invariant.
LEMMA StepInv == IInv /\ [Next]_vars => IInv'
BY TypeStep, RowsStep, HolderStep, QuotaStep, DailyStep, SentStep DEF IInv

\* The inductive invariant holds of every behaviour.
THEOREM Invariance == Spec => []IInv
BY InitInv, StepInv, PTL DEF Spec

\* Every variable keeps its type, and no promotion is posted more than three
\* times, whatever the owner's requests.
THEOREM TypeCorrect == Spec => []TypeOK
<1>1. IInv => TypeOK
  BY DEF IInv
<1> QED
  BY <1>1, Invariance, PTL

\* A day has one promotion, however many sends overlap: the row lock keeps
\* what each of them counted true until it commits.
THEOREM DailyLimited == Spec => []DailyLimitHolds
<1>1. IInv => DailyLimitHolds
  BY DEF IInv
<1> QED
  BY <1>1, Invariance, PTL

\* What customers receive was sent: only committed promotions are announced.
THEOREM OnlySent == Spec => []OnlySentIsSeen
<1>1. IInv => OnlySentIsSeen
  BY DEF IInv, SentInv, Announces, OnlySentIsSeen
<1> QED
  BY <1>1, Invariance, PTL

\* No promotion is committed past the limit of the plan of that moment: the
\* lock keeps the plan, and what was counted, until the commit.
THEOREM MonthlyLimited == Spec => MonthlyLimitHolds
<1>1. IInv /\ [Next]_vars => [MonthlyStep]_vars
  <2> SUFFICES ASSUME IInv, Next PROVE MonthlyStep
    OBVIOUS
  <2>1. CASE promos' = promos
    BY <2>1 DEF MonthlyStep
  <2>2. ASSUME NEW r \in Requests, CommitPromo(r) PROVE MonthlyStep
    BY <2>2, CommitFits DEF MonthlyStep
  <2>3. ASSUME NEW r \in Requests, Acts(r), ~CommitPromo(r) PROVE promos' = promos
    BY <2>3, Effects
  <2> QED
    BY <2>1, <2>2, <2>3 DEF Next, Acts, ChangePlan, Midnight, Announce
<1> QED
  BY <1>1, Invariance, PTL DEF Spec, MonthlyLimitHolds

----------------------------------------------------------------------------
(* The audit log.                                                          *)

\* Agrees as a conjunction.
Fits(entry, e) ==
    /\ entry.about = "program" => programs[e] # None /\ programs[e].stamps = entry.stamps
    /\ entry.about = "rule" => rules[e] # None /\ rules[e].stamps = entry.stamps
    /\ entry.about = "toggle" => rules[e] # None /\ rules[e].active = entry.active
    /\ entry.about = "promo" => \E i \in DOMAIN promos : promos[i].by = e

LEMMA FitsAgrees ==
    ASSUME NEW entry, entry.about \in Kinds, NEW e, Fits(entry, e) PROVE Agrees(entry, e)
<1>1. CASE entry.about = "program"
  BY <1>1 DEF Fits, Agrees
<1>2. CASE entry.about = "rule"
  BY <1>2 DEF Fits, Agrees
<1>3. CASE entry.about = "toggle"
  BY <1>3 DEF Fits, Agrees
<1>4. CASE entry.about = "promo"
  BY <1>4 DEF Fits, Agrees
<1> QED
  BY <1>1, <1>2, <1>3, <1>4 DEF Kinds

\* A row is made by the commit of the request it is named after, and by no
\* other: a request that has not committed has none.
OriginInv ==
    \A r \in Requests :
        /\ programs[r] # None => req[r].kind = "program" /\ req[r].pc = "sent"
        /\ rules[r] # None => req[r].kind = "rule" /\ req[r].target = None /\ req[r].pc = "sent"
        /\ req[r].kind \in {"program", "promo"} => req[r].target = None

\* The entry of a row that was committed last says what the row holds.
LogInv ==
    /\ \A about \in Kinds, e \in Requests : Logged(about, e) =>
         \E m \in Entries(about, e) :
            (\A k \in Entries(about, e) : m >= k) /\ Fits(audit[m], e)
    /\ \A p \in Created(programs) : Logged("program", p)
    /\ \A u \in Created(rules) : Logged("rule", u)

\* Transactions begin one after the other, and each leaves one entry.
DatesInv ==
    /\ \A r \in Requests : req[r].pc # "idle" => req[r].order <= began
    /\ \A r, q \in Requests :
         /\ req[r].pc # "idle" /\ req[q].pc # "idle"
         /\ req[r].order = req[q].order
         => r = q
    /\ \A i \in DOMAIN audit :
         \E r \in Requests : req[r].pc = "sent" /\ req[r].order = audit[i].order
    /\ \A i, j \in DOMAIN audit : audit[i].order = audit[j].order => i = j

AuditInv == IInv /\ OriginInv /\ LogInv /\ DatesInv

\* The tables are empty at first, and so is the log.
LEMMA AuditInit == Init => AuditInv
<1> SUFFICES ASSUME Init PROVE AuditInv
  OBVIOUS
<1>1. \A r \in Requests : req[r].kind = None /\ programs[r] = None /\ rules[r] = None
  BY DEF Init
<1>2. Created(programs) = {} /\ Created(rules) = {}
  BY <1>1 DEF Created
<1>3. \A about, e : Entries(about, e) = {}
  BY DEF Init, Entries
<1> QED
  <2>1. DatesInv
    BY DEF Init, DatesInv
  <2> QED
    BY <1>1, <1>2, <1>3, <2>1, InitInv, NoneAssumption
    DEF AuditInv, OriginInv, LogInv, Logged, Kinds

\* What a step of a request leaves of the others' fields and of its own.
LEMMA Kept ==
    ASSUME IInv, NEW r \in Requests, Acts(r)
    PROVE  /\ \A q \in Requests \ {r} : req'[q] = req[q]
           /\ req[r].pc # "sent"
           /\ ~Begin(r) => req'[r].kind = req[r].kind /\ req'[r].target = req[r].target
BY Others, Fields, BeginFields

\* A commit of the owner's forms writes one row, and says so in the log.
LEMMA CommitSays ==
    ASSUME IInv, NEW r \in Requests, Commit(r)
    PROVE  LET e == EntityOf(r) IN
           /\ e \in Requests /\ req'[r].pc = "sent" /\ req[r].pc = "written"
           /\ audit' = Append(audit, EntryOf(r)) /\ promos' = promos
           /\ EntryOf(r).about = req[r].kind /\ EntryOf(r).entity = e
           /\ req[r].kind \in {"program", "rule", "toggle"}
           /\ req[r].kind = "program" =>
                /\ rules' = rules
                /\ \A q \in Requests \ {e} : programs'[q] = programs[q]
                /\ programs'[e] # None /\ programs'[e].stamps = EntryOf(r).stamps
                /\ e = r \/ programs[e] # None
           /\ req[r].kind = "rule" =>
                /\ programs' = programs
                /\ \A q \in Requests \ {e} : rules'[q] = rules[q]
                /\ rules'[e] # None /\ rules'[e].stamps = EntryOf(r).stamps
                /\ (e = r /\ req[r].target = None) \/ (rules[e] # None /\ rules'[e].active = rules[e].active)
           /\ req[r].kind = "toggle" =>
                /\ programs' = programs
                /\ \A q \in Requests \ {e} : rules'[q] = rules[q]
                /\ rules[e] # None /\ rules'[e] # None
                /\ rules'[e].active = EntryOf(r).active /\ rules'[e].stamps = rules[e].stamps
<1> DEFINE e == EntityOf(r)
<1>1. /\ programs \in [Requests -> Program \cup {None}]
      /\ rules \in [Requests -> Rule \cup {None}]
      /\ req \in [Requests -> Request]
      /\ None \notin Program /\ None \notin Rule
  BY NoneAssumption DEF IInv, TypeOK
<1>2. /\ e \in Requests /\ req[r].pc = "written"
      /\ req[r].kind \in {"program", "rule", "toggle"}
  BY RowExists DEF Commit, IInv, TypeOK, RowsInv, Request, Kinds
<1>3. req'[r].pc = "sent" /\ promos' = promos /\ audit' = Append(audit, EntryOf(r))
  BY <1>1 DEF Commit, Become, Request
<1>4. /\ EntryOf(r).about = req[r].kind /\ EntryOf(r).entity = e
      /\ EntryOf(r).stamps = req[r].stamps
      /\ req[r].kind = "toggle" => EntryOf(r).active = ~req[r].active
  BY DEF EntryOf
<1>5. e = r \/ e = RowOf(r)
  BY DEF EntityOf
<1>6. RowOf(r) = None => e = r
  BY DEF EntityOf
<1>7. CASE req[r].kind = "program"
  <2>1. PICK x : programs' = [programs EXCEPT ![e] = x] /\ rules' = rules
                 /\ x = [order |-> IF RowOf(r) = None THEN req[r].order ELSE programs[e].order,
                         stamps |-> req[r].stamps]
    BY <1>7 DEF Commit
  <2>2. x \in Program /\ x.stamps = req[r].stamps
    <3>1. req[r].order \in Nat /\ req[r].stamps \in Stamps
      BY <1>1 DEF Request
    <3> QED
      BY <1>2, <1>7, <2>1, <3>1, RowExists DEF Program
  <2>3. e = r \/ programs[e] # None
    BY <1>1, <1>2, <1>6, <1>7, RowExists
  <2> HIDE DEF e
  <2>4. programs'[e] = x /\ \A q \in Requests \ {e} : programs'[q] = programs[q]
    BY <1>1, <1>2, <2>1
  <2> QED
    BY <1>1, <1>2, <1>3, <1>4, <1>7, <2>1, <2>2, <2>3, <2>4 DEF e
<1>8. CASE req[r].kind = "rule"
  <2>1. PICK x : rules' = [rules EXCEPT ![e] = x] /\ programs' = programs
                 /\ x = IF RowOf(r) = None
                        THEN [program |-> req[r].found, stamps |-> req[r].stamps, active |-> TRUE]
                        ELSE [rules[e] EXCEPT !.stamps = req[r].stamps]
    BY <1>8 DEF Commit
  <2>2. RowOf(r) # None => rules[e] \in Rule
    BY <1>2, <1>8, RowExists
  <2>3. /\ x # None /\ x.stamps = req[r].stamps
        /\ RowOf(r) # None => x.active = rules[e].active
    <3>1. req[r].stamps \in Stamps
      BY <1>1 DEF Request
    <3>2. RowOf(r) = None => x \in Rule
      BY <1>2, <1>8, <2>1, <3>1, RowExists DEF Rule
    <3>3. RowOf(r) # None => x \in Rule
      BY <2>1, <2>2, <3>1 DEF Rule
    <3> QED
      BY <1>1, <2>1, <2>2, <3>2, <3>3 DEF Rule
  <2>4. RowOf(r) = None => req[r].target = None
    BY <1>8 DEF RowOf
  <2> HIDE DEF e
  <2>5. rules'[e] = x /\ \A q \in Requests \ {e} : rules'[q] = rules[q]
    BY <1>1, <1>2, <2>1
  <2>6. (e = r /\ req[r].target = None) \/ (rules[e] # None /\ rules'[e].active = rules[e].active)
    BY <1>1, <1>6, <2>2, <2>3, <2>4, <2>5
  <2> QED
    BY <1>2, <1>3, <1>4, <1>8, <2>1, <2>3, <2>5, <2>6 DEF e
<1>9. CASE req[r].kind = "toggle"
  <2>1. PICK x : rules' = [rules EXCEPT ![e] = x] /\ programs' = programs
                 /\ x = [rules[e] EXCEPT !.active = ~req[r].active]
    BY <1>9 DEF Commit
  <2>2. rules[e] \in Rule
    BY <1>2, <1>9, RowExists
  <2>3. x \in Rule /\ x.active = ~req[r].active /\ x.stamps = rules[e].stamps
    BY <2>1, <2>2 DEF Rule
  <2> HIDE DEF e
  <2>4. rules'[e] = x /\ \A q \in Requests \ {e} : rules'[q] = rules[q]
    BY <1>1, <1>2, <2>1
  <2> QED
    BY <1>1, <1>2, <1>3, <1>4, <1>9, <2>1, <2>2, <2>3, <2>4 DEF e
<1> QED
  BY <1>2, <1>7, <1>8, <1>9

\* A row is named after the request that made it, which has committed.
LEMMA OriginStep == AuditInv /\ [Next]_vars => OriginInv'
<1> SUFFICES ASSUME AuditInv, [Next]_vars PROVE OriginInv'
  OBVIOUS
<1> USE DEF AuditInv
<1>1. CASE UNCHANGED <<req, programs, rules>>
  BY <1>1 DEF OriginInv
<1>2. ASSUME NEW r \in Requests, Acts(r) PROVE OriginInv'
  <2> SUFFICES ASSUME NEW q \in Requests
               PROVE  /\ programs'[q] # None => req'[q].kind = "program" /\ req'[q].pc = "sent"
                      /\ rules'[q] # None =>
                           req'[q].kind = "rule" /\ req'[q].target = None /\ req'[q].pc = "sent"
                      /\ req'[q].kind \in {"program", "promo"} => req'[q].target = None
    BY DEF OriginInv
  <2>1. /\ programs[q] # None => req[q].kind = "program" /\ req[q].pc = "sent"
        /\ rules[q] # None => req[q].kind = "rule" /\ req[q].target = None /\ req[q].pc = "sent"
        /\ req[q].kind \in {"program", "promo"} => req[q].target = None
    BY DEF OriginInv
  <2>2. req'[r].kind \in {"program", "promo"} => req'[r].target = None
    <3>1. CASE Begin(r)
      <4>1. PICK kind \in Kinds, n \in Stamps, target \in Created(rules) \cup {None} :
              /\ kind \in {"program", "promo"} => target = None
              /\ Become(r, [req[r] EXCEPT !.kind = kind, !.pc = "begun", !.stamps = n,
                                          !.target = target, !.order = began + 1, !.day = today])
        BY <3>1 DEF Begin
      <4>2. req'[r].kind = kind /\ req'[r].target = target
        BY <4>1 DEF Become, IInv, TypeOK, Request
      <4> QED
        BY <4>1, <4>2
    <3> QED
      BY <1>2, <3>1, Kept DEF OriginInv
  <2>3. CASE Commit(r)
    <3>1. ~Begin(r)
      BY <2>3, CommitSays DEF Begin
    <3> QED
      BY <1>2, <2>1, <2>2, <2>3, <3>1, Kept, CommitSays
  <2>4. CASE ~Commit(r)
    <3>1. programs' = programs /\ rules' = rules
      BY <1>2, <2>4, Effects
    <3> QED
      BY <1>2, <2>1, <2>2, <3>1, Kept
  <2> QED
    BY <2>3, <2>4
<1> QED
  BY <1>1, <1>2 DEF Next, Acts, ChangePlan, Midnight, Announce, vars

\* What an entry adds to the entries of a row.
LEMMA Logging ==
    ASSUME NEW entry, NEW n, audit \in Seq(Entry), audit' = Append(audit, entry),
           n = Len(audit) + 1
    PROVE  /\ \A about, e : /\ Entries(about, e) \subseteq Entries(about, e)'
                            /\ entry.about # about \/ entry.entity # e
                                 => Entries(about, e)' = Entries(about, e)
                            /\ \A i \in Entries(about, e)' : n >= i
           /\ \A i \in DOMAIN audit : audit'[i] = audit[i]
           /\ n \in Entries(entry.about, entry.entity)' /\ audit'[n] = entry
<1>1. /\ Len(audit) \in Nat /\ DOMAIN audit = 1..Len(audit) /\ DOMAIN audit' = 1..n
      /\ \A i \in DOMAIN audit : audit'[i] = audit[i]
      /\ audit'[n] = entry
  OBVIOUS
<1>2. n \in DOMAIN audit' /\ \A i \in DOMAIN audit' : i \in DOMAIN audit \/ i = n
  BY <1>1
<1>3. \A i \in DOMAIN audit : i \in DOMAIN audit'
  BY <1>1
<1>4. \A i \in DOMAIN audit' : n >= i
  BY <1>1
<1> QED
  BY <1>1, <1>2, <1>3, <1>4 DEF Entries

\* The last entry about a row says what the row holds after every step.
LEMMA LogStep == AuditInv /\ [Next]_vars => LogInv'
<1> SUFFICES ASSUME AuditInv, [Next]_vars PROVE LogInv'
  OBVIOUS
<1> USE DEF AuditInv
<1>1. ASSUME UNCHANGED <<audit, programs, rules, promos>> PROVE LogInv'
  <2>1. \A about, e : Entries(about, e)' = Entries(about, e)
    BY <1>1 DEF Entries
  <2>2. \A i, e : Fits(audit[i], e) => Fits(audit[i], e)'
    BY <1>1 DEF Fits
  <2> QED
    BY <1>1, <2>1, <2>2 DEF LogInv, Logged, Created
<1>2. ASSUME NEW r \in Requests, Commit(r) \/ CommitPromo(r) PROVE LogInv'
  <2>1. audit \in Seq(Entry) /\ promos \in Seq(Promo) /\ req \in [Requests -> Request]
    BY DEF IInv, TypeOK
  <2>2. PICK entry : entry = EntryOf(r)
    OBVIOUS
  <2>3. PICK n : n = Len(audit) + 1
    OBVIOUS
  <2>4. audit' = Append(audit, entry)
    BY <1>2, <2>2 DEF Commit, CommitPromo
  <2>5. /\ \A about, e : /\ Entries(about, e) \subseteq Entries(about, e)'
                         /\ entry.about # about \/ entry.entity # e
                              => Entries(about, e)' = Entries(about, e)
                         /\ \A i \in Entries(about, e)' : n >= i
        /\ \A i \in DOMAIN audit : audit'[i] = audit[i]
        /\ n \in Entries(entry.about, entry.entity)' /\ audit'[n] = entry
    BY <2>1, <2>3, <2>4, Logging
  <2>6. Fits(entry, entry.entity)'
    <3>1. CASE Commit(r)
      BY <2>2, <3>1, CommitSays DEF Fits
    <3>2. CASE CommitPromo(r)
      <4>1. entry.entity = r /\ entry.about = "promo"
        BY <2>2, <3>2, NoneAssumption DEF CommitPromo, EntryOf, EntityOf, RowOf, OriginInv
      <4>2. promos'[Len(promos) + 1].by = r /\ Len(promos) + 1 \in DOMAIN promos'
        BY <2>1, <3>2 DEF CommitPromo
      <4> QED
        BY <4>1, <4>2 DEF Fits
    <3> QED
      BY <1>2, <3>1, <3>2
  <2>7. ASSUME NEW i \in DOMAIN audit, NEW e \in Requests, Fits(audit[i], e),
               audit[i].about # entry.about \/ e # entry.entity
        PROVE  Fits(audit[i], e)'
    <3>1. audit'[i] = audit[i]
      BY <2>5
    <3>2. CASE Commit(r)
      <4>1. e = r => programs[e] = None /\ rules[e] = None
        BY <3>2, CommitSays DEF OriginInv
      <4> QED
        BY <2>2, <2>7, <3>1, <3>2, <4>1, CommitSays DEF Fits
    <3>3. CASE CommitPromo(r)
      <4>1. programs' = programs /\ rules' = rules
        BY <3>3 DEF CommitPromo
      <4>2. \A k \in DOMAIN promos : k \in DOMAIN promos' /\ promos'[k] = promos[k]
        BY <2>1, <3>3 DEF CommitPromo
      <4> QED
        BY <2>7, <3>1, <4>1, <4>2 DEF Fits
    <3> QED
      BY <1>2, <3>2, <3>3
  <2>8. ASSUME NEW about \in Kinds, NEW e \in Requests, Logged(about, e)'
        PROVE  \E m \in Entries(about, e)' :
                  (\A k \in Entries(about, e)' : m >= k) /\ Fits(audit[m], e)'
    <3>1. CASE about = entry.about /\ e = entry.entity
      <4>1. n \in Entries(about, e)' /\ Fits(audit[n], e)'
        <5>1. Fits(entry, e)'
          BY <2>6, <3>1
        <5> QED
          BY <2>5, <3>1, <5>1 DEF Fits
      <4>2. \A k \in Entries(about, e)' : n >= k
        BY <2>5
      <4> QED
        BY <4>1, <4>2
    <3>2. CASE ~(about = entry.about /\ e = entry.entity)
      <4>1. Entries(about, e)' = Entries(about, e)
        BY <2>5, <3>2
      <4>2. PICK m \in Entries(about, e) :
              (\A k \in Entries(about, e) : m >= k) /\ Fits(audit[m], e)
        BY <2>8, <4>1 DEF Logged, LogInv
      <4>3. Fits(audit[m], e)'
        BY <2>7, <3>2, <4>2 DEF Entries
      <4> QED
        BY <4>1, <4>2, <4>3
    <3> QED
      BY <3>1, <3>2
  <2>9. \A about, e : Logged(about, e) => Logged(about, e)'
    BY <2>5 DEF Logged
  <2>10. Logged(entry.about, entry.entity)'
    BY <2>5 DEF Logged
  <2>11. /\ \A p \in Created(programs)' : p \in Created(programs) \/ (entry.about = "program" /\ entry.entity = p)
         /\ \A u \in Created(rules)' : u \in Created(rules) \/ (entry.about \in {"rule", "toggle"} /\ entry.entity = u)
         /\ entry.about = "toggle" => rules[entry.entity] # None /\ entry.entity \in Requests
    <3>1. CASE Commit(r)
      BY <2>2, <3>1, CommitSays DEF Created
    <3>2. CASE CommitPromo(r)
      BY <2>2, <3>2 DEF CommitPromo, Created, EntryOf
    <3> QED
      BY <1>2, <3>1, <3>2
  <2>12. \A p \in Created(programs)' : Logged("program", p)'
    BY <2>9, <2>10, <2>11 DEF LogInv
  <2>13. \A u \in Created(rules)' : Logged("rule", u)'
    BY <2>9, <2>10, <2>11 DEF LogInv, Created
  <2> QED
    BY <2>8, <2>12, <2>13 DEF LogInv
<1>3. ASSUME NEW r \in Requests, Acts(r), ~Commit(r), ~CommitPromo(r) PROVE LogInv'
  BY <1>1, <1>3, Effects
<1> QED
  BY <1>1, <1>2, <1>3 DEF Next, Acts, ChangePlan, Midnight, Announce, vars

\* A request that begins gets a date later than all others; a date stays.
LEMMA Dating ==
    ASSUME IInv, NEW r \in Requests, Acts(r)
    PROVE  /\ req'[r].pc # "idle"
           /\ Begin(r) => req'[r].order = began + 1 /\ began' = began + 1 /\ req[r].pc = "idle"
           /\ ~Begin(r) => req'[r].order = req[r].order /\ began' = began /\ req[r].pc # "idle"
<1>1. req[r] \in Request /\ req \in [Requests -> Request]
  BY DEF IInv, TypeOK
<1>2. CASE Begin(r)
  <2>1. PICK kind \in Kinds, n \in Stamps, target \in Created(rules) \cup {None} :
          Become(r, [req[r] EXCEPT !.kind = kind, !.pc = "begun", !.stamps = n,
                                   !.target = target, !.order = began + 1, !.day = today])
    BY <1>2 DEF Begin
  <2>2. req'[r].pc = "begun" /\ req'[r].order = began + 1
    BY <1>1, <2>1 DEF Become, Request
  <2> QED
    BY <1>2, <2>2 DEF Begin
<1>3. CASE ~Begin(r)
  <2>1. req[r].pc # "idle" /\ req'[r].pc # "idle"
    BY <1>3, Fields
  <2>2. began' = began
    BY <1>3 DEF Acts, Fail, ReadProgram, ReadForRule, ReadForToggle, Write, Commit,
                LockBusiness, InsertPromo, CommitPromo, Refuse, Unchanged
  <2>3. req'[r].order = req[r].order
    <3> USE DEF Become
    <3>1. CASE Fail(r) \/ Write(r) \/ Commit(r) \/ CommitPromo(r) \/ InsertPromo(r)
      <4>1. \E pc \in Pcs : Become(r, [req[r] EXCEPT !.pc = pc])
        BY <3>1 DEF Fail, Write, Commit, CommitPromo, InsertPromo, Refuse, Pcs
      <4> QED
        BY <1>1, <4>1 DEF Request
    <3>2. CASE ReadProgram(r)
      BY <1>1, <3>2 DEF ReadProgram, Request
    <3>3. CASE ReadForRule(r)
      <4>1. CASE Current = None \/ req[r].stamps > programs[Current].stamps
        BY <1>1, <3>3, <4>1 DEF ReadForRule, Refuse, Request
      <4>2. CASE ~(Current = None \/ req[r].stamps > programs[Current].stamps)
        BY <1>1, <3>3, <4>2 DEF ReadForRule, Request
      <4> QED
        BY <4>1, <4>2
    <3>4. CASE ReadForToggle(r)
      BY <1>1, <3>4 DEF ReadForToggle, Request
    <3>5. CASE LockBusiness(r)
      BY <1>1, <3>5 DEF LockBusiness, Refuse, Request
    <3> QED
      BY <1>3, <3>1, <3>2, <3>3, <3>4, <3>5 DEF Acts
  <2> QED
    BY <1>3, <2>1, <2>2, <2>3
<1> QED
  BY <1>2, <1>3

\* Entries have different dates, each that of its transaction.
LEMMA DatesStep == AuditInv /\ [Next]_vars => DatesInv'
<1> SUFFICES ASSUME AuditInv, [Next]_vars PROVE DatesInv'
  OBVIOUS
<1> USE DEF AuditInv
<1>1. CASE UNCHANGED <<req, began, audit>>
  BY <1>1 DEF DatesInv
<1>2. ASSUME NEW r \in Requests, Acts(r) PROVE DatesInv'
  <2>1. /\ began \in Nat /\ audit \in Seq(Entry)
        /\ \A q \in Requests : req[q].order \in Nat
    BY DEF IInv, TypeOK, Request
  <2>2. \A q \in Requests \ {r} : req'[q] = req[q]
    BY <1>2, Others
  <2>3. /\ \A q \in Requests : req'[q].pc # "idle" => req'[q].order <= began'
        /\ \A p, q \in Requests :
             /\ req'[p].pc # "idle" /\ req'[q].pc # "idle"
             /\ req'[p].order = req'[q].order
             => p = q
    <3>1. CASE Begin(r)
      <4>1. /\ req'[r].order = began + 1 /\ began' = began + 1
            /\ \A q \in Requests \ {r} : req[q].pc # "idle" => req[q].order <= began
        BY <1>2, <3>1, Dating DEF DatesInv
      <4> QED
        BY <2>1, <2>2, <4>1 DEF DatesInv
    <3>2. CASE ~Begin(r)
      <4>1. req'[r].order = req[r].order /\ began' = began /\ req[r].pc # "idle"
        BY <1>2, <3>2, Dating
      <4> QED
        BY <2>2, <4>1 DEF DatesInv
    <3> QED
      BY <3>1, <3>2
  <2>4. CASE ~Commit(r) /\ ~CommitPromo(r)
    <3>1. audit' = audit /\ req[r].pc # "sent"
      BY <1>2, <2>4, Effects, Kept
    <3> QED
      BY <2>2, <2>3, <3>1 DEF DatesInv
  <2>5. CASE Commit(r) \/ CommitPromo(r)
    <3>1. PICK entry : entry = EntryOf(r)
      OBVIOUS
    <3>2. PICK n : n = Len(audit) + 1
      OBVIOUS
    <3>3. /\ audit' = Append(audit, entry) /\ entry.order = req[r].order
          /\ req'[r].pc = "sent" /\ req'[r].order = req[r].order /\ req[r].pc = "written"
      <4>1. audit' = Append(audit, entry) /\ req[r].pc = "written" /\ req'[r].pc = "sent"
        BY <2>5, <3>1 DEF Commit, CommitPromo, Become, IInv, TypeOK, Request
      <4>2. ~Begin(r)
        BY <4>1 DEF Begin
      <4> QED
        BY <1>2, <3>1, <4>1, <4>2, Dating DEF EntryOf
    <3>4. /\ DOMAIN audit' = DOMAIN audit \cup {n} /\ n \notin DOMAIN audit
          /\ \A i \in DOMAIN audit : audit'[i] = audit[i]
          /\ audit'[n] = entry
      BY <2>1, <3>2, <3>3
    <3>5. \A i \in DOMAIN audit : audit[i].order # entry.order
      <4> SUFFICES ASSUME NEW i \in DOMAIN audit, audit[i].order = entry.order PROVE FALSE
        OBVIOUS
      <4>1. PICK q \in Requests : req[q].pc = "sent" /\ req[q].order = audit[i].order
        BY DEF DatesInv
      <4>2. q = r
        BY <3>3, <4>1 DEF DatesInv
      <4> QED
        BY <3>3, <4>1, <4>2
    <3>6. \A i, j \in DOMAIN audit' : audit'[i].order = audit'[j].order => i = j
      BY <3>4, <3>5 DEF DatesInv
    <3>7. ASSUME NEW i \in DOMAIN audit'
          PROVE  \E q \in Requests : req'[q].pc = "sent" /\ req'[q].order = audit'[i].order
      <4>1. CASE i = n
        BY <3>3, <3>4, <4>1
      <4>2. CASE i \in DOMAIN audit
        <5>1. PICK q \in Requests : req[q].pc = "sent" /\ req[q].order = audit[i].order
          BY <4>2 DEF DatesInv
        <5>2. q # r
          BY <3>3, <5>1
        <5> QED
          BY <2>2, <3>4, <4>2, <5>1, <5>2
      <4> QED
        BY <3>4, <4>1, <4>2
    <3> QED
      BY <2>3, <3>6, <3>7 DEF DatesInv
  <2> QED
    BY <2>4, <2>5
<1> QED
  BY <1>1, <1>2 DEF Next, Acts, ChangePlan, Midnight, Announce, vars

\* A row that has entries has one of the latest date.
LEMMA LastExists ==
    ASSUME AuditInv, NEW about \in Kinds, NEW e \in Requests, Logged(about, e)
    PROVE  /\ LastEntry(about, e) \in Entries(about, e)
           /\ \A i \in Entries(about, e) : audit[i].order <= audit[LastEntry(about, e)].order
<1> DEFINE ages == {began - audit[i].order : i \in Entries(about, e)}
<1>1. /\ began \in Nat
      /\ \A i \in Entries(about, e) : audit[i].order \in Nat /\ audit[i].order <= began
  <2>1. began \in Nat /\ audit \in Seq(Entry)
    BY DEF AuditInv, IInv, TypeOK
  <2>2. ASSUME NEW i \in Entries(about, e) PROVE audit[i].order \in Nat /\ audit[i].order <= began
    <3>1. i \in DOMAIN audit
      BY DEF Entries
    <3>2. PICK r \in Requests : req[r].pc = "sent" /\ req[r].order = audit[i].order
      BY <3>1 DEF AuditInv, DatesInv
    <3>3. req[r].order \in Nat /\ req[r].order <= began
      BY <3>2 DEF AuditInv, DatesInv, IInv, TypeOK, Request
    <3> QED
      BY <3>2, <3>3
  <2> QED
    BY <2>1, <2>2
<1>2. ages \subseteq Nat /\ ages # {}
  BY <1>1 DEF Logged
<1>3. PICK n \in ages : \A k \in ages : n <= k
  <2> HIDE DEF ages
  <2> QED
    BY <1>2, Least
<1>4. PICK m \in Entries(about, e) : n = began - audit[m].order
  OBVIOUS
<1>5. ASSUME NEW i \in Entries(about, e) PROVE audit[i].order <= audit[m].order
  <2>1. began - audit[i].order \in ages
    OBVIOUS
  <2>2. n <= began - audit[i].order
    BY <1>3, <2>1
  <2> QED
    BY <1>1, <1>4, <2>2
<1>6. \E i \in Entries(about, e) :
        \A j \in Entries(about, e) : audit[j].order <= audit[i].order
  BY <1>5
<1> QED
  BY <1>6 DEF LastEntry

\* The log tells the truth: the entry of a row with the latest date says what
\* the row holds, or one does whose transaction began before and committed
\* after, whichever requests overlapped and whichever were rolled back.
THEOREM LogIsTrue == Spec => []AuditTellsState
<1>1. AuditInv /\ [Next]_vars => AuditInv'
  BY OriginStep, LogStep, DatesStep, StepInv DEF AuditInv
<1>2. AuditInv => AuditTellsState
  <2> SUFFICES ASSUME AuditInv PROVE AuditTellsState
    OBVIOUS
  <2>1. ASSUME NEW about \in Kinds, NEW e \in Requests, Logged(about, e)
        PROVE  \/ Agrees(audit[LastEntry(about, e)], e)
               \/ \E i \in Entries(about, e) : Encloses(i, LastEntry(about, e)) /\ Agrees(audit[i], e)
    <3>1. PICK m \in Entries(about, e) :
            (\A k \in Entries(about, e) : m >= k) /\ Fits(audit[m], e)
      BY <2>1 DEF AuditInv, LogInv
    <3>2. Agrees(audit[m], e)
      BY <3>1, FitsAgrees DEF Entries
    <3>3. PICK n : n = LastEntry(about, e)
      OBVIOUS
    <3>4. n \in Entries(about, e) /\ audit[m].order <= audit[n].order
      BY <2>1, <3>3, LastExists
    <3>5. Entries(about, e) \subseteq DOMAIN audit /\ DOMAIN audit \subseteq Nat
      BY DEF Entries, AuditInv, IInv, TypeOK
    <3>6. audit[m].order \in Nat /\ audit[n].order \in Nat
      <4>1. audit \in Seq(Entry) /\ m \in DOMAIN audit /\ n \in DOMAIN audit
        BY <3>1, <3>4, <3>5 DEF AuditInv, IInv, TypeOK
      <4>2. audit[m] \in Entry /\ audit[n] \in Entry
        BY <4>1
      <4> QED
        BY <4>2 DEF Entry
    <3>7. CASE m = n
      BY <3>2, <3>3, <3>7
    <3>8. CASE m # n
      <4>1. audit[m].order # audit[n].order
        BY <3>4, <3>5, <3>8 DEF AuditInv, DatesInv
      <4>2. audit[m].order < audit[n].order /\ n < m
        BY <3>1, <3>4, <3>5, <3>6, <3>8, <4>1
      <4>3. Encloses(m, n)
        BY <4>2 DEF Encloses
      <4> QED
        BY <3>1, <3>2, <3>3, <4>3
    <3> QED
      BY <3>7, <3>8
  <2>2. \A p \in Created(programs) : Logged("program", p)
    BY DEF AuditInv, LogInv
  <2>3. \A u \in Created(rules) : Logged("rule", u)
    BY DEF AuditInv, LogInv
  <2> QED
    BY <2>1, <2>2, <2>3 DEF AuditTellsState
<1> QED
  BY <1>1, <1>2, AuditInit, PTL DEF Spec
============================================================================
