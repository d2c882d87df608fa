-------------------------- MODULE EnrollmentProofs --------------------------
(***************************************************************************)
(* What holds of Enrollment for every set of requests, numbers and         *)
(* addresses.  The argument rests on one inductive invariant: the rows     *)
(* that are in the table and those that are about to be have different     *)
(* keys; a transaction that has inserted the row of a card is the only     *)
(* one that has, and nobody else's is there; and the token a request       *)
(* holds is that of the row, or of the row it has inserted itself.         *)
(***************************************************************************)
EXTENDS Enrollment, TLAPS

Early == {"idle", "phone", "email", "lookup", "insert", "inserted"}
Transacting == {"select", "insertPass", "snapshot", "link", "commit"}

\* Before its customer is registered a request has nothing; it works on the
\* card of a customer who is; it has no rows but in its transaction.
Stages ==
    \A r \in Requests :
        /\ req[r].pc \in Early => r \notin Registered /\ req[r].token = NoTokens
        /\ req[r].pc \in Transacting \cup {"build"} => req[r].of \in Registered
        /\ req[r].pc # "done" => req[r].given = NoTokens
        /\ req[r].given # NoTokens => req[r].of \in Registered
        /\ req[r].rows # {} => req[r].pc \in Transacting

\* A row that was inserted and not yet committed has keys of its own.
KeysInv ==
    \A r \in Requests : req[r].pc = "inserted" =>
        /\ \A c \in Registered : ~HasPhone(c, r) /\ ~HasEmail(c, r)
        /\ \A q \in Requests \ {r} : req[q].pc = "inserted" =>
              /\ req[q].phone # req[r].phone
              /\ req[r].email # None => req[q].email # req[r].email

\* A card's row is inserted once.
RowsInv ==
    \A r \in Requests, f \in Platforms : f \in req[r].rows =>
        /\ passes[req[r].of][f] = None
        /\ \A q \in Requests \ {r} : f \in req[q].rows => req[q].of # req[r].of

\* The token a request holds is the row's, or will be.
TokensInv ==
    \A r \in Requests, f \in Platforms :
        req[r].token[f] # None /\ ~req[r].aborted /\ req[r].pc # "done" =>
            \/ f \in req[r].rows /\ req[r].token[f] = r
            \/ passes[req[r].of][f] = req[r].token[f]

IInv == TypeOK /\ Stages /\ KeysInv /\ OneCustomerPerKey /\ RowsInv /\ TokensInv /\ LinksOpen

----------------------------------------------------------------------------
(* Type correctness.                                                       *)

\* With nobody registered and nothing in the tables the invariant holds.
LEMMA InitInv == Init => IInv
<1> SUFFICES ASSUME Init PROVE IInv
  OBVIOUS
<1>1. NoTokens \in Tokens
  BY DEF NoTokens, Tokens
<1>2. TypeOK
  BY <1>1, NumbersAssumption DEF Init, TypeOK, Programs, Request, Kinds, Pcs, Replies, Phones,
     Platforms, Registered
<1> QED
  BY <1>2 DEF Init, IInv, Stages, KeysInv, OneCustomerPerKey, RowsInv, TokensInv, LinksOpen,
     NoTokens, Registered, Early, Transacting, Platforms

\* Whatever a request does, it becomes a request.
LEMMA Becoming ==
    ASSUME IInv, NEW r \in Requests, Begin(r) \/ Register(r) \/ Card(r)
    PROVE  \E x \in Request : Become(r, x)
<1>1. req[r] \in Request
  BY DEF IInv, TypeOK
<1>2. \A reply \in Replies : [req[r] EXCEPT !.pc = "done", !.reply = reply, !.rows = {}] \in Request
  BY <1>1 DEF Request, Pcs
<1>3. \A pc \in Pcs : [req[r] EXCEPT !.pc = pc] \in Request
  BY <1>1 DEF Request
<1>4. \A token \in Requests : Holding(r, token) \in Request
  BY <1>1 DEF Request, Holding, Tokens, Pcs
<1>5. CASE Begin(r)
  <2>1. /\ \A phone \in Phones : normalizePhone(phone) \in Phones
        /\ Registered \subseteq Requests
    BY DEF Phones, normalizePhone, Registered
  <2> QED
    BY <1>1, <1>5, <2>1 DEF Begin, Request, Kinds, Pcs, Platforms
<1>6. CASE CheckPhone(r) \/ CheckEmail(r) \/ Lookup(r) \/ FailRegistration(r)
  BY <1>2, <1>3, <1>6 DEF CheckPhone, CheckEmail, Lookup, FailRegistration, Reply, Goto, Pcs, Replies
<1>7. CASE Insert(r)
  <2>1. [req[r] EXCEPT !.pc = "inserted", !.balance = (program = "on")] \in Request
    BY <1>1 DEF Request, Pcs
  <2> QED
    BY <1>2, <1>7, <2>1 DEF Insert, Reply, Inserted, PhoneTaken, EmailTaken, Replies
<1>8. CASE Commit(r) \/ CommitLost(r)
  BY <1>1, <1>8 DEF Commit, CommitLost, Request, Pcs, Replies, Platforms
<1>9. CASE SelectPass(r) \/ InsertPass(r)
  <2> DEFINE row == passes[req[r].of][req[r].platform]
  <2>1. row # None => row \in Requests
    <3>1. req[r].of \in Requests /\ req[r].platform \in Platforms
      BY <1>1, <1>9 DEF IInv, Stages, Registered, Transacting, SelectPass, InsertPass, Request
    <3> QED
      BY <3>1 DEF IInv, TypeOK, Tokens
  <2>2. [Holding(r, r) EXCEPT !.rows = @ \cup {req[r].platform}] \in Request
    BY <1>1, <1>4 DEF Request
  <2>3. [req[r] EXCEPT !.pc = "insertPass"] \in Request
    BY <1>3 DEF Pcs
  <2> QED
    BY <1>4, <1>9, <2>1, <2>2, <2>3 DEF SelectPass, InsertPass
<1>10. CASE Snapshot(r)
  <2>1. \A pc \in Pcs : [req[r] EXCEPT !.ok = (program # "none"), !.pc = pc] \in Request
    BY <1>1 DEF Request
  <2>2. [req[r] EXCEPT !.ok = (program # "none"), !.platform = "google"] \in Request
    BY <1>1 DEF Request, Platforms
  <2> QED
    BY <1>3, <1>10, <2>1, <2>2 DEF Snapshot, Pcs
<1>11. CASE BuildLink(r) \/ LoseGoogle(r)
  <2>1. [req[r] EXCEPT !.token["google"] = None, !.pc = "commit"] \in Request
    BY <1>1 DEF Request, Tokens, Pcs
  <2>2. [req[r] EXCEPT !.rows = {}, !.aborted = TRUE, !.pc = "commit"] \in Request
    BY <1>1 DEF Request, Pcs
  <2> QED
    BY <1>3, <1>11, <2>1, <2>2 DEF BuildLink, LoseGoogle, Goto, Pcs
<1>12. CASE CommitPasses(r) \/ CommitPassesLost(r) \/ BuildFails(r) \/ FailCard(r)
  <2>1. [req[r] EXCEPT !.pc = "build", !.rows = {}] \in Request
    BY <1>1 DEF Request, Pcs
  <2>2. Without(r) \in Replies
    BY DEF Without, Replies
  <2> QED
    BY <1>2, <1>12, <2>1, <2>2 DEF CommitPasses, CommitPassesLost, BuildFails, FailCard, Reply
<1>13. CASE Answer(r)
  <2>1. Links(r) \in Tokens
    BY <1>1 DEF Links, Tokens, Request
  <2>2. \A reply \in Replies :
           [req[r] EXCEPT !.pc = "done", !.given = Links(r), !.reply = reply] \in Request
    BY <1>1, <2>1 DEF Request, Pcs
  <2> QED
    BY <1>2, <1>13, <2>2 DEF Answer, Reply, Replies
<1> QED
  BY <1>5, <1>6, <1>7, <1>8, <1>9, <1>10, <1>11, <1>12, <1>13
  DEF Register, Card

\* Only two statements write to the tables for good.
LEMMA Effects ==
    ASSUME NEW r \in Requests, Begin(r) \/ Register(r) \/ Card(r)
    PROVE  \/ UNCHANGED Rows
           \/ (Commit(r) \/ CommitLost(r)) /\ Saved(r)
           \/ (CommitPasses(r) \/ CommitPassesLost(r)) /\ PassesSaved(r)
<1>1. CASE Begin(r)
  BY <1>1 DEF Begin
<1>2. CASE Register(r)
  BY <1>2 DEF Register, CheckPhone, CheckEmail, Lookup, Insert, Inserted, Commit, CommitLost,
     FailRegistration, Goto, Reply
<1>3. CASE Card(r)
  BY <1>3 DEF Card, SelectPass, InsertPass, Snapshot, BuildLink, LoseGoogle, CommitPasses,
     CommitPassesLost, BuildFails, Answer, FailCard, Goto, Reply
<1> QED
  BY <1>1, <1>2, <1>3

\* A registration adds its customer, with the form's keys, and no other.
LEMMA Registering ==
    ASSUME IInv, NEW r \in Requests, Saved(r)
    PROVE  /\ customers' \in [Requests -> Customer \cup {None}]
           /\ Registered' = Registered \cup {r}
           /\ customers'[r] = [phone |-> req[r].phone, email |-> req[r].email]
           /\ \A c \in Requests \ {r} : customers'[c] = customers[c]
<1>1. [phone |-> req[r].phone, email |-> req[r].email] \in Customer
  BY DEF IInv, TypeOK, Request, Customer
<1> QED
  BY <1>1, NoneAssumption DEF Saved, IInv, TypeOK, Registered

\* The rows of a card are added to the customer's, and to nobody else's.
LEMMA Carding ==
    ASSUME IInv, NEW r \in Requests, req[r].pc = "commit", PassesSaved(r)
    PROVE  /\ req[r].of \in Registered
           /\ passes' \in [Requests -> Tokens]
           /\ \A c \in Requests, f \in Platforms :
                passes'[c][f] = IF c = req[r].of /\ f \in req[r].rows THEN r ELSE passes[c][f]
<1>1. req[r].of \in Registered
  BY DEF IInv, Stages, Transacting
<1> DEFINE new == [f \in Platforms |-> IF f \in req[r].rows THEN r ELSE passes[req[r].of][f]]
<1>2. passes' = [passes EXCEPT ![req[r].of] = new]
  BY DEF PassesSaved
<1>3. new \in Tokens /\ \A f \in Platforms :
        new[f] = IF f \in req[r].rows THEN r ELSE passes[req[r].of][f]
  BY <1>1 DEF IInv, TypeOK, Tokens, Registered
<1> HIDE DEF new
<1> QED
  BY <1>1, <1>2, <1>3 DEF IInv, TypeOK, Registered

\* Every step keeps the types: the fields a request gains, and the rows of the
\* two tables that a commit writes.
LEMMA TypeStep == IInv /\ [Next]_vars => TypeOK'
<1> SUFFICES ASSUME IInv, [Next]_vars PROVE TypeOK'
  OBVIOUS
<1>1. CASE ChangeProgram \/ ChangeStatus \/ UNCHANGED vars
  BY <1>1 DEF IInv, ChangeProgram, ChangeStatus, vars, TypeOK, Programs, Registered
<1> SUFFICES ASSUME NEW r \in Requests, Begin(r) \/ Register(r) \/ Card(r) PROVE TypeOK'
  BY <1>1 DEF Next
<1>2. req' \in [Requests -> Request]
  BY Becoming DEF Become, IInv, TypeOK
<1>3. CASE UNCHANGED Rows
  BY <1>2, <1>3 DEF Rows, IInv, TypeOK, Registered
<1>4. CASE Saved(r)
  <2>1. balances' \subseteq balances \cup {r} /\ audit' \subseteq audit \cup {r}
    BY <1>4 DEF Saved
  <2>2. balances' \subseteq Registered' /\ audit' \subseteq Registered'
    BY <1>4, <2>1, Registering DEF IInv, TypeOK
  <2>3. passes' \in [Requests -> Tokens] /\ \A c \in Requests : passes'[c] # NoTokens => c \in Registered'
    BY <1>4, Registering DEF Saved, IInv, TypeOK
  <2>4. ({balances, audit} \subseteq SUBSET Registered)'
    BY <2>2
  <2>5. customers' \in [Requests -> Customer \cup {None}] /\ UNCHANGED <<active, program>>
    BY <1>4, Registering DEF Saved
  <2> QED
    BY <1>2, <2>3, <2>4, <2>5 DEF IInv, TypeOK
<1>5. CASE req[r].pc = "commit" /\ PassesSaved(r)
  <2>1. \A c \in Requests : passes'[c] # NoTokens => c \in Registered
    <3> SUFFICES ASSUME NEW c \in Requests, c \notin Registered PROVE passes'[c] = passes[c]
      BY DEF IInv, TypeOK
    <3> QED
      BY <1>5, Carding DEF PassesSaved, IInv, TypeOK
  <2> QED
    BY <1>2, <1>5, <2>1, Carding DEF PassesSaved, IInv, TypeOK, Registered
<1> QED
  BY <1>3, <1>4, <1>5, Effects DEF CommitPasses, CommitPassesLost

----------------------------------------------------------------------------
(* The stages of a request.                                                *)

\* The other requests stay what they are.
LEMMA Others ==
    ASSUME IInv, NEW r \in Requests, NEW x, Become(r, x)
    PROVE  req'[r] = x /\ \A q \in Requests \ {r} : req'[q] = req[q]
BY DEF Become, IInv, TypeOK

\* Registered customers stay, and nobody registers but by a commit of his own.
LEMMA Growing ==
    ASSUME IInv, NEW r \in Requests, Begin(r) \/ Register(r) \/ Card(r)
    PROVE  /\ Registered \subseteq Registered'
           /\ Registered' \subseteq Registered \cup {r}
           /\ Commit(r) \/ CommitLost(r) \/ Registered' = Registered
BY Effects, Registering DEF Rows, PassesSaved, Registered

\* What a step that only moves on, or only answers, leaves of a request.
LEMMA GotoFields ==
    ASSUME IInv, NEW r \in Requests, NEW pc, Goto(r, pc)
    PROVE  /\ req'[r].pc = pc /\ req'[r].rows = req[r].rows /\ req'[r].token = req[r].token
           /\ req'[r].given = req[r].given /\ req'[r].of = req[r].of
           /\ req'[r].aborted = req[r].aborted
           /\ req'[r].phone = req[r].phone /\ req'[r].email = req[r].email
           /\ Registered' = Registered /\ passes' = passes
BY DEF IInv, TypeOK, Goto, Become, Request, Rows, Registered

\* What an answer changes of a request.
LEMMA ReplyFields ==
    ASSUME IInv, NEW r \in Requests, NEW reply, Reply(r, reply)
    PROVE  /\ req'[r].pc = "done" /\ req'[r].rows = {} /\ req'[r].token = req[r].token
           /\ req'[r].given = req[r].given /\ req'[r].of = req[r].of
           /\ req'[r].aborted = req[r].aborted
           /\ req'[r].phone = req[r].phone /\ req'[r].email = req[r].email
           /\ Registered' = Registered /\ passes' = passes
BY DEF IInv, TypeOK, Reply, Become, Request, Rows, Registered

\* A form that was sent: a request with nothing in its hands.
LEMMA BeginFields ==
    ASSUME IInv, NEW r \in Requests, Begin(r)
    PROVE  /\ req[r].pc = "idle" /\ req'[r].rows = req[r].rows /\ req'[r].token = req[r].token
           /\ req'[r].given = req[r].given /\ req'[r].aborted = req[r].aborted
           /\ \/ req'[r].pc \in {"phone", "lookup"}
              \/ req'[r].pc \in {"select", "snapshot"} /\ req'[r].of \in Registered
           /\ Registered' = Registered /\ passes' = passes
<1> USE DEF IInv, TypeOK, Become, Request
<1>1. req[r].pc = "idle" /\ Registered' = Registered /\ passes' = passes
  BY DEF Begin, Rows, Registered
<1>2. CASE \E phone \in Phones, email \in Emails \cup {None} :
            Become(r, [req[r] EXCEPT !.kind = "manual", !.pc = "phone",
                                     !.phone = phone, !.email = email])
  BY <1>1, <1>2
<1>3. CASE \E phone \in Phones, email \in Emails :
            Become(r, [req[r] EXCEPT !.kind = "public", !.pc = "lookup",
                                     !.phone = normalizePhone(phone), !.email = email])
  BY <1>1, <1>3
<1>4. CASE \E c \in Registered :
            Become(r, [req[r] EXCEPT !.kind = "apple", !.pc = "select",
                                     !.of = c, !.platform = "apple"])
  BY <1>1, <1>4
<1>5. CASE \E c \in Registered :
            Become(r, [req[r] EXCEPT !.kind = "google", !.pc = "snapshot",
                                     !.of = c, !.platform = "google"])
  BY <1>1, <1>5
<1> QED
  BY <1>2, <1>3, <1>4, <1>5 DEF Begin

\* An inserted row is still its own transaction's.
LEMMA InsertedFields ==
    ASSUME IInv, NEW r \in Requests, Inserted(r)
    PROVE  /\ req'[r].pc = "inserted" /\ req'[r].rows = req[r].rows
           /\ req'[r].token = req[r].token
           /\ req'[r].given = req[r].given /\ req'[r].of = req[r].of
           /\ req'[r].aborted = req[r].aborted
           /\ req'[r].phone = req[r].phone /\ req'[r].email = req[r].email
           /\ Registered' = Registered /\ passes' = passes
BY DEF IInv, TypeOK, Inserted, Become, Request, Rows, Registered

\* A committed registration: its customer exists, and its card comes next.
LEMMA CommitFields ==
    ASSUME IInv, NEW r \in Requests, Commit(r) \/ CommitLost(r)
    PROVE  /\ req[r].pc = "inserted" /\ Saved(r)
           /\ req'[r].rows = req[r].rows /\ req'[r].token = req[r].token
           /\ req'[r].given = req[r].given /\ req'[r].aborted = req[r].aborted
           /\ \/ req'[r].pc = "done"
              \/ req'[r].pc = "select" /\ req'[r].of = r
           /\ passes' = passes
<1>1. CASE Commit(r)
  BY <1>1 DEF IInv, TypeOK, Commit, Become, Request, Saved
<1>2. CASE CommitLost(r)
  BY <1>2 DEF IInv, TypeOK, CommitLost, Become, Request, Saved
<1> QED
  BY <1>1, <1>2

\* A request that registers: what of it may change.
LEMMA RegisterStage ==
    ASSUME IInv, NEW r \in Requests, Begin(r) \/ Register(r)
    PROVE  /\ req[r].pc \in Early /\ req'[r].pc \in Early \cup Transacting \cup {"done"}
           /\ req'[r].pc \in Early => r \notin Registered'
           /\ req'[r].rows = {} /\ req'[r].token = NoTokens /\ req'[r].given = NoTokens
           /\ req'[r].pc \in Transacting => req'[r].of \in Registered'
<1>1. req[r].pc \in Early
  BY DEF Begin, Register, CheckPhone, CheckEmail, Lookup, Insert, Commit, CommitLost,
     FailRegistration, Early
<1>2. /\ req[r].rows = {} /\ req[r].token = NoTokens /\ req[r].given = NoTokens
      /\ r \notin Registered
  BY <1>1 DEF IInv, Stages, Early, Transacting
<1>3. CASE Begin(r)
  BY <1>1, <1>2, <1>3, BeginFields DEF Early, Transacting
<1>4. CASE Commit(r) \/ CommitLost(r)
  <2>1. /\ Saved(r) /\ req'[r].rows = {} /\ req'[r].token = NoTokens /\ req'[r].given = NoTokens
        /\ req'[r].pc = "done" \/ (req'[r].pc = "select" /\ req'[r].of = r)
    BY <1>2, <1>4, CommitFields
  <2>2. r \in Registered'
    BY <2>1, Registering
  <2> QED
    BY <1>1, <2>1, <2>2 DEF Early, Transacting
<1>5. CASE CheckPhone(r) \/ CheckEmail(r) \/ Lookup(r) \/ Insert(r) \/ FailRegistration(r)
  BY <1>1, <1>2, <1>5, GotoFields, ReplyFields, InsertedFields
     DEF CheckPhone, CheckEmail, Lookup, Insert, FailRegistration, Early, Transacting
<1> QED
  BY <1>3, <1>4, <1>5 DEF Register

\* What the steps of a card do to its request: the parts the invariant is about.
Same(r) == req'[r].of = req[r].of /\ passes' = passes
Moved(r) ==
    /\ Same(r) /\ {req[r].pc, req'[r].pc} \subseteq Transacting
    /\ req'[r].token = req[r].token /\ req'[r].rows = req[r].rows
    /\ req'[r].given = req[r].given /\ req'[r].aborted = req[r].aborted
Left(r) ==
    /\ Same(r) /\ req'[r].pc = "done"
    /\ req'[r].rows = {} /\ req'[r].given = req[r].given
Dropped(r) ==
    /\ Same(r) /\ {req[r].pc, req'[r].pc} \subseteq Transacting
    /\ req'[r].rows = {} /\ req'[r].given = req[r].given /\ req'[r].aborted = TRUE
Unlinked(r) ==
    /\ Same(r) /\ {req[r].pc, req'[r].pc} \subseteq Transacting
    /\ req'[r].token = [req[r].token EXCEPT !["google"] = None]
    /\ req'[r].rows = req[r].rows
    /\ req'[r].given = req[r].given /\ req'[r].aborted = req[r].aborted
Held(r, f) ==
    /\ Same(r) /\ {req[r].pc, req'[r].pc} \subseteq Transacting
    /\ req'[r].token = [req[r].token EXCEPT ![f] = passes[req[r].of][f]]
    /\ req'[r].rows = req[r].rows
    /\ req'[r].given = req[r].given /\ req'[r].aborted = req[r].aborted
Drew(r, f) ==
    /\ Same(r) /\ {req[r].pc, req'[r].pc} \subseteq Transacting
    /\ passes[req[r].of][f] = None
    /\ \A q \in Requests \ {r} : ~(req[q].of = req[r].of /\ f \in req[q].rows)
    /\ req'[r].token = [req[r].token EXCEPT ![f] = r]
    /\ req'[r].rows = req[r].rows \cup {f}
    /\ req'[r].given = req[r].given /\ req'[r].aborted = req[r].aborted
Stored(r) ==
    /\ req[r].pc = "commit" /\ PassesSaved(r)
    /\ req'[r].pc \in {"build", "done"} /\ req'[r].of = req[r].of
    /\ req'[r].rows = {} /\ req'[r].token = req[r].token
    /\ req'[r].given = req[r].given /\ req'[r].aborted = req[r].aborted
Answered(r) ==
    /\ Same(r) /\ req[r].pc = "build" /\ req'[r].pc = "done"
    /\ req'[r].given = Links(r) /\ req'[r].rows = req[r].rows
    /\ req'[r].aborted = req[r].aborted

\* A row that was there: the request takes its token.
LEMMA HoldingFields ==
    ASSUME IInv, NEW r \in Requests, NEW token
    PROVE  LET h == Holding(r, token) IN
           /\ h.token = [req[r].token EXCEPT ![req[r].platform] = token]
           /\ h.rows = req[r].rows /\ h.of = req[r].of
           /\ h.given = req[r].given /\ h.aborted = req[r].aborted
           /\ h.pc \in {"snapshot", "link"}
<1>1. req[r] \in Request
  BY DEF IInv, TypeOK
<1> QED
  BY <1>1 DEF Holding, Request

\* A row of its own: the request takes the token it drew.
LEMMA DrawnFields ==
    ASSUME IInv, NEW r \in Requests, NEW rows
    PROVE  LET h == Holding(r, r)
               x == [h EXCEPT !.rows = rows]
           IN  /\ x.token = h.token /\ x.rows = rows /\ x.of = h.of
               /\ x.given = h.given /\ x.aborted = h.aborted /\ x.pc = h.pc
<1>1. req[r] \in Request
  BY DEF IInv, TypeOK
<1> QED
  BY <1>1 DEF Holding, Request

\* Each step of a card, as one of a few ways its request may change.
LEMMA CardSteps ==
    ASSUME IInv, NEW r \in Requests, Card(r)
    PROVE  \/ Moved(r) \/ Left(r) \/ Dropped(r) \/ Unlinked(r) \/ Stored(r) \/ Answered(r)
           \/ \E f \in Platforms : Held(r, f) \/ Drew(r, f)
<1>1. req \in [Requests -> Request] /\ req[r] \in Request /\ req[r].platform \in Platforms
  BY DEF IInv, TypeOK, Request
<1>2. CASE SelectPass(r) \/ InsertPass(r)
  <2> DEFINE f == req[r].platform
             row == passes[req[r].of][f]
  <2>1. req[r].pc \in {"select", "insertPass"} /\ passes' = passes
    BY <1>2 DEF SelectPass, InsertPass, Rows
  <2>2. CASE row # None
    <3>1. Become(r, Holding(r, row))
      BY <1>2, <2>2 DEF SelectPass, InsertPass
    <3>2. req'[r] = Holding(r, row)
      BY <1>1, <3>1 DEF Become
    <3>3. Held(r, f)
      BY <2>1, <3>2, HoldingFields DEF Held, Same, Transacting
    <3> QED
      BY <1>1, <3>3
  <2>3. CASE row = None /\ SelectPass(r)
    BY <1>1, <2>1, <2>3 DEF SelectPass, Become, Moved, Same, Transacting, Request
  <2>4. CASE row = None /\ InsertPass(r)
    <3>1. Become(r, [Holding(r, r) EXCEPT !.rows = req[r].rows \cup {f}])
      BY <2>4 DEF InsertPass, Holding
    <3>2. \A q \in Requests \ {r} : ~(req[q].of = req[r].of /\ f \in req[q].rows)
      BY <2>4 DEF InsertPass, RowHeld
    <3>3. req'[r] = [Holding(r, r) EXCEPT !.rows = req[r].rows \cup {f}]
      BY <1>1, <3>1 DEF Become
    <3>4. Drew(r, f)
      BY <2>1, <2>4, <3>2, <3>3, HoldingFields, DrawnFields DEF Drew, Same, Transacting
    <3> QED
      BY <1>1, <3>4
  <2> QED
    BY <1>2, <2>2, <2>3, <2>4
<1>3. CASE Snapshot(r)
  BY <1>1, <1>3 DEF Snapshot, Become, Rows, Moved, Same, Transacting, Request
<1>4. CASE BuildLink(r)
  <2>1. CASE Goto(r, "commit")
    BY <1>4, <2>1, GotoFields DEF BuildLink, Moved, Same, Transacting
  <2>2. CASE Become(r, [req[r] EXCEPT !.token["google"] = None, !.pc = "commit"]) /\ UNCHANGED Rows
    BY <1>1, <1>4, <2>2 DEF BuildLink, Become, Rows, Unlinked, Same, Transacting, Request
  <2> QED
    BY <1>4, <2>1, <2>2 DEF BuildLink
<1>5. CASE LoseGoogle(r)
  BY <1>1, <1>5 DEF LoseGoogle, Become, Rows, Dropped, Same, Transacting, Request
<1>6. CASE CommitPasses(r) \/ CommitPassesLost(r)
  BY <1>1, <1>6 DEF CommitPasses, CommitPassesLost, Become, Stored, Request
<1>7. CASE BuildFails(r) \/ FailCard(r)
  BY <1>7, ReplyFields DEF BuildFails, FailCard, Left, Same
<1>8. CASE Answer(r)
  <2>1. CASE Reply(r, "nothing")
    BY <2>1, ReplyFields DEF Left, Same
  <2>2. CASE ~Reply(r, "nothing")
    <3>1. PICK reply \in {"success", "pass"} :
             Become(r, [req[r] EXCEPT !.pc = "done", !.given = Links(r), !.reply = reply])
      BY <1>8, <2>2 DEF Answer
    <3>2. req[r].pc = "build" /\ passes' = passes
      BY <1>8, <2>2 DEF Answer, Rows
    <3> QED
      BY <1>1, <3>1, <3>2 DEF Become, Answered, Same, Request
  <2> QED
    BY <2>1, <2>2
<1> QED
  BY <1>2, <1>3, <1>4, <1>5, <1>6, <1>7, <1>8 DEF Card

\* A request that makes a card: what of it may change.
LEMMA CardStage ==
    ASSUME IInv, NEW r \in Requests, Card(r)
    PROVE  /\ req[r].pc \in Transacting \cup {"build"} /\ req[r].of \in Registered
           /\ req'[r].of = req[r].of /\ Registered' = Registered
           /\ req'[r].pc \in Transacting \cup {"build", "done"}
           /\ req'[r].pc # "done" => req'[r].given = NoTokens
           /\ req'[r].rows # {} => req'[r].pc \in Transacting
<1>1. req[r].pc \in Transacting \cup {"build"}
  BY DEF Card, SelectPass, InsertPass, Snapshot, BuildLink, LoseGoogle, CommitPasses,
     CommitPassesLost, BuildFails, Answer, FailCard, Transacting
<1>2. /\ req[r].of \in Registered /\ req[r].given = NoTokens
      /\ req[r].rows # {} => req[r].pc \in Transacting
  BY <1>1 DEF IInv, Stages, Transacting
<1>3. Registered' = Registered
  <2>1. ~Commit(r) /\ ~CommitLost(r)
    BY <1>1 DEF Commit, CommitLost, Transacting
  <2> QED
    BY <2>1, Growing
<1> QED
  BY <1>1, <1>2, <1>3, CardSteps DEF Moved, Left, Dropped, Unlinked, Held, Drew, Stored, Answered,
     Same, Transacting

\* What a request may hold at each stage is preserved.
LEMMA StagesStep ==
    ASSUME IInv, NEW r \in Requests, Begin(r) \/ Register(r) \/ Card(r)
    PROVE  Stages'
<1>1. \A q \in Requests \ {r} : req'[q] = req[q]
  <2>1. PICK x \in Request : Become(r, x)
    BY Becoming
  <2> QED
    BY <2>1, Others
<1>2. Registered \subseteq Registered' /\ Registered' \subseteq Registered \cup {r}
  BY Growing
<1>3. CASE Begin(r) \/ Register(r)
  BY <1>1, <1>2, <1>3, RegisterStage DEF IInv, Stages, Early, Transacting
<1>4. CASE Card(r)
  BY <1>1, <1>2, <1>4, CardStage DEF IInv, Stages, Early, Transacting
<1> QED
  BY <1>3, <1>4

----------------------------------------------------------------------------
(* The keys.                                                               *)

\* Keys stay unique: an insertion looks at the table and at the rows that are
\* not yet in it, and a commit only moves a row from these to that.
LEMMA KeysStep ==
    ASSUME IInv, NEW r \in Requests, Begin(r) \/ Register(r) \/ Card(r)
    PROVE  KeysInv' /\ OneCustomerPerKey'
<1>1. \A q \in Requests \ {r} : req'[q] = req[q]
  <2>1. PICK x \in Request : Become(r, x)
    BY Becoming
  <2> QED
    BY <2>1, Others
<1>2. KeysInv /\ OneCustomerPerKey
  BY DEF IInv
<1>3. CASE Commit(r) \/ CommitLost(r)
  <2>1. req[r].pc = "inserted" /\ req'[r].pc # "inserted" /\ Saved(r)
    BY <1>3, CommitFields
  <2>2. /\ Registered' = Registered \cup {r}
        /\ customers'[r].phone = req[r].phone /\ customers'[r].email = req[r].email
        /\ \A c \in Requests \ {r} : customers'[c] = customers[c]
    <3>1. customers'[r] = [phone |-> req[r].phone, email |-> req[r].email]
      BY <2>1, Registering
    <3> QED
      BY <2>1, <3>1, Registering
  <2>3. r \notin Registered /\ Registered \subseteq Requests
    BY <2>1 DEF IInv, Stages, Early, Registered
  <2>4. \A c \in Registered : /\ customers[c].phone # req[r].phone
                              /\ req[r].email # None => customers[c].email # req[r].email
    BY <1>2, <2>1 DEF KeysInv, HasPhone, HasEmail
  <2>5. OneCustomerPerKey'
    BY <1>2, <2>2, <2>3, <2>4 DEF OneCustomerPerKey
  <2>6. KeysInv'
    BY <1>1, <1>2, <2>1, <2>2, <2>3 DEF KeysInv, HasPhone, HasEmail
  <2> QED
    BY <2>5, <2>6
<1>4. CASE ~Commit(r) /\ ~CommitLost(r)
  <2>1. customers' = customers /\ Registered' = Registered /\ OneCustomerPerKey'
    BY <1>2, <1>4, Effects DEF Rows, PassesSaved, Registered, OneCustomerPerKey
  <2>2. CASE req'[r].pc # "inserted"
    BY <1>1, <1>2, <2>1, <2>2 DEF KeysInv, HasPhone, HasEmail, Registered
  <2>3. CASE req'[r].pc = "inserted"
    <3>1. Insert(r) /\ Inserted(r)
      <4>1. ~Card(r)
        BY <2>3, CardStage DEF Transacting
      <4>2. ~Begin(r)
        BY <2>3, BeginFields
      <4> QED
        BY <1>4, <2>3, <4>1, <4>2, GotoFields, ReplyFields
           DEF Register, CheckPhone, CheckEmail, Lookup, Insert, FailRegistration
    <3>2. /\ ~KeyHeld(r) /\ \A c \in Registered : ~HasPhone(c, r) /\ ~HasEmail(c, r)
      BY <2>3, <3>1, ReplyFields DEF Insert
    <3>3. req'[r].phone = req[r].phone /\ req'[r].email = req[r].email
      BY <3>1, InsertedFields
    <3> QED
      BY <1>1, <1>2, <2>1, <3>2, <3>3 DEF KeysInv, HasPhone, HasEmail, KeyHeld, Registered
  <2> QED
    BY <2>1, <2>2, <2>3
<1> QED
  BY <1>3, <1>4

----------------------------------------------------------------------------
(* The cards.                                                              *)

\* A request with something in its hands works on a customer's card.
LEMMA Handling ==
    ASSUME IInv, NEW q \in Requests, NEW f \in Platforms,
           \/ f \in req[q].rows \/ req[q].given[f] # None
           \/ req[q].token[f] # None /\ req[q].pc # "done"
    PROVE  req[q].of \in Requests
<1>1. NoTokens[f] = None
  BY DEF NoTokens
<1>2. req[q].pc \in Early \cup Transacting \cup {"build", "done"}
  BY DEF IInv, TypeOK, Request, Pcs, Early, Transacting
<1> QED
  BY <1>1, <1>2 DEF IInv, Stages, Registered

\* A row of a card that is in the table keeps its token.
LEMMA StoredStep ==
    ASSUME IInv, NEW r \in Requests, Stored(r), \A q \in Requests \ {r} : req'[q] = req[q]
    PROVE  RowsInv' /\ TokensInv' /\ LinksOpen'
<1>1. /\ req[r].of \in Requests
      /\ \A c \in Requests, f \in Platforms :
            passes'[c][f] = IF c = req[r].of /\ f \in req[r].rows THEN r ELSE passes[c][f]
  BY Carding DEF Stored, Registered
<1>2. \A f \in Platforms : f \in req[r].rows =>
        /\ passes[req[r].of][f] = None
        /\ \A q \in Requests \ {r} : f \in req[q].rows => req[q].of # req[r].of
  BY DEF IInv, RowsInv
<1>3. \A q \in Requests, f \in Platforms : req[q].of \in Requests /\ passes[req[q].of][f] # None
         => passes'[req[q].of][f] = passes[req[q].of][f]
  BY <1>1, <1>2
<1>4. RowsInv'
  <2> SUFFICES ASSUME NEW q \in Requests \ {r}, NEW f \in Platforms, f \in req[q].rows
               PROVE  /\ passes'[req[q].of][f] = None
                      /\ \A p \in Requests \ {q} : f \in req'[p].rows => req'[p].of # req[q].of
    BY DEF RowsInv, Stored
  <2>1. req[q].of \in Requests /\ passes[req[q].of][f] = None
    BY Handling DEF IInv, RowsInv
  <2>2. passes'[req[q].of][f] = None
    BY <1>1, <1>2, <2>1
  <2> QED
    BY <2>2 DEF IInv, RowsInv, Stored
<1>5. TokensInv'
  <2> SUFFICES ASSUME NEW q \in Requests, NEW f \in Platforms, req'[q].token[f] # None,
                      ~req'[q].aborted, req'[q].pc # "done"
               PROVE  \/ f \in req'[q].rows /\ req'[q].token[f] = q
                      \/ passes'[req'[q].of][f] = req'[q].token[f]
    BY DEF TokensInv
  <2>1. /\ req[q].token[f] = req'[q].token[f] /\ req[q].of = req'[q].of
        /\ ~req[q].aborted /\ req[q].pc # "done"
    BY DEF Stored
  <2>2. req[q].of \in Requests
    BY <2>1, Handling
  <2>3. \/ f \in req[q].rows /\ req[q].token[f] = q
        \/ passes[req[q].of][f] = req[q].token[f]
    BY <2>1 DEF IInv, TokensInv
  <2> QED
    BY <1>1, <1>3, <2>1, <2>2, <2>3
<1>6. LinksOpen'
  <2> SUFFICES ASSUME NEW q \in Requests, NEW f \in Platforms, req'[q].given[f] # None,
                      ~req'[q].aborted
               PROVE  passes'[req'[q].of][f] = req'[q].given[f]
    BY DEF LinksOpen, Opens
  <2>1. req[q].given[f] = req'[q].given[f] /\ req[q].of = req'[q].of /\ ~req[q].aborted
    BY DEF Stored
  <2>2. req[q].of \in Requests /\ passes[req[q].of][f] = req[q].given[f]
    BY <2>1, Handling DEF IInv, LinksOpen, Opens
  <2> QED
    BY <1>3, <2>1, <2>2
<1> QED
  BY <1>4, <1>5, <1>6

\* While the tables stay, only the request that moves has anything to show.
LEMMA StillStep ==
    ASSUME IInv, NEW r \in Requests, \A q \in Requests \ {r} : req'[q] = req[q], passes' = passes,
           \A f \in Platforms : f \in req'[r].rows =>
              /\ passes[req'[r].of][f] = None
              /\ \A q \in Requests \ {r} : f \in req[q].rows => req[q].of # req'[r].of,
           \A f \in Platforms :
              req'[r].token[f] # None /\ ~req'[r].aborted /\ req'[r].pc # "done" =>
                 \/ f \in req'[r].rows /\ req'[r].token[f] = r
                 \/ passes[req'[r].of][f] = req'[r].token[f],
           \A f \in Platforms :
              req'[r].given[f] # None /\ ~req'[r].aborted => Opens(req'[r].of, f, req'[r].given[f])
    PROVE  RowsInv' /\ TokensInv' /\ LinksOpen'
<1>1. RowsInv'
  BY DEF IInv, RowsInv
<1>2. TokensInv'
  BY DEF IInv, TokensInv
<1>3. LinksOpen'
  BY DEF IInv, LinksOpen, Opens
<1> QED
  BY <1>1, <1>2, <1>3

\* Rows are inserted once, and tokens in hand are the rows'.
LEMMA CardsStep ==
    ASSUME IInv, NEW r \in Requests, Begin(r) \/ Register(r) \/ Card(r)
    PROVE  RowsInv' /\ TokensInv' /\ LinksOpen'
<1>1. \A q \in Requests \ {r} : req'[q] = req[q]
  <2>1. PICK x \in Request : Become(r, x)
    BY Becoming
  <2> QED
    BY <2>1, Others
<1>2. \A f \in Platforms : NoTokens[f] = None
  BY DEF NoTokens
<1>3. CASE Begin(r) \/ Register(r)
  <2>1. passes' = passes
    <3>1. ~CommitPasses(r) /\ ~CommitPassesLost(r)
      BY <1>3, RegisterStage DEF CommitPasses, CommitPassesLost, Early
    <3> QED
      BY <3>1, Effects DEF Rows, Saved
  <2>2. req'[r].rows = {} /\ req'[r].token = NoTokens /\ req'[r].given = NoTokens
    BY <1>3, RegisterStage
  <2> QED
    BY <1>1, <1>2, <2>1, <2>2, StillStep
<1>4. CASE Card(r)
  <2>1. req[r].pc # "done" /\ req[r].given = NoTokens /\ req[r].token \in Tokens
    BY <1>4, CardStage DEF IInv, Stages, TypeOK, Request, Transacting
  <2>2. \A f \in Platforms : f \in req[r].rows =>
          /\ passes[req[r].of][f] = None
          /\ \A q \in Requests \ {r} : f \in req[q].rows => req[q].of # req[r].of
    BY DEF IInv, RowsInv
  <2>3. \A f \in Platforms : req[r].token[f] # None /\ ~req[r].aborted =>
          \/ f \in req[r].rows /\ req[r].token[f] = r
          \/ passes[req[r].of][f] = req[r].token[f]
    BY <2>1 DEF IInv, TokensInv
  <2>4. CASE Moved(r)
    BY <1>1, <1>2, <2>1, <2>2, <2>3, <2>4, StillStep DEF Moved, Same
  <2>5. CASE Left(r)
    BY <1>1, <1>2, <2>1, <2>5, StillStep DEF Left, Same
  <2>6. CASE Dropped(r)
    BY <1>1, <1>2, <2>1, <2>6, StillStep DEF Dropped, Same
  <2>7. CASE Unlinked(r)
    <3>1. \A f \in Platforms : req'[r].token[f] \in {None, req[r].token[f]}
      BY <2>1, <2>7 DEF Unlinked, Tokens
    <3>2. \A f \in Platforms :
            req'[r].token[f] # None /\ ~req'[r].aborted /\ req'[r].pc # "done" =>
               \/ f \in req'[r].rows /\ req'[r].token[f] = r
               \/ passes[req'[r].of][f] = req'[r].token[f]
      BY <2>3, <2>7, <3>1 DEF Unlinked, Same
    <3>3. \A f \in Platforms : f \in req'[r].rows =>
            /\ passes[req'[r].of][f] = None
            /\ \A q \in Requests \ {r} : f \in req[q].rows => req[q].of # req'[r].of
      BY <2>2, <2>7 DEF Unlinked, Same
    <3>4. passes' = passes /\ \A f \in Platforms : req'[r].given[f] = None
      BY <1>2, <2>1, <2>7 DEF Unlinked, Same
    <3> QED
      BY <1>1, <3>2, <3>3, <3>4, StillStep
  <2>8. CASE Stored(r)
    BY <1>1, <2>8, StoredStep
  <2>9. CASE Answered(r)
    <3>1. req[r].rows = {}
      BY <2>9 DEF Answered, IInv, Stages, Transacting
    <3>2. \A f \in Platforms : req'[r].given[f] \in {None, req[r].token[f]}
      BY <2>9 DEF Answered, Links
    <3>3. \A f \in Platforms : req'[r].given[f] # None /\ ~req'[r].aborted
             => Opens(req'[r].of, f, req'[r].given[f])
      BY <2>3, <2>9, <3>1, <3>2 DEF Answered, Same, Opens
    <3> QED
      BY <1>1, <2>9, <3>1, <3>3, StillStep DEF Answered, Same
  <2>10. ASSUME NEW g \in Platforms, Held(r, g)
         PROVE  RowsInv' /\ TokensInv' /\ LinksOpen'
    <3>1. \A f \in Platforms :
            req'[r].token[f] = IF f = g THEN passes[req[r].of][f] ELSE req[r].token[f]
      BY <2>1, <2>10 DEF Held, Tokens
    <3>2. \A f \in Platforms :
            req'[r].token[f] # None /\ ~req'[r].aborted /\ req'[r].pc # "done" =>
               \/ f \in req'[r].rows /\ req'[r].token[f] = r
               \/ passes[req'[r].of][f] = req'[r].token[f]
      BY <2>3, <2>10, <3>1 DEF Held, Same
    <3>3. \A f \in Platforms : f \in req'[r].rows =>
            /\ passes[req'[r].of][f] = None
            /\ \A q \in Requests \ {r} : f \in req[q].rows => req[q].of # req'[r].of
      BY <2>2, <2>10 DEF Held, Same
    <3>4. passes' = passes /\ \A f \in Platforms : req'[r].given[f] = None
      BY <1>2, <2>1, <2>10 DEF Held, Same
    <3> QED
      BY <1>1, <3>2, <3>3, <3>4, StillStep
  <2>11. ASSUME NEW g \in Platforms, Drew(r, g)
         PROVE  RowsInv' /\ TokensInv' /\ LinksOpen'
    <3>1. \A f \in Platforms : req'[r].token[f] = IF f = g THEN r ELSE req[r].token[f]
      BY <2>1, <2>11 DEF Drew, Tokens
    <3>2. \A f \in Platforms :
            req'[r].token[f] # None /\ ~req'[r].aborted /\ req'[r].pc # "done" =>
               \/ f \in req'[r].rows /\ req'[r].token[f] = r
               \/ passes[req'[r].of][f] = req'[r].token[f]
      BY <2>3, <2>11, <3>1 DEF Drew, Same
    <3>3. \A f \in Platforms : f \in req'[r].rows =>
            /\ passes[req'[r].of][f] = None
            /\ \A q \in Requests \ {r} : f \in req[q].rows => req[q].of # req'[r].of
      BY <2>2, <2>11 DEF Drew, Same
    <3>4. passes' = passes /\ \A f \in Platforms : req'[r].given[f] = None
      BY <1>2, <2>1, <2>11 DEF Drew, Same
    <3> QED
      BY <1>1, <3>2, <3>3, <3>4, StillStep
  <2> QED
    BY <1>4, <2>4, <2>5, <2>6, <2>7, <2>8, <2>9, <2>10, <2>11, CardSteps
<1> QED
  BY <1>3, <1>4

----------------------------------------------------------------------------
(* The theorems.                                                           *)

\* Every step preserves the invariant.
LEMMA StepInv == IInv /\ [Next]_vars => IInv'
<1> SUFFICES ASSUME IInv, [Next]_vars PROVE IInv'
  OBVIOUS
<1>1. TypeOK'
  BY TypeStep
<1>2. CASE ChangeProgram \/ ChangeStatus \/ UNCHANGED vars
  <2>1. UNCHANGED <<customers, balances, audit, passes, req>>
    BY <1>2 DEF ChangeProgram, ChangeStatus, vars
  <2> QED
    BY <1>1, <2>1 DEF IInv, Stages, KeysInv, OneCustomerPerKey, RowsInv, TokensInv, LinksOpen, Opens,
       HasPhone, HasEmail, Registered
<1>3. ASSUME NEW r \in Requests, Begin(r) \/ Register(r) \/ Card(r) PROVE IInv'
  BY <1>1, <1>3, StagesStep, KeysStep, CardsStep DEF IInv
<1> QED
  BY <1>2, <1>3 DEF Next

\* The inductive invariant holds of every behaviour.
THEOREM Invariance == Spec => []IInv
<1>1. Init => IInv
  BY InitInv
<1>2. IInv /\ [Next]_vars => IInv'
  BY StepInv
<1> QED
  BY <1>1, <1>2, PTL DEF Spec

\* Every variable keeps its type, and only a registered customer has a balance,
\* an audit entry or a card.
THEOREM TypeCorrect == Spec => []TypeOK
<1>1. IInv => TypeOK
  BY DEF IInv
<1> QED
  BY <1>1, Invariance, PTL

\* However many forms are sent at once, a number typed one way, and an address,
\* are one customer's: what the partial unique indexes and the wait for an
\* uncommitted row are there for.
THEOREM KeysUnique == Spec => []OneCustomerPerKey
<1>1. IInv => OneCustomerPerKey
  BY DEF IInv
<1> QED
  BY <1>1, Invariance, PTL

\* However many requests make a customer's card at once, the token that any of
\* them hands out is the one in the card's row, for good, unless its
\* transaction was aborted under it.
THEOREM LinksStayOpen == Spec => []LinksOpen
<1>1. IInv => LinksOpen
  BY DEF IInv
<1> QED
  BY <1>1, Invariance, PTL

----------------------------------------------------------------------------
(* Answers: nothing is answered before the end, a public form that has     *)
(* come to its cards has registered its customer with the balance it found *)
(* a program for, and nobody else's step registers it, or takes a customer *)
(* or a balance away.                                                      *)

\* HonestAnswers, of one request.
AnswerTrue(r) ==
    /\ req[r].reply = "created" => r \in Registered \cap audit /\ (r \in balances <=> req[r].balance)
    /\ req[r].reply = "success" => r \in Registered /\ (r \in balances <=> req[r].balance)
    /\ req[r].reply \in {"phone", "neutral"} =>
         r \notin Registered /\ \E c \in Registered \ {r} : HasPhone(c, r)
    /\ req[r].reply = "email" => r \notin Registered /\ \E c \in Registered \ {r} : HasEmail(c, r)
    /\ req[r].reply = "notfound" => r \notin Registered

\* A public form at its cards: its customer is there, with its balance.
Enrolled(r) == r \in Registered /\ (r \in balances <=> req[r].balance)
AtCards(r) == req[r].kind = "public" /\ req[r].pc \in Transacting \cup {"build"}

Own(r) ==
    /\ req[r].pc # "done" => req[r].reply = "none"
    /\ AtCards(r) => Enrolled(r)
    /\ AnswerTrue(r)

AnswersInv == \A r \in Requests : Own(r)

\* The tables that answers are about.
People == <<customers, balances, audit>>

\* A registered customer keeps what it has, and only the request that steps
\* can become one.
LEMMA Keeping ==
    ASSUME IInv, NEW r \in Requests, Begin(r) \/ Register(r) \/ Card(r)
    PROVE  /\ \A c \in Registered \ {r} : customers'[c] = customers[c]
           /\ \A q \in Requests \ {r} :
                /\ q \in Registered' <=> q \in Registered
                /\ q \in balances' <=> q \in balances
                /\ q \in audit' <=> q \in audit
           /\ Registered \subseteq Registered'
<1>1. CASE UNCHANGED Rows
  BY <1>1 DEF Rows, Registered
<1>2. CASE Saved(r)
  BY <1>2, Registering DEF Saved, Registered
<1>3. CASE PassesSaved(r)
  BY <1>3 DEF PassesSaved, Registered
<1> QED
  BY <1>1, <1>2, <1>3, Effects

\* So what the other requests were told stays true.
LEMMA OthersKeep ==
    ASSUME IInv, AnswersInv, NEW r \in Requests, Begin(r) \/ Register(r) \/ Card(r),
           NEW q \in Requests \ {r}
    PROVE  Own(q)'
<1>1. req'[q] = req[q]
  <2>1. PICK x \in Request : Become(r, x)
    BY Becoming
  <2> QED
    BY <2>1, Others
<1>2. Own(q)
  BY DEF AnswersInv
<1>3. \A c \in Registered : c \in Registered' /\ (c # r => customers'[c] = customers[c])
  BY Keeping
<1>4. r \in Registered => customers'[r] = customers[r]
  <2>1. CASE Commit(r) \/ CommitLost(r)
    <3>1. req[r].pc = "inserted"
      BY <2>1 DEF Commit, CommitLost
    <3> QED
      BY <3>1 DEF IInv, Stages, Early
  <2>2. CASE ~Commit(r) /\ ~CommitLost(r)
    BY <2>2, Effects DEF Rows, PassesSaved
  <2> QED
    BY <2>1, <2>2
<1>5. \A c \in Registered \ {q} :
        /\ c \in Registered' \ {q}
        /\ HasPhone(c, q) => HasPhone(c, q)'
        /\ HasEmail(c, q) => HasEmail(c, q)'
  BY <1>1, <1>3, <1>4 DEF HasPhone, HasEmail
<1>6. /\ q \in Registered' <=> q \in Registered
      /\ q \in balances' <=> q \in balances
      /\ q \in audit' <=> q \in audit
  BY Keeping
<1>7. AnswerTrue(q)'
  BY <1>1, <1>2, <1>5, <1>6 DEF Own, AnswerTrue
<1>8. AtCards(q)' => Enrolled(q)'
  BY <1>1, <1>2, <1>6 DEF Own, AtCards, Enrolled
<1> QED
  BY <1>1, <1>2, <1>7, <1>8 DEF Own

----------------------------------------------------------------------------
\* An answer that ends a registration before its customer is there.
LEMMA RefusalStep ==
    ASSUME IInv, NEW r \in Requests, NEW reply, Reply(r, reply), req[r].pc \in Early,
           reply \notin {"created", "success"},
           reply \in {"phone", "neutral"} => \E c \in Registered : HasPhone(c, r),
           reply = "email" => \E c \in Registered : HasEmail(c, r)
    PROVE  Own(r)'
<1>1. /\ req'[r].pc = "done" /\ req'[r].phone = req[r].phone /\ req'[r].email = req[r].email
      /\ req'[r].reply = reply
  BY DEF IInv, TypeOK, Reply, Become, Request
<1>2. customers' = customers /\ Registered' = Registered /\ r \notin Registered
  BY DEF Reply, Rows, Registered, IInv, Stages
<1>3. \A c \in Registered : /\ c # r
                            /\ HasPhone(c, r) => HasPhone(c, r)'
                            /\ HasEmail(c, r) => HasEmail(c, r)'
  BY <1>1, <1>2 DEF HasPhone, HasEmail
<1>4. AnswerTrue(r)'
  BY <1>1, <1>2, <1>3 DEF AnswerTrue
<1> QED
  BY <1>1, <1>4 DEF Own, AtCards, Transacting

\* A step after which the request has still answered nothing, and is not at
\* its cards.
LEMMA EarlyStep ==
    ASSUME NEW r \in Requests, req'[r].reply = "none",
           req'[r].kind # "public" \/ req'[r].pc \notin Transacting \cup {"build"}
    PROVE  Own(r)'
BY DEF Own, AtCards, AnswerTrue

LEMMA RegisterAnswer ==
    ASSUME IInv, AnswersInv, NEW r \in Requests, Begin(r) \/ Register(r)
    PROVE  Own(r)'
<1>1. /\ req \in [Requests -> Request] /\ req[r] \in Request
      /\ req[r].pc \in Early /\ req[r].reply = "none" /\ r \notin Registered
      /\ r \notin balances /\ r \notin audit
  <2>1. req[r].pc \in Early
    BY RegisterStage
  <2>2. req[r].reply = "none"
    BY <2>1 DEF AnswersInv, Own, Early
  <2> QED
    BY <2>1, <2>2 DEF IInv, TypeOK, Stages
<1>2. ASSUME NEW pc \in {"email", "insert"}, Goto(r, pc) PROVE Own(r)'
  <2>1. req'[r].reply = "none" /\ req'[r].pc = pc
    BY <1>1, <1>2 DEF Goto, Become, Request
  <2> QED
    BY <2>1, EarlyStep DEF Transacting
<1>3. CASE Begin(r)
  <2>1. req'[r].reply = "none" /\ (req'[r].kind = "public" => req'[r].pc = "lookup")
    <3> USE <1>1 DEF Become, Request
    <3>1. CASE \E phone \in Phones, email \in Emails \cup {None} :
                 Become(r, [req[r] EXCEPT !.kind = "manual", !.pc = "phone",
                                          !.phone = phone, !.email = email])
      BY <3>1
    <3>2. CASE \E phone \in Phones, email \in Emails :
                 Become(r, [req[r] EXCEPT !.kind = "public", !.pc = "lookup",
                                          !.phone = normalizePhone(phone), !.email = email])
      BY <3>2
    <3>3. CASE \E c \in Registered :
                 Become(r, [req[r] EXCEPT !.kind = "apple", !.pc = "select",
                                          !.of = c, !.platform = "apple"])
      BY <3>3
    <3>4. CASE \E c \in Registered :
                 Become(r, [req[r] EXCEPT !.kind = "google", !.pc = "snapshot",
                                          !.of = c, !.platform = "google"])
      BY <3>4
    <3> QED
      BY <1>3, <3>1, <3>2, <3>3, <3>4 DEF Begin
  <2> QED
    BY <2>1, EarlyStep DEF Transacting
<1>4. CASE CheckPhone(r)
  BY <1>1, <1>2, <1>4, RefusalStep DEF CheckPhone
<1>5. CASE CheckEmail(r)
  BY <1>1, <1>2, <1>5, RefusalStep DEF CheckEmail
<1>6. CASE Lookup(r)
  BY <1>1, <1>2, <1>6, RefusalStep DEF Lookup
<1>7. CASE Insert(r)
  <2>1. CASE Inserted(r)
    <3>1. req'[r].reply = "none" /\ req'[r].pc = "inserted"
      BY <1>1, <2>1 DEF Inserted, Become, Request
    <3> QED
      BY <3>1, EarlyStep DEF Transacting
  <2>2. CASE Reply(r, PhoneTaken(r)) /\ \E c \in Registered : HasPhone(c, r)
    BY <1>1, <2>2, RefusalStep DEF PhoneTaken
  <2>3. CASE Reply(r, EmailTaken(r)) /\ \E c \in Registered : HasEmail(c, r)
    BY <1>1, <2>3, RefusalStep DEF EmailTaken
  <2> QED
    BY <1>7, <2>1, <2>2, <2>3 DEF Insert
<1>8. CASE FailRegistration(r)
  BY <1>1, <1>8, RefusalStep DEF FailRegistration
<1>9. CASE Commit(r)
  <2>1. Saved(r) /\ r \in Registered'
    BY <1>9, Registering DEF Commit
  <2>2. /\ req'[r].balance = req[r].balance /\ req'[r].kind = req[r].kind
        /\ r \in balances' <=> req[r].balance
        /\ req[r].kind = "manual" => r \in audit'
    BY <1>1, <1>9, <2>1 DEF Commit, Become, Saved, Request
  <2>3. IF req[r].kind = "manual" THEN req'[r].pc = "done" /\ req'[r].reply = "created"
                                  ELSE req'[r].pc = "select" /\ req'[r].reply = "none"
    BY <1>1, <1>9 DEF Commit, Become, Request
  <2> QED
    BY <2>1, <2>2, <2>3 DEF Own, AtCards, Enrolled, AnswerTrue, Transacting
<1>10. CASE CommitLost(r)
  <2>1. req'[r].pc = "done" /\ req'[r].reply = "error"
    BY <1>1, <1>10 DEF CommitLost, Become, Request
  <2> QED
    BY <2>1 DEF Own, AtCards, AnswerTrue, Transacting
<1> QED
  BY <1>3, <1>4, <1>5, <1>6, <1>7, <1>8, <1>9, <1>10 DEF Register

\* The steps of a card answer at the end only, and confirm only a public form.
LEMMA CardAnswer ==
    ASSUME IInv, AnswersInv, NEW r \in Requests, Card(r)
    PROVE  Own(r)'
<1>1. /\ req \in [Requests -> Request] /\ req[r] \in Request
      /\ req[r].pc \in Transacting \cup {"build"} /\ req[r].reply = "none"
  <2>1. req[r].pc \in Transacting \cup {"build"}
    BY CardStage
  <2> QED
    BY <2>1 DEF IInv, TypeOK, AnswersInv, Own, Transacting
<1>2. UNCHANGED People
  <2>1. ~Commit(r) /\ ~CommitLost(r)
    BY <1>1 DEF Commit, CommitLost, Transacting
  <2> QED
    BY <2>1, Effects DEF Rows, PassesSaved, People
<1>3. Registered' = Registered
  BY CardStage
<1>4. AtCards(r) => Enrolled(r)
  BY DEF AnswersInv, Own
<1>5. ASSUME req'[r].kind = req[r].kind, req'[r].balance = req[r].balance,
             \/ req'[r].reply = "none"
             \/ /\ req'[r].pc = "done"
                /\ \/ req'[r].reply = "success" /\ req[r].kind = "public"
                   \/ req'[r].reply \in {"pass", "nothing"}
      PROVE  Own(r)'
  <2>1. req[r].kind = "public" => Enrolled(r)'
    BY <1>1, <1>2, <1>3, <1>4, <1>5 DEF AtCards, Enrolled, People
  <2> QED
    BY <1>5, <2>1 DEF Own, AtCards, Enrolled, AnswerTrue
<1>6. ASSUME NEW reply, Reply(r, reply),
             reply \in {"nothing", "pass"} \/ (reply = "success" /\ req[r].kind = "public")
      PROVE  Own(r)'
  <2>1. /\ req'[r].kind = req[r].kind /\ req'[r].balance = req[r].balance
        /\ req'[r].pc = "done" /\ req'[r].reply = reply
    BY <1>1, <1>6 DEF Reply, Become, Request
  <2> QED
    BY <1>5, <1>6, <2>1
<1>7. CASE SelectPass(r) \/ InsertPass(r)
  <2>1. \A token : LET h == Holding(r, token) IN
           h.kind = req[r].kind /\ h.balance = req[r].balance /\ h.reply = req[r].reply
    BY <1>1 DEF Holding, Request
  <2>2. \A token, rows : LET h == [Holding(r, token) EXCEPT !.rows = rows] IN
           h.kind = req[r].kind /\ h.balance = req[r].balance /\ h.reply = req[r].reply
    BY <1>1 DEF Holding, Request
  <2>3. LET x == req'[r] IN
           x.kind = req[r].kind /\ x.balance = req[r].balance /\ x.reply = req[r].reply
    <3>1. CASE \E token : Become(r, Holding(r, token))
      BY <1>1, <2>1, <3>1 DEF Become
    <3>2. CASE \E rows : Become(r, [Holding(r, r) EXCEPT !.rows = rows])
      BY <1>1, <2>2, <3>2 DEF Become
    <3>3. CASE Become(r, [req[r] EXCEPT !.pc = "insertPass"])
      BY <1>1, <3>3 DEF Become, Request
    <3>4. CASE SelectPass(r)
      BY <3>1, <3>3, <3>4 DEF SelectPass
    <3>5. CASE InsertPass(r)
      <4>1. \/ Become(r, Holding(r, passes[req[r].of][req[r].platform]))
            \/ Become(r, [Holding(r, r) EXCEPT !.rows = req[r].rows \cup {req[r].platform}])
        BY <3>5 DEF InsertPass, Holding
      <4> QED
        BY <3>1, <3>2, <4>1
    <3> QED
      BY <1>7, <3>4, <3>5
  <2> QED
    BY <1>1, <1>5, <2>3
<1>8. CASE Snapshot(r) \/ BuildLink(r) \/ LoseGoogle(r) \/ CommitPasses(r)
  <2>1. req'[r].kind = req[r].kind /\ req'[r].balance = req[r].balance /\ req'[r].reply = "none"
    <3>1. CASE Snapshot(r)
      BY <1>1, <3>1 DEF Snapshot, Become, Request
    <3>2. CASE BuildLink(r)
      BY <1>1, <3>2 DEF BuildLink, Goto, Become, Request
    <3>3. CASE LoseGoogle(r)
      BY <1>1, <3>3 DEF LoseGoogle, Become, Request
    <3>4. CASE CommitPasses(r)
      BY <1>1, <3>4 DEF CommitPasses, Become, Request
    <3> QED
      BY <1>8, <3>1, <3>2, <3>3, <3>4
  <2> QED
    BY <1>5, <2>1
<1>9. CASE CommitPassesLost(r)
  <2>1. /\ req'[r].kind = req[r].kind /\ req'[r].balance = req[r].balance
        /\ req'[r].pc = "done" /\ req'[r].reply = Without(r)
    BY <1>1, <1>9 DEF CommitPassesLost, Become, Request
  <2> QED
    BY <1>5, <2>1 DEF Without
<1>10. CASE BuildFails(r) \/ FailCard(r)
  BY <1>6, <1>10 DEF BuildFails, FailCard, Without
<1>11. CASE Answer(r)
  <2>1. CASE Reply(r, "nothing")
    BY <1>6, <2>1
  <2>2. CASE ~Reply(r, "nothing")
    <3>1. /\ req'[r].kind = req[r].kind /\ req'[r].balance = req[r].balance
          /\ req'[r].pc = "done"
          /\ req'[r].reply = IF req[r].kind = "public" THEN "success" ELSE "pass"
      <4>1. PICK reply : /\ reply = IF req[r].kind = "public" THEN "success" ELSE "pass"
                         /\ Become(r, [req[r] EXCEPT !.pc = "done", !.given = Links(r),
                                                     !.reply = reply])
        BY <1>11, <2>2 DEF Answer
      <4> QED
        BY <1>1, <4>1 DEF Become, Request
    <3> QED
      BY <1>5, <3>1
  <2> QED
    BY <2>1, <2>2
<1> QED
  BY <1>7, <1>8, <1>9, <1>10, <1>11 DEF Card

----------------------------------------------------------------------------
LEMMA AnswersInit == Init => AnswersInv
BY DEF Init, AnswersInv, Own, AtCards, AnswerTrue, Transacting

LEMMA AnswersNext == IInv /\ AnswersInv /\ [Next]_vars => AnswersInv'
<1> SUFFICES ASSUME IInv, AnswersInv, [Next]_vars PROVE AnswersInv'
  OBVIOUS
<1>1. CASE ChangeProgram \/ ChangeStatus \/ UNCHANGED vars
  <2>1. UNCHANGED <<req, customers, balances, audit>> /\ Registered' = Registered
    BY <1>1 DEF ChangeProgram, ChangeStatus, vars, Registered
  <2> QED
    BY <2>1 DEF AnswersInv, Own, AtCards, Enrolled, AnswerTrue, HasPhone, HasEmail
<1>2. ASSUME NEW r \in Requests, Begin(r) \/ Register(r) \/ Card(r) PROVE AnswersInv'
  <2>1. Own(r)'
    BY <1>2, RegisterAnswer, CardAnswer
  <2>2. \A q \in Requests \ {r} : Own(q)'
    BY <1>2, OthersKeep
  <2> QED
    BY <2>1, <2>2 DEF AnswersInv
<1> QED
  BY <1>1, <1>2 DEF Next

\* Whoever is told to be registered is, with the balance the program gave and
\* with the owner's entry; whoever is told that a key is taken is not, and
\* somebody else has the key: for good, whatever is registered later.
THEOREM AnswersAreTrue == Spec => []HonestAnswers
<1>1. AnswersInv => HonestAnswers
  BY DEF AnswersInv, Own, AnswerTrue, HonestAnswers
<1> QED
  BY <1>1, AnswersInit, AnswersNext, Invariance, PTL DEF Spec
=============================================================================
