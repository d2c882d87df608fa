----------------------------- MODULE Enrollment -----------------------------
(***************************************************************************)
(* How a business gets customers and customers get cards: the owner's      *)
(* form (customers/logic.ts), the public form (enroll/[slug]/logic.ts and  *)
(* the database function it calls), and the three places that make the     *)
(* row of a wallet pass (publicEnrollWallet.ts, the owner's download and   *)
(* the Google button), all at once against one business.                   *)
(*                                                                         *)
(* A customer is named by the request that registered it, and the token of *)
(* a pass by the request that drew it.  Gates, limits, honeypot and field  *)
(* validation refuse a request before it touches the database.             *)
(***************************************************************************)
EXTENDS Integers, FiniteSets

CONSTANTS
    Requests,
    Numbers,        \* telephone numbers
    Emails,
    None

VARIABLES
    active,         \* businesses.status is 'active'
    program,        \* the loyalty program: there is none, it is on, or off
    customers,      \* customers, by the request that registered each
    balances,       \* customers with a row in customer_balances
    audit,          \* customers with an entry "customer.created"
    passes,         \* wallet_passes: customer and platform -> token
    req             \* the requests

vars == <<active, program, customers, balances, audit, passes, req>>

Platforms == {"apple", "google"}
Programs == {"none", "on", "off"}
Kinds == {"manual", "public", "apple", "google"}
\* A number as it was typed: ten digits, or with spaces, dashes or a prefix.
Phones == [number : Numbers, plain : BOOLEAN]
Customer == [phone : Phones, email : Emails \cup {None}]
ASSUME NumbersAssumption == Numbers # {}
ASSUME NoneAssumption == None \notin Requests \cup Emails \cup Customer

Tokens == [Platforms -> Requests \cup {None}]
NoTokens == [f \in Platforms |-> None]

Pcs == {"idle", "phone", "email", "lookup", "insert", "inserted",
        "select", "insertPass", "snapshot", "link", "commit", "build", "done"}
Replies == {"none", "created", "success", "neutral", "phone", "email",
            "notfound", "error", "pass", "nothing"}
Request ==
    [kind : Kinds \cup {None}, pc : Pcs, reply : Replies,
     phone : Phones, email : Emails \cup {None},     \* the form
     balance : BOOLEAN,                              \* a program was found
     of : Requests \cup {None}, platform : Platforms, \* the pass worked on
     rows : SUBSET Platforms,                        \* rows not yet committed
     token : Tokens, ok : BOOLEAN, aborted : BOOLEAN,
     given : Tokens]                                 \* what the answer carries

Registered == {c \in Requests : customers[c] # None}

----------------------------------------------------------------------------

Rows == <<active, program, customers, balances, audit, passes>>

\* What a step makes of its request.
Become(r, x) == req' = [req EXCEPT ![r] = x]
Goto(r, pc) == Become(r, [req[r] EXCEPT !.pc = pc]) /\ UNCHANGED Rows
\* The answer; an open transaction is rolled back.
Reply(r, reply) ==
    /\ Become(r, [req[r] EXCEPT !.pc = "done", !.reply = reply, !.rows = {}])
    /\ UNCHANGED Rows

\* normalizePhone: digits only, the country's prefix dropped.
normalizePhone(phone) == [phone EXCEPT !.plain = TRUE]

\* A form is sent, or a customer's card asked for.  The public form
\* normalises the number and requires an address; the owner's does neither.
Begin(r) ==
    /\ req[r].pc = "idle"
    /\ \/ \E phone \in Phones, email \in Emails \cup {None} :
            Become(r, [req[r] EXCEPT !.kind = "manual", !.pc = "phone",
                                         !.phone = phone, !.email = email])
       \/ \E phone \in Phones, email \in Emails :
            Become(r, [req[r] EXCEPT !.kind = "public", !.pc = "lookup",
                                         !.phone = normalizePhone(phone), !.email = email])
       \/ \E c \in Registered :
            Become(r, [req[r] EXCEPT !.kind = "apple", !.pc = "select",
                                         !.of = c, !.platform = "apple"])
       \/ \E c \in Registered :
            Become(r, [req[r] EXCEPT !.kind = "google", !.pc = "snapshot",
                                         !.of = c, !.platform = "google"])
    /\ UNCHANGED Rows

----------------------------------------------------------------------------
(* Registration.                                                           *)

HasPhone(c, r) == customers[c].phone = req[r].phone
HasEmail(c, r) == req[r].email # None /\ customers[c].email = req[r].email

\* createCustomerForSession looks for the number, then for the address.
CheckPhone(r) ==
    /\ req[r].pc = "phone"
    /\ IF \E c \in Registered : HasPhone(c, r) THEN Reply(r, "phone") ELSE Goto(r, "email")

CheckEmail(r) ==
    /\ req[r].pc = "email"
    /\ IF \E c \in Registered : HasEmail(c, r) THEN Reply(r, "email") ELSE Goto(r, "insert")

\* enroll_customer_public: the business, if it is active.
Lookup(r) ==
    /\ req[r].pc = "lookup"
    /\ IF active THEN Goto(r, "insert") ELSE Reply(r, "notfound")

\* A row of another transaction, not yet committed, has one of the keys: the
\* INSERT waits for that transaction to end.
KeyHeld(r) ==
    \E q \in Requests \ {r} :
        /\ req[q].pc = "inserted"
        /\ \/ req[q].phone = req[r].phone
           \/ req[r].email # None /\ req[q].email = req[r].email

PhoneTaken(r) == IF req[r].kind = "manual" THEN "phone" ELSE "neutral"
\* Only the owner's form knows the index of the addresses.
EmailTaken(r) == IF req[r].kind = "manual" THEN "email" ELSE "error"

\* Slip: the balance is written on a connection of its own.
InsertedWithBalance(r) ==
    /\ Become(r, [req[r] EXCEPT !.pc = "inserted", !.balance = (program = "on")])
    /\ balances' = IF program = "on" THEN balances \cup {r} ELSE balances
    /\ UNCHANGED <<active, program, customers, audit, passes>>

\* The row is in; the program it starts with is read by the next statement.
Inserted(r) ==
    /\ Become(r, [req[r] EXCEPT !.pc = "inserted", !.balance = (program = "on")])
    /\ UNCHANGED Rows

\* Slip: only the SELECTs look for duplicates.
InsertWithoutIndex(r) ==
    /\ req[r].pc = "insert"
    /\ IF req[r].kind = "public" /\ \E c \in Registered : HasPhone(c, r)
       THEN Reply(r, "neutral")
       ELSE Inserted(r)

\* Slip: a unique violation is taken for the number's, whichever index it is.
InsertAnyConflict(r) ==
    /\ req[r].pc = "insert" /\ ~KeyHeld(r)
    /\ IF \E c \in Registered : HasPhone(c, r) \/ HasEmail(c, r) THEN Reply(r, PhoneTaken(r))
       ELSE Inserted(r)

\* INSERT INTO customers: the partial unique indexes decide, the number's
\* first.
Insert(r) ==
    /\ req[r].pc = "insert" /\ ~KeyHeld(r)
    /\ IF \E c \in Registered : HasPhone(c, r) THEN Reply(r, PhoneTaken(r))
       ELSE IF \E c \in Registered : HasEmail(c, r) THEN Reply(r, EmailTaken(r))
       ELSE Inserted(r)

\* The balance of zero, the audit entry, COMMIT: all of it or nothing.
Saved(r) ==
    /\ customers' = [customers EXCEPT ![r] = [phone |-> req[r].phone, email |-> req[r].email]]
    /\ balances' = IF req[r].balance THEN balances \cup {r} ELSE balances
    /\ audit' = IF req[r].kind = "manual" THEN audit \cup {r} ELSE audit
    /\ UNCHANGED <<active, program, passes>>

\* Public registration goes on to the cards; its customer stays.
Commit(r) ==
    /\ req[r].pc = "inserted"
    /\ Saved(r)
    /\ Become(r, IF req[r].kind = "manual"
                 THEN [req[r] EXCEPT !.pc = "done", !.reply = "created"]
                 ELSE [req[r] EXCEPT !.pc = "select", !.of = r, !.platform = "apple"])

\* The answer to COMMIT is lost.
CommitLost(r) ==
    /\ req[r].pc = "inserted"
    /\ Saved(r)
    /\ Become(r, [req[r] EXCEPT !.pc = "done", !.reply = "error"])

----------------------------------------------------------------------------
(* Cards.                                                                  *)

Holding(r, token) ==
    [req[r] EXCEPT !.token[req[r].platform] = token,
                   !.pc = IF req[r].platform = "apple" THEN "snapshot" ELSE "link"]

\* ensureWalletPass: the row, if it is there.
SelectPass(r) ==
    LET row == passes[req[r].of][req[r].platform] IN
    /\ req[r].pc = "select"
    /\ Become(r, IF row # None THEN Holding(r, row) ELSE [req[r] EXCEPT !.pc = "insertPass"])
    /\ UNCHANGED Rows

\* A row of another transaction for the same customer and platform.
RowHeld(r) ==
    \E q \in Requests \ {r} : req[q].of = req[r].of /\ req[r].platform \in req[q].rows

\* Slip: what was drawn is returned whether or not it was inserted.
InsertPassUnread(r) ==
    LET row == passes[req[r].of][req[r].platform] IN
    /\ req[r].pc = "insertPass" /\ ~RowHeld(r)
    /\ Become(r, IF row # None THEN Holding(r, r)
                 ELSE [Holding(r, r) EXCEPT !.rows = @ \cup {req[r].platform}])
    /\ UNCHANGED Rows

\* INSERT ... ON CONFLICT DO NOTHING, once nobody else is making the row; a
\* row that is there by now is read again.
InsertPass(r) ==
    LET row == passes[req[r].of][req[r].platform] IN
    /\ req[r].pc = "insertPass" /\ ~RowHeld(r)
    /\ Become(r, IF row # None THEN Holding(r, row)
                 ELSE [Holding(r, r) EXCEPT !.rows = @ \cup {req[r].platform}])
    /\ UNCHANGED Rows

\* loadCustomerLoyaltySnapshot: a card needs a program, active or not.  Apple's
\* row comes before it, Google's after.
Snapshot(r) ==
    /\ req[r].pc = "snapshot"
    /\ Become(r, IF req[r].platform = "google"
                 THEN [req[r] EXCEPT !.pc = IF program = "none" THEN "commit" ELSE "select"]
                 ELSE IF req[r].kind = "public"
                 THEN [req[r] EXCEPT !.ok = (program # "none"), !.platform = "google"]
                 ELSE [req[r] EXCEPT !.ok = (program # "none"), !.pc = "commit"])
    /\ UNCHANGED Rows

\* buildSaveLink signs the link, or throws: the public form goes on without
\* it, the owner's page rolls back.
BuildLink(r) ==
    /\ req[r].pc = "link"
    /\ \/ Goto(r, "commit")
       \/ /\ req[r].kind = "public"
          /\ Become(r, [req[r] EXCEPT !.token["google"] = None, !.pc = "commit"])
          /\ UNCHANGED Rows

\* A statement of the Google part fails and its error is caught: the
\* transaction is aborted, and what COMMIT does then is a rollback.
LoseGoogle(r) ==
    /\ req[r].kind = "public" /\ req[r].platform = "google"
    /\ req[r].pc \in {"snapshot", "select", "insertPass"}
    /\ Become(r, [req[r] EXCEPT !.rows = {}, !.aborted = TRUE, !.pc = "commit"])
    /\ UNCHANGED Rows

PassesSaved(r) ==
    /\ passes' = [passes EXCEPT ![req[r].of] =
                    [f \in Platforms |-> IF f \in req[r].rows THEN r ELSE @[f]]]
    /\ UNCHANGED <<active, program, customers, balances, audit>>

CommitPasses(r) ==
    /\ req[r].pc = "commit"
    /\ PassesSaved(r)
    /\ Become(r, [req[r] EXCEPT !.pc = "build", !.rows = {}])

\* What the caller of a failed card hears: registration succeeded all the same.
Without(r) == IF req[r].kind = "public" THEN "success" ELSE "nothing"

CommitPassesLost(r) ==
    /\ req[r].pc = "commit"
    /\ PassesSaved(r)
    /\ Become(r, [req[r] EXCEPT !.pc = "done", !.reply = Without(r), !.rows = {}])

\* buildApplePkpassFromInputs, outside the transaction: it may throw.
BuildFails(r) == req[r].pc = "build" /\ Reply(r, Without(r))

\* The link to the card is offered only if the card could be built.
Links(r) ==
    [f \in Platforms |-> IF f = "apple" /\ ~req[r].ok THEN None ELSE req[r].token[f]]

Answer(r) ==
    /\ req[r].pc = "build"
    /\ IF req[r].kind # "public" /\ Links(r) = NoTokens
       THEN Reply(r, "nothing")
       ELSE /\ Become(r, [req[r] EXCEPT !.pc = "done", !.given = Links(r),
                                    !.reply = IF req[r].kind = "public" THEN "success" ELSE "pass"])
            /\ UNCHANGED Rows

\* A statement fails, or the process ends: the transaction is rolled back.
FailRegistration(r) ==
    req[r].pc \in {"phone", "email", "lookup", "insert", "inserted"} /\ Reply(r, "error")
FailCard(r) ==
    req[r].pc \in {"select", "insertPass", "snapshot", "link", "commit"} /\ Reply(r, Without(r))

----------------------------------------------------------------------------

\* The owner makes the program, switches it off and on again.
ChangeProgram ==
    /\ program' \in {"on", "off"} \ {program}
    /\ program = "none" => program' = "on"
    /\ UNCHANGED <<active, customers, balances, audit, passes, req>>

\* setBusinessStatus
ChangeStatus ==
    /\ active' = ~active
    /\ UNCHANGED <<program, customers, balances, audit, passes, req>>

Init ==
    /\ active = TRUE /\ program \in {"none", "on"}
    /\ customers = [r \in Requests |-> None]
    /\ balances = {} /\ audit = {}
    /\ passes = [c \in Requests |-> NoTokens]
    /\ req = [r \in Requests |->
                [kind |-> None, pc |-> "idle", reply |-> "none",
                 phone |-> [number |-> CHOOSE n \in Numbers : TRUE, plain |-> TRUE],
                 email |-> None, balance |-> FALSE, of |-> None, platform |-> "apple",
                 rows |-> {}, token |-> NoTokens, ok |-> FALSE, aborted |-> FALSE,
                 given |-> NoTokens]]

Register(r) ==
    \/ CheckPhone(r) \/ CheckEmail(r) \/ Lookup(r) \/ Insert(r)
    \/ Commit(r) \/ CommitLost(r) \/ FailRegistration(r)
Card(r) ==
    \/ SelectPass(r) \/ InsertPass(r) \/ Snapshot(r) \/ BuildLink(r) \/ LoseGoogle(r)
    \/ CommitPasses(r) \/ CommitPassesLost(r) \/ BuildFails(r) \/ Answer(r) \/ FailCard(r)

Next ==
    \/ ChangeProgram \/ ChangeStatus
    \/ \E r \in Requests : Begin(r) \/ Register(r) \/ Card(r)

Spec == Init /\ [][Next]_vars

----------------------------------------------------------------------------
(* Properties.                                                             *)

\* Every variable has its type, and only a registered customer has a balance,
\* an entry or a card.
TypeOK ==
    /\ active \in BOOLEAN /\ program \in Programs
    /\ customers \in [Requests -> Customer \cup {None}]
    /\ {balances, audit} \subseteq SUBSET Registered
    /\ passes \in [Requests -> Tokens]
    /\ \A c \in Requests : passes[c] # NoTokens => c \in Registered
    /\ req \in [Requests -> Request]

\* However many forms are sent at once, by whomever, no two customers of the
\* business have one address, or one number typed the same way.
OneCustomerPerKey ==
    \A c, d \in Registered : c # d =>
        /\ customers[c].phone # customers[d].phone
        /\ customers[c].email # None => customers[c].email # customers[d].email

\* Answers are true: "dado de alta" and the public confirmation stand for a
\* customer who is registered, with the card's balance if there was a program
\* and with the audit entry; "ya existe" names the key that is taken; a neutral
\* confirmation goes to a number that is a customer's; and a business that is
\* not found gets none.
HonestAnswers ==
    \A r \in Requests : LET others == Registered \ {r} IN
        CASE req[r].reply = "created" ->
               r \in Registered \cap audit /\ (r \in balances <=> req[r].balance)
          [] req[r].reply = "success" -> r \in Registered /\ (r \in balances <=> req[r].balance)
          [] req[r].reply \in {"phone", "neutral"} ->
               r \notin Registered /\ \E c \in others : HasPhone(c, r)
          [] req[r].reply = "email" ->
               r \notin Registered /\ \E c \in others : HasEmail(c, r)
          [] req[r].reply = "notfound" -> r \notin Registered
          [] OTHER -> TRUE

\* downloadEnrollmentApplePass: the token is that of the row.
Opens(c, platform, token) == passes[c][platform] = token

\* A card that was handed out is the customer's card for good: whoever made
\* its row first, every link carries that row's token, and a card at Google has
\* the row by which notifications find it.  A transaction that the Google part
\* aborted is the exception: its Apple row is gone, its link is not.
LinksOpen ==
    \A r \in Requests, f \in Platforms :
        req[r].given[f] # None /\ ~req[r].aborted => Opens(req[r].of, f, req[r].given[f])
============================================================================
