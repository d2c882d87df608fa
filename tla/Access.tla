------------------------------- MODULE Access -------------------------------
(***************************************************************************)
(* Who may act for a business: the platform's administrators, who          *)
(* impersonate owners (admin/impersonation.ts), are activated and          *)
(* deactivated, invite others (admin/accounts.ts), make businesses with    *)
(* their owners (admin/actions.ts) and change what a business is           *)
(* (admin/businesses.ts); its staff, hired and let go by the owner         *)
(* (team/logic.ts); and the claims the database writes into each token     *)
(* that is signed for an administrator (migration 0029).                   *)
(*                                                                         *)
(* A grant, an account and a login are named by the request that made      *)
(* them.  Transactions are READ COMMITTED: what a request has written and  *)
(* not committed is in its own record.  Administrators act on the token    *)
(* they hold, which may be older than the rows.                            *)
(***************************************************************************)
EXTENDS Integers, FiniteSets

CONSTANTS
    Requests,
    Admins,         \* platform administrators, by their logins
    Businesses,
    Emails,         \* addresses of the people who get an account
    Earlier,        \* an impersonation that was begun before
    None

ASSUME NamesAssumption ==
    /\ Earlier \notin Requests
    /\ None \notin Requests \cup {Earlier} \cup Admins \cup Businesses \cup Emails

VARIABLES
    status,         \* businesses.status
    admins,         \* platform_admins.is_active
    seats,          \* users rows of the administrators: none, or active or not
    grants,         \* platform_impersonation_grants
    token,          \* what the token an administrator holds says of him
    logins,         \* auth.users of those people
    staff,          \* the accounts: rows of users, of employees, of platform_admins
    req             \* the requests

vars == <<status, admins, seats, grants, token, logins, staff, req>>

Grants == Requests \cup {Earlier}
Statuses == {"active", "suspended", "deleted"}      \* "unpaid" is a suspension
Grant == [admin : Admins, business : Businesses, ended : BOOLEAN, expired : BOOLEAN]
Claim == [admin : BOOLEAN, business : Businesses \cup {None}]

Impersonation == {"start", "end", "activate", "deactivate"}
Hiring == {"hire", "invite", "create"}
Kinds == Impersonation \cup Hiring \cup {"status", "edit", "delete", "fire"}

\* What is none is no grant, and no kind of request.
ASSUME NoneAssumption == None \notin Grant /\ None \notin Kinds

Pcs == {"idle", "check", "update", "lock", "read", "end", "off", "seat", "sit", "grant",
        "commit", "precheck", "create", "insert", "undo", "dismiss", "ban",
        "done", "refused", "failed"}
Over == {"idle", "done", "refused", "failed"}
Request ==
    [kind : Kinds \cup {None}, pc : Pcs,
     admin : Admins \cup {None}, business : Businesses \cup {None},
     status : Statuses, email : Emails \cup {None},
     login : Requests \cup {None}, employee : Requests \cup {None},
     seen : SUBSET Grants, found : BOOLEAN,          \* what was read
     ended : SUBSET Grants, off : SUBSET Businesses, \* uncommitted UPDATEs
     on : BOOLEAN, granted : BOOLEAN]                \* the seat, the new grant

Unasked ==
    [kind |-> None, pc |-> "idle", admin |-> None, business |-> None,
     status |-> "active", email |-> None, login |-> None, employee |-> None,
     seen |-> {}, found |-> FALSE, ended |-> {}, off |-> {}, on |-> FALSE, granted |-> FALSE]

Active(a) == {g \in Grants : grants[g] # None /\ grants[g].admin = a /\ ~grants[g].ended}

----------------------------------------------------------------------------
(* The access token hook, and what the application makes of its claims.    *)

\* custom_access_token_hook: an active administrator's live grant comes
\* first; without one he is nobody's user.  One who is not active is what his
\* users rows say.
ClaimsOf(a) ==
    LET live == {g \in Active(a) : ~grants[g].expired}
        named == IF admins[a] THEN {grants[g].business : g \in live}
                 ELSE {b \in Businesses : seats[a][b] = "on"}
    IN  [admin : {admins[a]}, business : IF named = {} THEN {None} ELSE named]

\* getVerifiedSession: the kind of session the claims stand for.
Verified(c) ==
    CASE c.admin /\ c.business # None -> "impersonating"
      [] c.admin /\ c.business = None -> "platform"
      [] ~c.admin /\ c.business # None -> "tenant"
      [] OTHER -> "nobody"

requirePlatformAdmin(a) == Verified(token[a]) = "platform"
requireTenantSession(a) == Verified(token[a]) \in {"impersonating", "tenant"}

\* resolveActor: the users row of a session, active or not.
resolveActor(a) == {b \in Businesses : b = token[a].business /\ seats[a][b] # "none"}

\* A login or a refresh: the hook runs before the token is signed.
Refresh(a) ==
    /\ token' \in {[token EXCEPT ![a] = c] : c \in ClaimsOf(a)}
    /\ token' # token
    /\ UNCHANGED <<status, admins, seats, grants, logins, staff, req>>

----------------------------------------------------------------------------

Rows == <<status, admins, seats, grants, token, logins, staff>>
Goto(r, pc) == req' = [req EXCEPT ![r].pc = pc] /\ UNCHANGED Rows
\* Slip: a refusal returns from inside the transaction and leaves it open.
CloseLater(r, pc) == [req EXCEPT ![r].pc = pc]

\* A transaction that ends, with a commit or without, leaves nothing open.
Close(r, pc) == [req EXCEPT ![r].pc = pc, ![r].ended = {}, ![r].off = {},
                            ![r].on = FALSE, ![r].granted = FALSE]
Stop(r, pc) == req' = Close(r, pc) /\ UNCHANGED Rows

\* Each action first asks the token, never the tables, who is calling.
Arrive(r, asked) == req[r].pc = "idle" /\ req' = [req EXCEPT ![r] = asked] /\ UNCHANGED Rows

AskImpersonation(r) ==
    \E a \in Admins :
        \/ /\ requirePlatformAdmin(a)
           /\ \E b \in Businesses :
                Arrive(r, [Unasked EXCEPT !.kind = "start", !.pc = "check", !.admin = a, !.business = b])
        \/ /\ Verified(token[a]) = "impersonating"
           /\ Arrive(r, [Unasked EXCEPT !.kind = "end", !.pc = "read", !.admin = a])

\* By another administrator: nobody deactivates himself.
AskAccount(r) ==
    \/ \E a \in Admins, kind \in {"activate", "deactivate"} :
         Arrive(r, [Unasked EXCEPT !.kind = kind, !.pc = "lock", !.admin = a])
    \/ \E e \in Emails : Arrive(r, [Unasked EXCEPT !.kind = "invite", !.pc = "precheck", !.email = e])

\* A new business is given an owner.  An edit is of a location or the branding.
AskBusiness(r) ==
    \/ \E e \in Emails : Arrive(r, [Unasked EXCEPT !.kind = "create", !.pc = "create", !.email = e])
    \/ \E b \in Businesses :
         \/ Arrive(r, [Unasked EXCEPT !.kind = "edit", !.pc = "check", !.business = b])
         \/ Arrive(r, [Unasked EXCEPT !.kind = "delete", !.pc = "update", !.business = b, !.status = "deleted"])
         \/ \E s \in {"active", "suspended"} :
              Arrive(r, [Unasked EXCEPT !.kind = "status", !.pc = "check", !.business = b, !.status = s])

AskStaff(r) ==
    \/ \E e \in Emails : Arrive(r, [Unasked EXCEPT !.kind = "hire", !.pc = "precheck", !.email = e])
    \/ \E q \in Requests :
         /\ staff[q] # "none" /\ req[q].kind = "hire"
         /\ Arrive(r, [Unasked EXCEPT !.kind = "fire", !.pc = "dismiss", !.employee = q])

Begin(r) == AskImpersonation(r) \/ AskAccount(r) \/ AskBusiness(r) \/ AskStaff(r)

----------------------------------------------------------------------------
(* Businesses.                                                             *)

\* Slip: only a change of status asks whether the business is deleted.
CheckStatusOnly(r) ==
    /\ req[r].pc = "check"
    /\ IF req[r].kind = "status" /\ status[req[r].business] = "deleted" THEN Stop(r, "refused")
       ELSE Goto(r, IF req[r].kind = "start" THEN "read" ELSE "update")

\* assertBusinessNotDeleted: a statement of its own.
Check(r) ==
    /\ req[r].pc = "check"
    /\ IF status[req[r].business] = "deleted" THEN Stop(r, "refused")
       ELSE Goto(r, IF req[r].kind = "start" THEN "read" ELSE "update")

\* What is asked is written, and then its audit row, each by a statement that
\* commits: when the second one fails the first one stays.
Written(r) ==
    /\ req' \in {[req EXCEPT ![r].pc = pc] : pc \in {"done", "failed"}}
    /\ UNCHANGED <<admins, seats, grants, token, logins, staff>>

\* setBusinessStatus and softDeleteBusiness.
UpdateStatus(r) ==
    /\ req[r].pc = "update" /\ req[r].kind # "edit"
    /\ status' = [status EXCEPT ![req[r].business] = req[r].status]
    /\ Written(r)

\* createLocationForBusiness, updateLocationForBusiness, updateBusinessBranding.
EditBusiness(r) ==
    /\ req[r].pc = "update" /\ req[r].kind = "edit"
    /\ Written(r) /\ UNCHANGED status

----------------------------------------------------------------------------
(* Impersonation.                                                          *)

SeatLocked(r, b) ==
    \E q \in Requests \ {r} :
        /\ req[q].admin = req[r].admin
        /\ b \in req[q].off \/ (req[q].on /\ req[q].business = b)

\* setPlatformAdminActive: UPDATE platform_admins, one at a time.
LockAdmin(r) ==
    /\ req[r].pc = "lock"
    /\ ~\E q \in Requests \ {r} :
          /\ req[q].admin = req[r].admin /\ req[q].kind \in {"activate", "deactivate"}
          /\ req[q].pc \in {"read", "end", "off", "commit"}
    /\ Goto(r, IF req[r].kind = "activate" THEN "commit" ELSE "read")

\* endActiveGrantsForAdmin: the grants that are active now.
ReadGrants(r) ==
    /\ req[r].pc = "read"
    /\ req' = [req EXCEPT ![r].seen = Active(req[r].admin), ![r].pc = "end"]
    /\ UNCHANGED Rows

\* Its loop: the grant's row ...
EndGrant(r) ==
    /\ req[r].pc = "end"
    /\ IF req[r].seen \subseteq req[r].ended
       THEN Goto(r, IF req[r].kind = "start" THEN "seat" ELSE "commit")
       ELSE \E g \in req[r].seen \ req[r].ended :
              /\ ~\E q \in Requests \ {r} : g \in req[q].ended
              /\ req' = [req EXCEPT ![r].ended = @ \cup {g}, ![r].pc = "off"]
              /\ UNCHANGED Rows

Unseated(r) == {grants[g].business : g \in req[r].ended}

\* ... and the users row that came with it.
LeaveSeat(r) ==
    /\ req[r].pc = "off"
    /\ \A b \in Unseated(r) : ~SeatLocked(r, b)
    /\ req' = [req EXCEPT ![r].off = Unseated(r), ![r].pc = "end"]
    /\ UNCHANGED Rows

\* startImpersonation: the users row of an earlier impersonation, if any ...
FindSeat(r) ==
    /\ req[r].pc = "seat"
    /\ req' = [req EXCEPT ![r].found = (seats[req[r].admin][req[r].business] # "none"),
                          ![r].pc = "sit"]
    /\ UNCHANGED Rows

\* ... is activated, or one is made, unless somebody else has made it.
TakeSeat(r) ==
    /\ req[r].pc = "sit"
    /\ ~SeatLocked(r, req[r].business)
    /\ IF ~req[r].found /\ seats[req[r].admin][req[r].business] # "none"
       THEN Stop(r, "failed")
       ELSE /\ req' = [req EXCEPT ![r].on = TRUE, ![r].pc = "grant"]
            /\ UNCHANGED Rows

\* Somebody else has inserted, or ended, a grant of this administrator.
GrantHeld(r) ==
    \E q \in Requests \ {r} :
        req[q].admin = req[r].admin /\ (req[q].granted \/ req[q].ended # {})

\* Slip: nothing in the database keeps a second grant out.
InsertAnyGrant(r) ==
    /\ req[r].pc = "grant"
    /\ req' = [req EXCEPT ![r].granted = TRUE, ![r].pc = "commit"]
    /\ UNCHANGED Rows

\* The partial unique index: one grant of an administrator that is not ended.
InsertGrant(r) ==
    /\ req[r].pc = "grant"
    /\ ~GrantHeld(r)
    /\ IF Active(req[r].admin) \subseteq req[r].ended
       THEN /\ req' = [req EXCEPT ![r].granted = TRUE, ![r].pc = "commit"]
            /\ UNCHANGED Rows
       ELSE Stop(r, "failed")

Commit(r) ==
    /\ req[r].pc = "commit"
    /\ admins' = CASE req[r].kind = "activate" -> [admins EXCEPT ![req[r].admin] = TRUE]
                   [] req[r].kind = "deactivate" -> [admins EXCEPT ![req[r].admin] = FALSE]
                   [] OTHER -> admins
    /\ seats' = [seats EXCEPT ![req[r].admin] =
                   [b \in Businesses |->
                      IF req[r].on /\ b = req[r].business THEN "on"
                      ELSE IF b \in req[r].off THEN "off" ELSE @[b]]]
    /\ grants' = [g \in Grants |->
                    IF g = r /\ req[r].granted
                    THEN [admin |-> req[r].admin, business |-> req[r].business,
                          ended |-> FALSE, expired |-> FALSE]
                    ELSE IF g \in req[r].ended THEN [grants[g] EXCEPT !.ended = TRUE]
                    ELSE grants[g]]
    /\ req' = Close(r, "done")
    /\ UNCHANGED <<status, token, logins, staff>>

\* A statement fails, a lock is not granted in time, a deadlock is broken, or
\* the process ends.
Fail(r) ==
    /\ req[r].kind \in Impersonation \cup {"status", "edit", "delete"}
    /\ req[r].pc \notin Over
    /\ Stop(r, "failed")

\* The safety net of 24 hours.
Expire(g) ==
    /\ grants[g] # None /\ ~grants[g].expired
    /\ grants' = [grants EXCEPT ![g].expired = TRUE]
    /\ UNCHANGED <<status, admins, seats, token, logins, staff, req>>

----------------------------------------------------------------------------
(* Accounts: of the staff, of other administrators, of the owners of new   *)
(* businesses.                                                             *)

Live == {"invited", "opened", "ok", "banned"}
Registered(e) == {q \in Requests : logins[q] \in Live /\ req[q].email = e}
Accounts(kinds, e) == {q \in Requests : staff[q] # "none" /\ req[q].kind \in kinds /\ req[q].email = e}
Employed(e) == Accounts({"hire"}, e)

\* createStaffForSession looks for the address among the users of the
\* business, invitePlatformAdmin among those of every business.
Precheck(r) ==
    /\ req[r].pc = "precheck"
    /\ LET kinds == IF req[r].kind = "hire" THEN {"hire"} ELSE {"hire", "create"}
       IN  IF Accounts(kinds, req[r].email) # {} THEN Stop(r, "refused") ELSE Goto(r, "create")

\* The answer of Supabase may be lost.
Answered(r, l) ==
    /\ req' \in {[req EXCEPT ![r].pc = pc, ![r].login = l] : pc \in {"insert", "failed"}}
    /\ UNCHANGED <<status, admins, seats, grants, token, staff>>

\* createUser: Supabase wants one login of an address.
CreateLogin(r) ==
    /\ req[r].pc = "create" /\ req[r].kind = "hire"
    /\ IF Registered(req[r].email) # {} THEN Stop(r, "refused")
       ELSE logins' = [logins EXCEPT ![r] = "ok"] /\ Answered(r, r)

\* inviteUserByEmail: who has not answered an invitation is invited again, and
\* it is the same login; who has is not.
Invite(r) ==
    /\ req[r].pc = "create" /\ req[r].kind \in {"invite", "create"}
    /\ LET known == Registered(req[r].email)
       IN  IF \E q \in known : logins[q] # "invited" THEN Stop(r, "refused")
           ELSE \E l \in IF known = {} THEN {r} ELSE known :
                  logins' = [logins EXCEPT ![l] = "invited"] /\ Answered(r, l)

\* /set-password: opening the link confirms the address and begins no session;
\* a password does.
OpenLink(q) ==
    /\ logins[q] = "invited"
    /\ logins' = [logins EXCEPT ![q] = "opened"]
    /\ UNCHANGED <<status, admins, seats, grants, token, staff, req>>
SetPassword(q) ==
    /\ logins[q] = "opened"
    /\ logins' = [logins EXCEPT ![q] = "ok"]
    /\ UNCHANGED <<status, admins, seats, grants, token, staff, req>>

\* Rows that name a login, of those kinds.
RowsOf(l, kinds) == {q \in Requests : staff[q] # "none" /\ req[q].login = l /\ req[q].kind \in kinds}

\* The rows, if the login is still there and no key is taken.  They are there
\* although an error is seen when the answer to COMMIT is lost, or, of an
\* invitation, when its audit row, a statement of its own, fails.
InsertStaff(r) ==
    /\ req[r].pc = "insert"
    /\ logins[req[r].login] \in Live
    /\ req[r].kind = "hire" => Employed(req[r].email) = {}
    /\ req[r].kind = "invite" => RowsOf(req[r].login, {"invite"}) = {}
    /\ staff' = [staff EXCEPT ![r] = "on"]
    /\ req' \in {[req EXCEPT ![r].pc = pc] : pc \in {"done", "undo"}}
    /\ UNCHANGED <<status, admins, seats, grants, token, logins>>

\* Something in the transaction fails.
StaffFails(r) == req[r].pc = "insert" /\ Goto(r, "undo")

\* Slip: the login goes whatever still refers to it.
UndoCascading(r) ==
    /\ req[r].pc = "undo"
    /\ logins' \in {logins, [logins EXCEPT ![req[r].login] = "deleted"]}
    /\ req' = [req EXCEPT ![r].pc = "failed"]
    /\ UNCHANGED <<status, admins, seats, grants, token, staff>>

\* deleteUser, best effort: a row, of this request after all or of another one
\* that was given the same login, keeps it (migration 0010, no ON DELETE
\* CASCADE).
Undo(r) ==
    /\ req[r].pc = "undo"
    /\ logins' \in {logins} \cup
         IF RowsOf(req[r].login, Hiring) = {}
         THEN {[logins EXCEPT ![req[r].login] = "deleted"]} ELSE {}
    /\ req' = [req EXCEPT ![r].pc = "failed"]
    /\ UNCHANGED <<status, admins, seats, grants, token, staff>>

\* deactivateEmployeeForSession: both rows in one transaction, or nothing if
\* the employee is inactive already.
Dismiss(r) ==
    /\ req[r].pc = "dismiss"
    /\ IF staff[req[r].employee] = "off" THEN Stop(r, "done")
       ELSE /\ staff' = [staff EXCEPT ![req[r].employee] = "off"]
            /\ req' = [req EXCEPT ![r].pc = "ban"]
            /\ UNCHANGED <<status, admins, seats, grants, token, logins>>

\* banEmployeeAuth, best effort.
Ban(r) ==
    /\ req[r].pc = "ban"
    /\ logins' \in {logins, [logins EXCEPT ![req[r].employee] = "banned"]}
    /\ req' = [req EXCEPT ![r].pc = "done"]
    /\ UNCHANGED <<status, admins, seats, grants, token, staff>>

\* The process ends: nothing is undone, nobody is banned.
Crash(r) ==
    /\ req[r].pc \in {"precheck", "create", "insert", "undo", "dismiss", "ban"}
    /\ Goto(r, "failed")

----------------------------------------------------------------------------

\* At first one administrator has impersonated one business before, or still
\* does, by a grant that his token is too old to show.
Init ==
    /\ status = [b \in Businesses |-> "active"]
    /\ admins = [a \in Admins |-> TRUE]
    /\ \E a \in Admins, b \in Businesses, open \in BOOLEAN :
         /\ seats = [c \in Admins |->
                       [d \in Businesses |->
                          IF c = a /\ d = b THEN IF open THEN "on" ELSE "off" ELSE "none"]]
         /\ grants = [g \in Grants |->
                        IF g = Earlier
                        THEN [admin |-> a, business |-> b, ended |-> ~open, expired |-> FALSE]
                        ELSE None]
    /\ token = [a \in Admins |-> [admin |-> TRUE, business |-> None]]
    /\ logins = [r \in Requests |-> "none"]
    /\ staff = [r \in Requests |-> "none"]
    /\ req = [r \in Requests |-> Unasked]

Impersonate(r) ==
    \/ LockAdmin(r) \/ ReadGrants(r) \/ EndGrant(r) \/ LeaveSeat(r)
    \/ FindSeat(r) \/ TakeSeat(r) \/ InsertGrant(r) \/ Commit(r)
Employ(r) ==
    \/ Precheck(r) \/ CreateLogin(r) \/ Invite(r) \/ InsertStaff(r) \/ StaffFails(r) \/ Undo(r)
    \/ Dismiss(r) \/ Ban(r) \/ Crash(r)

Next ==
    \/ \E a \in Admins : Refresh(a)
    \/ \E g \in Grants : Expire(g)
    \/ \E r \in Requests :
         \/ OpenLink(r) \/ SetPassword(r)
         \/ Begin(r) \/ Check(r) \/ UpdateStatus(r) \/ EditBusiness(r)
         \/ Impersonate(r) \/ Fail(r) \/ Employ(r)

Spec == Init /\ [][Next]_vars

----------------------------------------------------------------------------
(* Properties.                                                             *)

\* Every variable has its type, and a request that is over, or has not begun,
\* has nothing left uncommitted.
TypeOK ==
    /\ status \in [Businesses -> Statuses]
    /\ admins \in [Admins -> BOOLEAN]
    /\ seats \in [Admins -> [Businesses -> {"none", "on", "off"}]]
    /\ grants \in [Grants -> Grant \cup {None}]
    /\ token \in [Admins -> Claim]
    /\ logins \in [Requests -> {"none", "deleted"} \cup Live]
    /\ staff \in [Requests -> {"none", "on", "off"}]
    /\ req \in [Requests -> Request]
    /\ \A r \in Requests : req[r].pc \in Over =>
          req[r].ended = {} /\ req[r].off = {} /\ ~req[r].on /\ ~req[r].granted

\* "a lo más UN grant activo por admin (y por lo tanto, a lo más una fila de
\* users activa)", on which the hook relies: however starts, ends and
\* deactivations of one administrator overlap, he has one grant that is not
\* ended at most, and no users row is active but the one of that grant; so
\* whatever token is signed for him names no other business.  And an action he
\* takes on a token, however old, has an actor to be logged under.
OneSeat ==
    \A a \in Admins :
        /\ Cardinality(Active(a)) <= 1
        /\ \A b \in Businesses : seats[a][b] = "on" => \E g \in Active(a) : grants[g].business = b
        /\ \A c \in ClaimsOf(a) :
             c.business # None => \E g \in Active(a) : grants[g].business = c.business
        /\ requireTenantSession(a) => resolveActor(a) # {}

\* What asks first whether its business is deleted.
Asking(b) == {r \in Requests : req[r].business = b /\ req[r].kind \in {"start", "status", "edit"}}

\* Deleted, and no request is past its look at the business from before.
Gone(b) ==
    /\ status[b] = "deleted"
    /\ \A r \in Asking(b) : req[r].pc \in {"check", "done", "refused", "failed"}

\* "'deleted' es terminal": once the requests that looked at the business
\* before its deletion are through, it stays deleted and nothing that is asked
\* of it succeeds any more: no impersonation, no status, no edit, whoever asks.
DeletedIsLeft ==
    [][\A b \in Businesses : Gone(b) =>
         Gone(b)' /\ \A r \in Asking(b) : req[r].pc # "done" => req'[r].pc # "done"]_vars

\* An account whose owner can log in, or will when he has set a password.
Works(r) ==
    /\ staff[r] = "on"
    /\ logins[req[r].login] \in {"ok"} \cup IF req[r].kind = "hire" THEN {} ELSE {"invited", "opened"}

\* A new account works or does not exist, whatever went wrong while it was
\* made and whoever else was being given an account at that address: every row
\* that names a login has it; an address is employed once and a login is one
\* administrator; an answer of success stands for an account that works until
\* it is dismissed; only the dismissed are banned.
StaffFits ==
    /\ \A q \in Requests : staff[q] # "none" => logins[req[q].login] \in Live
    /\ \A e \in Emails : Cardinality(Employed(e)) <= 1
    /\ \A l \in Requests : Cardinality(RowsOf(l, {"invite"})) <= 1
    /\ \A r \in Requests : req[r].kind \in Hiring /\ req[r].pc = "done" =>
          Works(r) \/ (req[r].kind = "hire" /\ staff[r] = "off")
    /\ \A q \in Requests : logins[q] = "banned" => staff[q] = "off"
============================================================================
