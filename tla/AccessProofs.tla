---------------------------- MODULE AccessProofs ----------------------------
(***************************************************************************)
(* What holds of Access for every set of requests, administrators,         *)
(* businesses and addresses.                                               *)
(*                                                                         *)
(* OneSeat rests on SeatInv: the one request that waits to commit a grant  *)
(* has ended every other grant of its administrator and left their seats,  *)
(* so that the active seats are always those of the one active grant.      *)
(* StaffFits rests on StaffInv: rows name logins that live, and what a     *)
(* request has made and must undo is known from where it is.  A deleted    *)
(* business keeps its status once nobody is past the look at it.           *)
(***************************************************************************)
EXTENDS Access, FiniteSetTheorems, TLAPS

Open == {"end", "off", "seat", "sit", "grant", "commit"}

\* What a request asks for goes with what it is, and where it is; only an
\* impersonation has something uncommitted, and a grant comes with its seat.
Asked(x) ==
    /\ x.kind = None <=> x.pc = "idle"
    /\ x.kind \in Impersonation => x.admin \in Admins
    /\ x.kind \in {"start", "status", "edit", "delete"} => x.business \in Businesses
    /\ x.kind = "delete" => x.status = "deleted"
    /\ x.kind \in Hiring => x.email \in Emails
    /\ x.kind = "fire" => x.employee \in Requests
    /\ x.pc \in {"lock", "read"} \cup Open => x.kind \in Impersonation
    /\ x.pc \in {"seat", "sit", "grant"} => x.kind = "start"
    /\ x.pc = "check" => x.kind \in {"start", "status", "edit"}
    /\ x.pc = "update" => x.kind \in {"status", "edit", "delete"}
    /\ x.pc \in {"precheck", "create", "insert", "undo"} => x.kind \in Hiring
    /\ x.pc \in {"insert", "undo"} => x.login \in Requests
    /\ x.pc \in {"dismiss", "ban"} => x.kind = "fire"
    /\ x.pc \notin Open => x.ended = {} /\ x.off = {} /\ ~x.on /\ ~x.granted
    /\ x.on => x.kind = "start" /\ x.pc \in {"grant", "commit"}
    /\ x.pc = "grant" => x.on
    /\ x.granted => x.on /\ x.pc = "commit"
    /\ x.on /\ x.pc = "commit" => x.granted

\* The grants a request has read, or ended, are there and are its
\* administrator's.
Read(x) == \A g \in x.seen \cup x.ended : grants[g] # None /\ grants[g].admin = x.admin

\* A grant is inserted by a request that is through.
RequestsInv ==
    \A r \in Requests : /\ Asked(req[r]) /\ Read(req[r])
                        /\ grants[r] # None => req[r].pc = "done"

Base == TypeOK /\ RequestsInv

\* The steps of a request.
Acts(r) ==
    \/ Begin(r) \/ Check(r) \/ UpdateStatus(r) \/ EditBusiness(r)
    \/ Impersonate(r) \/ Fail(r) \/ Employ(r)

----------------------------------------------------------------------------
(* Records.                                                                *)

\* A request that is over asks for what it asked for.
LEMMA ClosedAsked ==
    ASSUME NEW x \in Request, Asked(x), Read(x), NEW pc \in {"done", "refused", "failed"},
           x.pc # "idle", NEW y,
           y = [x EXCEPT !.pc = pc, !.ended = {}, !.off = {}, !.on = FALSE, !.granted = FALSE]
    PROVE  y \in Request /\ Asked(y) /\ Read(y)
<1>1. pc \in Pcs
  BY DEF Pcs
<1>2. /\ y \in Request /\ y.pc = pc
      /\ y.kind = x.kind /\ y.admin = x.admin /\ y.business = x.business
      /\ y.status = x.status /\ y.email = x.email /\ y.employee = x.employee
      /\ y.seen = x.seen /\ y.ended = {} /\ y.off = {} /\ ~y.on /\ ~y.granted
  BY <1>1 DEF Request
<1>3. Read(y)
  BY <1>2 DEF Read
<1>4. Asked(y)
  BY <1>2 DEF Asked, Open
<1> QED
  BY <1>2, <1>3, <1>4

\* A request that moves on keeps all but where it is.
Alike(x, y) ==
    /\ y.kind = x.kind /\ y.admin = x.admin /\ y.business = x.business
    /\ y.status = x.status /\ y.email = x.email /\ y.login = x.login
    /\ y.employee = x.employee /\ y.seen = x.seen /\ y.found = x.found
    /\ y.ended = x.ended /\ y.off = x.off /\ y.on = x.on /\ y.granted = x.granted

LEMMA Moved ==
    ASSUME NEW x \in Request
    PROVE  \A pc \in Pcs : /\ [x EXCEPT !.pc = pc] \in Request
                           /\ [x EXCEPT !.pc = pc].pc = pc
                           /\ Alike(x, [x EXCEPT !.pc = pc])
BY DEF Request, Alike

\* A request that is sent.
Form(x) ==
    /\ x \in Request /\ Asked(x)
    /\ x.seen = {} /\ x.ended = {} /\ x.login = None
    /\ x.pc \in {"check", "update", "lock", "read", "precheck", "create", "dismiss"}
    /\ x.kind \in {"start", "status", "edit"} => x.pc = "check"
    /\ x.kind = "fire" =>
          x.employee \in Requests /\ staff[x.employee] # "none" /\ req[x.employee].kind = "hire"

LEMMA BeginForm ==
    ASSUME NEW r \in Requests, Begin(r)
    PROVE  \E x : Form(x) /\ Arrive(r, x)
<1>1. CASE AskImpersonation(r)
  <2>1. ASSUME NEW a \in Admins, NEW b \in Businesses
        PROVE  Form([Unasked EXCEPT !.kind = "start", !.pc = "check", !.admin = a, !.business = b])
    BY NamesAssumption, NoneAssumption DEF Unasked, Form, Request, Asked, Kinds,
         Impersonation, Hiring, Pcs, Statuses, Open
  <2>2. ASSUME NEW a \in Admins
        PROVE  Form([Unasked EXCEPT !.kind = "end", !.pc = "read", !.admin = a])
    BY NamesAssumption, NoneAssumption DEF Unasked, Form, Request, Asked, Kinds,
         Impersonation, Hiring, Pcs, Statuses, Open
  <2> QED
    BY <1>1, <2>1, <2>2, Zenon DEF AskImpersonation
<1>2. CASE AskAccount(r)
  <2>1. ASSUME NEW a \in Admins, NEW kind \in {"activate", "deactivate"}
        PROVE  Form([Unasked EXCEPT !.kind = kind, !.pc = "lock", !.admin = a])
    BY NamesAssumption, NoneAssumption DEF Unasked, Form, Request, Asked, Kinds,
         Impersonation, Hiring, Pcs, Statuses, Open
  <2>2. ASSUME NEW e \in Emails
        PROVE  Form([Unasked EXCEPT !.kind = "invite", !.pc = "precheck", !.email = e])
    BY NamesAssumption, NoneAssumption DEF Unasked, Form, Request, Asked, Kinds,
         Impersonation, Hiring, Pcs, Statuses, Open
  <2> QED
    BY <1>2, <2>1, <2>2, Zenon DEF AskAccount
<1>3. CASE AskBusiness(r)
  <2>1. ASSUME NEW e \in Emails
        PROVE  Form([Unasked EXCEPT !.kind = "create", !.pc = "create", !.email = e])
    BY NamesAssumption, NoneAssumption DEF Unasked, Form, Request, Asked, Kinds,
         Impersonation, Hiring, Pcs, Statuses, Open
  <2>2. ASSUME NEW b \in Businesses
        PROVE  Form([Unasked EXCEPT !.kind = "edit", !.pc = "check", !.business = b])
    BY NamesAssumption, NoneAssumption DEF Unasked, Form, Request, Asked, Kinds,
         Impersonation, Hiring, Pcs, Statuses, Open
  <2>3. ASSUME NEW b \in Businesses
        PROVE  Form([Unasked EXCEPT !.kind = "delete", !.pc = "update", !.business = b, !.status = "deleted"])
    BY NamesAssumption, NoneAssumption DEF Unasked, Form, Request, Asked, Kinds,
         Impersonation, Hiring, Pcs, Statuses, Open
  <2>4. ASSUME NEW b \in Businesses, NEW s \in {"active", "suspended"}
        PROVE  Form([Unasked EXCEPT !.kind = "status", !.pc = "check", !.business = b, !.status = s])
    BY NamesAssumption, NoneAssumption DEF Unasked, Form, Request, Asked, Kinds,
         Impersonation, Hiring, Pcs, Statuses, Open
  <2> QED
    BY <1>3, <2>1, <2>2, <2>3, <2>4, Zenon DEF AskBusiness
<1>4. CASE AskStaff(r)
  <2>1. ASSUME NEW e \in Emails
        PROVE  Form([Unasked EXCEPT !.kind = "hire", !.pc = "precheck", !.email = e])
    BY NamesAssumption, NoneAssumption DEF Unasked, Form, Request, Asked, Kinds,
         Impersonation, Hiring, Pcs, Statuses, Open
  <2>2. ASSUME NEW q \in Requests, staff[q] # "none", req[q].kind = "hire"
        PROVE  Form([Unasked EXCEPT !.kind = "fire", !.pc = "dismiss", !.employee = q])
    BY <2>2, NamesAssumption, NoneAssumption DEF Unasked, Form, Request, Asked, Kinds,
         Impersonation, Hiring, Pcs, Statuses, Open
  <2> QED
    BY <1>4, <2>1, <2>2, Zenon DEF AskStaff
<1> QED
  BY <1>1, <1>2, <1>3, <1>4 DEF Begin

----------------------------------------------------------------------------
(* What a step of a request makes of it.                                   *)

Ended == {"done", "refused", "failed"}

\* A request that is sent has its form; one that goes on keeps what was asked.
Becomes(r, x) ==
    /\ x \in Request /\ Asked(x) /\ Read(x)
    /\ x.pc # "idle" /\ req[r].pc \notin Ended
    /\ req' = [req EXCEPT ![r] = x]
    /\ req[r].pc = "idle" => Form(x)
    /\ req[r].pc # "idle" =>
          /\ x.kind = req[r].kind /\ x.admin = req[r].admin /\ x.business = req[r].business
          /\ x.status = req[r].status /\ x.email = req[r].email
          /\ x.employee = req[r].employee
    /\ x.login # req[r].login => req[r].pc \in {"idle", "create"}

LEMMA SentBecomes ==
    ASSUME NEW r \in Requests, Base, Begin(r)
    PROVE  \E x : Becomes(r, x)
<1>1. PICK x : Form(x) /\ Arrive(r, x)
  BY BeginForm
<1>2. Read(x)
  BY <1>1 DEF Form, Read
<1> QED
  BY <1>1, <1>2 DEF Arrive, Becomes, Form, Ended

\* Somewhere else, and nothing more.
LEMMA GoneBecomes ==
    ASSUME NEW r \in Requests, Base, NEW pc \in Pcs,
           req[r].pc \notin Over, pc # "idle",
           Asked([req[r] EXCEPT !.pc = pc]),
           req' = [req EXCEPT ![r].pc = pc]
    PROVE  \E x : Becomes(r, x) /\ x.pc = pc /\ Alike(req[r], x)
<1>1. req[r] \in Request
  BY DEF Base, TypeOK
<1>2. PICK x : x = [req[r] EXCEPT !.pc = pc]
  OBVIOUS
<1>3. x \in Request /\ x.pc = pc /\ Alike(req[r], x)
  BY <1>1, <1>2, Moved
<1>4. Read(x)
  BY <1>3 DEF Read, Alike, Base, RequestsInv
<1>5. req' = [req EXCEPT ![r] = x]
  BY <1>2 DEF Base, TypeOK
<1> QED
  BY <1>2, <1>3, <1>4, <1>5 DEF Becomes, Alike, Over, Ended

LEMMA StoppedBecomes ==
    ASSUME NEW r \in Requests, Base, NEW pc \in {"done", "refused", "failed"},
           req[r].pc \notin Over, req' = Close(r, pc)
    PROVE  \E x : Becomes(r, x) /\ x.pc = pc
<1>1. req[r] \in Request /\ Asked(req[r]) /\ Read(req[r])
  BY DEF Base, TypeOK, RequestsInv
<1>2. PICK x : x = [req[r] EXCEPT !.pc = pc, !.ended = {}, !.off = {}, !.on = FALSE, !.granted = FALSE]
  OBVIOUS
<1>3. x \in Request /\ Asked(x) /\ Read(x)
  BY <1>1, <1>2, ClosedAsked DEF Over
<1>4. /\ x.pc = pc
      /\ x.kind = req[r].kind /\ x.admin = req[r].admin /\ x.business = req[r].business
      /\ x.status = req[r].status /\ x.email = req[r].email
      /\ x.employee = req[r].employee /\ x.login = req[r].login
  BY <1>1, <1>2 DEF Request
<1>5. req' = [req EXCEPT ![r] = x]
  BY <1>2 DEF Close, Base, TypeOK
<1> QED
  BY <1>3, <1>4, <1>5 DEF Becomes, Over, Ended

LEMMA GrantsBecome ==
    ASSUME NEW r \in Requests, Base,
           LockAdmin(r) \/ ReadGrants(r) \/ EndGrant(r) \/ LeaveSeat(r)
    PROVE  \E x : Becomes(r, x)
<1>1. req[r] \in Request /\ Asked(req[r]) /\ Read(req[r])
  BY DEF Base, TypeOK, RequestsInv
<1>2. CASE LockAdmin(r)
  <2>1. PICK pc : pc = IF req[r].kind = "activate" THEN "commit" ELSE "read"
    OBVIOUS
  <2>2. Asked([req[r] EXCEPT !.pc = pc]) /\ pc \in Pcs /\ pc # "idle"
    BY <1>1, <1>2, <2>1 DEF LockAdmin, Asked, Request, Pcs, Open
  <2> QED
    BY <1>2, <2>1, <2>2, GoneBecomes DEF LockAdmin, Goto, Over
<1>3. CASE ReadGrants(r)
  <2>1. PICK x : x = [req[r] EXCEPT !.seen = Active(req[r].admin), !.pc = "end"]
    OBVIOUS
  <2>2. Active(req[r].admin) \in SUBSET Grants
    BY DEF Active
  <2>3. x \in Request
    BY <1>1, <2>1, <2>2 DEF Request, Pcs
  <2>4. Asked(x)
    BY <1>1, <1>3, <2>1 DEF ReadGrants, Request, Asked, Open
  <2>5. Read(x)
    BY <1>1, <1>3, <2>1 DEF ReadGrants, Request, Asked, Read, Active, Open
  <2>6. req' = [req EXCEPT ![r] = x]
    BY <1>3, <2>1 DEF ReadGrants, Base, TypeOK
  <2> QED
    BY <1>1, <1>3, <2>1, <2>3, <2>4, <2>5, <2>6 DEF Becomes, Ended, ReadGrants, Request
<1>4. CASE EndGrant(r)
  <2>1. CASE req[r].seen \subseteq req[r].ended
    <3>1. PICK pc : pc = IF req[r].kind = "start" THEN "seat" ELSE "commit"
      OBVIOUS
    <3>2. Asked([req[r] EXCEPT !.pc = pc]) /\ pc \in Pcs /\ pc # "idle"
      BY <1>1, <1>4, <3>1 DEF EndGrant, Asked, Request, Pcs, Open
    <3> QED
      BY <1>4, <2>1, <3>1, <3>2, GoneBecomes DEF EndGrant, Goto, Over
  <2>2. CASE ~(req[r].seen \subseteq req[r].ended)
    <3>1. PICK g \in req[r].seen \ req[r].ended :
            req' = [req EXCEPT ![r].ended = @ \cup {g}, ![r].pc = "off"]
      BY <1>4, <2>2 DEF EndGrant
    <3>2. PICK x : x = [req[r] EXCEPT !.ended = @ \cup {g}, !.pc = "off"]
      OBVIOUS
    <3>3. x \in Request
      BY <1>1, <3>1, <3>2 DEF Request, Pcs
    <3>4. Asked(x)
      BY <1>1, <1>4, <3>2 DEF EndGrant, Request, Asked, Open
    <3>5. Read(x)
      BY <1>1, <3>1, <3>2 DEF Request, Read
    <3>6. req' = [req EXCEPT ![r] = x]
      BY <3>1, <3>2 DEF Base, TypeOK
    <3> QED
      BY <1>1, <1>4, <3>2, <3>3, <3>4, <3>5, <3>6 DEF Becomes, Ended, EndGrant, Request
  <2> QED
    BY <2>1, <2>2
<1>5. CASE LeaveSeat(r)
  <2>1. PICK x : x = [req[r] EXCEPT !.off = Unseated(r), !.pc = "end"]
    OBVIOUS
  <2>2. Unseated(r) \in SUBSET Businesses
    BY <1>1 DEF Unseated, Read, Base, TypeOK, Grant, Request
  <2>3. x \in Request
    BY <1>1, <2>1, <2>2 DEF Request, Pcs
  <2>4. Asked(x)
    BY <1>1, <1>5, <2>1 DEF LeaveSeat, Request, Asked, Open
  <2>5. Read(x)
    BY <1>1, <2>1 DEF Request, Read
  <2>6. req' = [req EXCEPT ![r] = x]
    BY <1>5, <2>1 DEF LeaveSeat, Base, TypeOK
  <2> QED
    BY <1>1, <1>5, <2>1, <2>3, <2>4, <2>5, <2>6 DEF Becomes, Ended, LeaveSeat, Request
<1> QED
  BY <1>2, <1>3, <1>4, <1>5

LEMMA SeatBecomes ==
    ASSUME NEW r \in Requests, Base,
           FindSeat(r) \/ TakeSeat(r) \/ InsertGrant(r) \/ Commit(r)
    PROVE  \E x : Becomes(r, x)
<1>1. req[r] \in Request /\ Asked(req[r]) /\ Read(req[r])
  BY DEF Base, TypeOK, RequestsInv
<1>2. CASE FindSeat(r)
  <2>1. PICK found : found = (seats[req[r].admin][req[r].business] # "none")
    OBVIOUS
  <2>2. PICK x : x = [req[r] EXCEPT !.found = found, !.pc = "sit"]
    OBVIOUS
  <2>3. found \in BOOLEAN
    BY <2>1
  <2>4. x \in Request
    BY <1>1, <2>2, <2>3 DEF Request, Pcs
  <2>5. Asked(x)
    BY <1>1, <1>2, <2>2 DEF FindSeat, Request, Asked, Open
  <2>6. Read(x)
    BY <1>1, <2>2 DEF Request, Read
  <2>7. req' = [req EXCEPT ![r] = x]
    BY <1>2, <2>1, <2>2 DEF FindSeat, Base, TypeOK
  <2> QED
    BY <1>1, <1>2, <2>2, <2>4, <2>5, <2>6, <2>7 DEF Becomes, Ended, FindSeat, Request
<1>3. CASE TakeSeat(r) /\ ~(req' = Close(r, "failed"))
  <2>1. PICK x : x = [req[r] EXCEPT !.on = TRUE, !.pc = "grant"]
    OBVIOUS
  <2>2. x \in Request
    BY <1>1, <2>1 DEF Request, Pcs
  <2>3. Asked(x)
    BY <1>1, <1>3, <2>1 DEF TakeSeat, Request, Asked, Open
  <2>4. Read(x)
    BY <1>1, <2>1 DEF Request, Read
  <2>5. req' = [req EXCEPT ![r] = x]
    BY <1>3, <2>1 DEF TakeSeat, Stop, Base, TypeOK
  <2> QED
    BY <1>1, <1>3, <2>1, <2>2, <2>3, <2>4, <2>5 DEF Becomes, Ended, TakeSeat, Request
<1>4. CASE InsertGrant(r) /\ ~(req' = Close(r, "failed"))
  <2>1. PICK x : x = [req[r] EXCEPT !.granted = TRUE, !.pc = "commit"]
    OBVIOUS
  <2>2. x \in Request
    BY <1>1, <2>1 DEF Request, Pcs
  <2>3. req[r].on
    BY <1>1, <1>4 DEF Asked, InsertGrant
  <2>4. Asked(x)
    BY <1>1, <1>4, <2>1, <2>3 DEF InsertGrant, Request, Asked, Open
  <2>5. Read(x)
    BY <1>1, <2>1 DEF Request, Read
  <2>6. req' = [req EXCEPT ![r] = x]
    BY <1>4, <2>1 DEF InsertGrant, Stop, Base, TypeOK
  <2> QED
    BY <1>1, <1>4, <2>1, <2>2, <2>4, <2>5, <2>6 DEF Becomes, Ended, InsertGrant, Request
<1>5. CASE Commit(r)
  BY <1>5, StoppedBecomes DEF Commit, Over
<1>6. CASE TakeSeat(r) /\ req' = Close(r, "failed")
  BY <1>6, StoppedBecomes DEF TakeSeat, Over
<1>7. CASE InsertGrant(r) /\ req' = Close(r, "failed")
  BY <1>7, StoppedBecomes DEF InsertGrant, Over
<1> QED
  BY <1>2, <1>3, <1>4, <1>5, <1>6, <1>7

LEMMA BusinessBecomes ==
    ASSUME NEW r \in Requests, Base,
           Check(r) \/ UpdateStatus(r) \/ EditBusiness(r) \/ Fail(r)
    PROVE  \E x : Becomes(r, x)
<1>1. req[r] \in Request /\ Asked(req[r]) /\ Read(req[r])
  BY DEF Base, TypeOK, RequestsInv
<1>2. CASE Check(r) /\ Stop(r, "refused")
  BY <1>2, StoppedBecomes DEF Check, Stop, Over
<1>3. CASE Check(r) /\ ~Stop(r, "refused")
  <2>1. PICK pc : pc = IF req[r].kind = "start" THEN "read" ELSE "update"
    OBVIOUS
  <2>2. Asked([req[r] EXCEPT !.pc = pc]) /\ pc \in Pcs /\ pc # "idle"
    BY <1>1, <1>3, <2>1 DEF Check, Asked, Request, Pcs, Open, Impersonation
  <2> QED
    BY <1>3, <2>1, <2>2, GoneBecomes DEF Check, Goto, Over
<1>4. CASE UpdateStatus(r) \/ EditBusiness(r)
  <2>1. PICK pc \in {"done", "failed"} : req' = [req EXCEPT ![r].pc = pc]
    BY <1>4 DEF UpdateStatus, EditBusiness, Written
  <2>2. Asked([req[r] EXCEPT !.pc = pc]) /\ pc \in Pcs /\ pc # "idle"
    BY <1>1, <1>4, <2>1 DEF UpdateStatus, EditBusiness, Asked, Request, Pcs, Open
  <2> QED
    BY <1>4, <2>1, <2>2, GoneBecomes DEF UpdateStatus, EditBusiness, Over
<1>5. CASE Fail(r)
  BY <1>5, StoppedBecomes DEF Fail, Stop
<1> QED
  BY <1>2, <1>3, <1>4, <1>5

LEMMA StaffBecomes ==
    ASSUME NEW r \in Requests, Base, Employ(r)
    PROVE  \E x : Becomes(r, x)
<1>1. req[r] \in Request /\ Asked(req[r]) /\ Read(req[r])
  BY DEF Base, TypeOK, RequestsInv
<1>2. CASE \E pc \in {"done", "refused"} :
             Stop(r, pc) /\ req[r].pc \in {"precheck", "create", "dismiss"}
  BY <1>2, StoppedBecomes DEF Stop, Over
<1>3. CASE \E pc \in {"create", "undo", "ban", "done", "failed"} :
             /\ req' = [req EXCEPT ![r].pc = pc]
             /\ \/ req[r].pc = "precheck" /\ pc = "create"
                \/ req[r].pc = "insert" /\ pc \in {"undo", "done"}
                \/ req[r].pc \in {"precheck", "create", "insert", "undo", "dismiss", "ban"} /\ pc = "failed"
                \/ req[r].pc = "dismiss" /\ pc = "ban"
                \/ req[r].pc = "ban" /\ pc = "done"
  <2>1. PICK pc \in {"create", "undo", "ban", "done", "failed"} :
             /\ req' = [req EXCEPT ![r].pc = pc]
             /\ \/ req[r].pc = "precheck" /\ pc = "create"
                \/ req[r].pc = "insert" /\ pc \in {"undo", "done"}
                \/ req[r].pc \in {"precheck", "create", "insert", "undo", "dismiss", "ban"} /\ pc = "failed"
                \/ req[r].pc = "dismiss" /\ pc = "ban"
                \/ req[r].pc = "ban" /\ pc = "done"
    BY <1>3
  <2>2. pc \in Pcs /\ pc # "idle" /\ req[r].pc \notin Over
    BY <2>1 DEF Pcs, Over
  <2>3. Asked([req[r] EXCEPT !.pc = pc])
    BY <1>1, <2>1 DEF Asked, Request, Open
  <2> QED
    BY <2>1, <2>2, <2>3, GoneBecomes
<1>4. CASE \E l \in Requests : Answered(r, l) /\ req[r].pc = "create"
  <2>1. PICK l \in Requests, pc \in {"insert", "failed"} :
          req' = [req EXCEPT ![r].pc = pc, ![r].login = l] /\ req[r].pc = "create"
    BY <1>4 DEF Answered
  <2>2. PICK x : x = [req[r] EXCEPT !.pc = pc, !.login = l]
    OBVIOUS
  <2>3. x \in Request
    BY <1>1, <2>1, <2>2 DEF Request, Pcs
  <2>4. Asked(x)
    BY <1>1, <2>1, <2>2 DEF Request, Asked, Open
  <2>5. Read(x)
    BY <1>1, <2>2 DEF Request, Read
  <2>6. req' = [req EXCEPT ![r] = x]
    BY <2>1, <2>2 DEF Base, TypeOK
  <2> QED
    BY <1>1, <2>1, <2>2, <2>3, <2>4, <2>5, <2>6 DEF Becomes, Ended, Request
<1>5. CASE Precheck(r)
  BY <1>5, <1>2, <1>3 DEF Precheck, Goto
<1>6. CASE CreateLogin(r)
  BY <1>6, <1>2, <1>4 DEF CreateLogin
<1>7. CASE Invite(r)
  BY <1>7, <1>2, <1>4 DEF Invite, Registered
<1>8. CASE InsertStaff(r)
  BY <1>8, <1>3 DEF InsertStaff
<1>9. CASE StaffFails(r)
  BY <1>9, <1>3 DEF StaffFails, Goto
<1>10. CASE Undo(r)
  BY <1>10, <1>3 DEF Undo
<1>11. CASE Dismiss(r)
  BY <1>11, <1>2, <1>3 DEF Dismiss
<1>12. CASE Ban(r)
  BY <1>12, <1>3 DEF Ban
<1>13. CASE Crash(r)
  BY <1>13, <1>3 DEF Crash, Goto
<1> QED
  BY <1>5, <1>6, <1>7, <1>8, <1>9, <1>10, <1>11, <1>12, <1>13 DEF Employ

LEMMA Becoming ==
    ASSUME NEW r \in Requests, Base, Acts(r)
    PROVE  \E x : Becomes(r, x)
BY SentBecomes, GrantsBecome, SeatBecomes, BusinessBecomes, StaffBecomes DEF Acts, Impersonate

----------------------------------------------------------------------------
(* Types, and what a request has left to do.                               *)

LEMMA BaseInit == Init => Base
<1> SUFFICES ASSUME Init PROVE Base
  OBVIOUS
<1>1. Unasked \in Request /\ Asked(Unasked) /\ Read(Unasked)
  BY NoneAssumption DEF Unasked, Request, Asked, Read, Kinds, Impersonation, Hiring,
       Pcs, Statuses, Open
<1>2. req \in [Requests -> Request] /\ \A r \in Requests : req[r] = Unasked
  BY <1>1 DEF Init
<1>3. grants \in [Grants -> Grant \cup {None}] /\ \A r \in Requests : grants[r] = None
  BY NamesAssumption DEF Init, Grants, Grant
<1>4. seats \in [Admins -> [Businesses -> {"none", "on", "off"}]]
  BY DEF Init
<1>5. TypeOK
  BY <1>2, <1>3, <1>4 DEF Init, TypeOK, Statuses, Claim, Live, Unasked
<1> QED
  BY <1>1, <1>2, <1>3, <1>5 DEF Base, RequestsInv, Read

\* A grant stays, of the administrator and for the business it was given for.
Lasting ==
    \A g \in Grants : grants[g] # None =>
        /\ grants'[g] # None
        /\ grants'[g].admin = grants[g].admin /\ grants'[g].business = grants[g].business
        /\ grants[g].ended => grants'[g].ended

\* What is committed: a grant, for an administrator who impersonates.
LEMMA Commits ==
    ASSUME Base, NEW r \in Requests, Commit(r)
    PROVE  /\ req[r].admin \in Admins
           /\ req[r].granted => req[r].business \in Businesses
           /\ grants[r] = None
           /\ r \notin req[r].ended
           /\ \A g \in Grants :
                grants'[g] = IF g = r /\ req[r].granted
                             THEN [admin |-> req[r].admin, business |-> req[r].business,
                                   ended |-> FALSE, expired |-> FALSE]
                             ELSE IF g \in req[r].ended THEN [grants[g] EXCEPT !.ended = TRUE]
                             ELSE grants[g]
           /\ req[r].granted =>
                grants'[r].admin = req[r].admin /\ grants'[r].business = req[r].business
<1>1. req[r] \in Request /\ Asked(req[r]) /\ Read(req[r]) /\ req[r].pc = "commit"
  BY DEF Base, TypeOK, RequestsInv, Commit
<1>2. grants[r] = None
  BY <1>1 DEF Base, RequestsInv
<1>3. req[r].admin \in Admins /\ (req[r].granted => req[r].business \in Businesses)
  BY <1>1 DEF Asked, Open
<1>4. r \notin req[r].ended
  BY <1>1, <1>2 DEF Read
<1>5. \A g \in Grants :
        grants'[g] = IF g = r /\ req[r].granted
                     THEN [admin |-> req[r].admin, business |-> req[r].business,
                           ended |-> FALSE, expired |-> FALSE]
                     ELSE IF g \in req[r].ended THEN [grants[g] EXCEPT !.ended = TRUE]
                     ELSE grants[g]
  BY DEF Commit
<1>6. PICK new : new = [admin |-> req[r].admin, business |-> req[r].business,
                        ended |-> FALSE, expired |-> FALSE]
  OBVIOUS
<1>7. new.admin = req[r].admin /\ new.business = req[r].business
  BY <1>6
<1>8. req[r].granted => grants'[r] = new
  BY <1>5, <1>6 DEF Grants
<1> QED
  BY <1>2, <1>3, <1>4, <1>5, <1>7, <1>8

LEMMA CommitTypes ==
    ASSUME Base, NEW r \in Requests, Commit(r)
    PROVE  /\ admins' \in [Admins -> BOOLEAN]
           /\ seats' \in [Admins -> [Businesses -> {"none", "on", "off"}]]
           /\ grants' \in [Grants -> Grant \cup {None}]
           /\ Lasting
<1>1. /\ grants \in [Grants -> Grant \cup {None}] /\ admins \in [Admins -> BOOLEAN]
      /\ seats \in [Admins -> [Businesses -> {"none", "on", "off"}]]
      /\ req[r] \in Request /\ Read(req[r])
  BY DEF Base, TypeOK, RequestsInv
<1>2. admins' \in [Admins -> BOOLEAN]
  BY <1>1 DEF Commit
<1>3. seats' \in [Admins -> [Businesses -> {"none", "on", "off"}]]
  BY <1>1 DEF Commit
<1>4. ASSUME NEW g \in Grants
      PROVE  /\ grants'[g] \in Grant \cup {None}
             /\ grants[g] # None =>
                  /\ grants'[g] # None
                  /\ grants'[g].admin = grants[g].admin /\ grants'[g].business = grants[g].business
                  /\ grants[g].ended => grants'[g].ended
  <2>1. CASE g = r /\ req[r].granted
    <3>1. /\ grants[g] = None /\ req[r].admin \in Admins /\ req[r].business \in Businesses
          /\ grants'[g] = [admin |-> req[r].admin, business |-> req[r].business,
                           ended |-> FALSE, expired |-> FALSE]
      BY <2>1, Commits
    <3>2. grants'[g] \in Grant
      BY <3>1 DEF Grant
    <3> QED
      BY <3>1, <3>2
  <2>2. CASE ~(g = r /\ req[r].granted) /\ g \in req[r].ended
    <3>1. grants[g] \in Grant /\ grants'[g] = [grants[g] EXCEPT !.ended = TRUE]
      BY <1>1, <2>2, Commits DEF Read
    <3>2. grants'[g] \in Grant
      BY <3>1 DEF Grant
    <3> QED
      BY <3>1, <3>2, NoneAssumption DEF Grant
  <2>3. CASE ~(g = r /\ req[r].granted) /\ g \notin req[r].ended
    BY <1>1, <2>3, Commits
  <2> QED
    BY <2>1, <2>2, <2>3
<1>5. grants' \in [Grants -> Grant \cup {None}]
  BY <1>4 DEF Commit
<1> QED
  BY <1>2, <1>3, <1>4, <1>5 DEF Lasting

LEMMA RefreshTypes ==
    ASSUME Base, NEW a \in Admins, Refresh(a)
    PROVE  token' \in [Admins -> Claim]
<1>1. PICK c \in ClaimsOf(a) : token' = [token EXCEPT ![a] = c]
  BY DEF Refresh
<1>2. \A g \in Active(a) : grants[g].business \in Businesses
  BY DEF Active, Base, TypeOK, Grant
<1>3. admins[a] \in BOOLEAN
  BY DEF Base, TypeOK
<1>4. PICK live, named :
        /\ live = {g \in Active(a) : ~grants[g].expired}
        /\ named = IF admins[a] THEN {grants[g].business : g \in live}
                   ELSE {b \in Businesses : seats[a][b] = "on"}
        /\ c \in [admin : {admins[a]}, business : IF named = {} THEN {None} ELSE named]
  BY <1>1, Zenon DEF ClaimsOf
<1>5. named \in SUBSET Businesses
  <2>1. live \subseteq Active(a)
    BY <1>4
  <2>2. {grants[g].business : g \in live} \subseteq Businesses
    BY <1>2, <2>1
  <2>3. {b \in Businesses : seats[a][b] = "on"} \subseteq Businesses
    OBVIOUS
  <2> QED
    BY <1>4, <2>2, <2>3, Zenon
<1>6. c.admin = admins[a] /\ c.business \in Businesses \cup {None} /\ c = [admin |-> c.admin, business |-> c.business]
  BY <1>4, <1>5
<1>7. c \in Claim
  BY <1>3, <1>6 DEF Claim
<1> QED
  BY <1>1, <1>7 DEF Base, TypeOK

LEMMA ExpireTypes ==
    ASSUME Base, NEW g \in Grants, Expire(g)
    PROVE  grants' \in [Grants -> Grant \cup {None}] /\ Lasting
<1>1. grants[g] \in Grant /\ grants' = [grants EXCEPT ![g].expired = TRUE]
  BY DEF Base, TypeOK, Expire
<1>2. grants'[g] = [grants[g] EXCEPT !.expired = TRUE]
  BY <1>1 DEF Base, TypeOK
<1>3. /\ grants'[g] \in Grant /\ grants'[g].admin = grants[g].admin
      /\ grants'[g].business = grants[g].business /\ grants'[g].ended = grants[g].ended
  BY <1>1, <1>2 DEF Grant
<1>4. grants' \in [Grants -> Grant \cup {None}] /\ \A h \in Grants : h # g => grants'[h] = grants[h]
  BY <1>1, <1>3 DEF Base, TypeOK
<1> QED
  BY <1>3, <1>4, NoneAssumption DEF Lasting

\* What the steps of a request make of the tables.
LEMMA ActsTypes ==
    ASSUME Base, NEW r \in Requests, Acts(r)
    PROVE  /\ status' \in [Businesses -> Statuses]
           /\ admins' \in [Admins -> BOOLEAN]
           /\ seats' \in [Admins -> [Businesses -> {"none", "on", "off"}]]
           /\ grants' \in [Grants -> Grant \cup {None}]
           /\ token' = token
           /\ logins' \in [Requests -> {"none", "deleted"} \cup Live]
           /\ staff' \in [Requests -> {"none", "on", "off"}]
           /\ Lasting
<1> DEFINE Goal ==
           /\ status' \in [Businesses -> Statuses]
           /\ admins' \in [Admins -> BOOLEAN]
           /\ seats' \in [Admins -> [Businesses -> {"none", "on", "off"}]]
           /\ grants' \in [Grants -> Grant \cup {None}]
           /\ token' = token
           /\ logins' \in [Requests -> {"none", "deleted"} \cup Live]
           /\ staff' \in [Requests -> {"none", "on", "off"}]
           /\ Lasting
<1>1. /\ TypeOK
      /\ req[r] \in Request /\ Asked(req[r])
  BY DEF Base, TypeOK, RequestsInv
<1>2. ASSUME UNCHANGED Rows PROVE Goal
  BY <1>1, <1>2 DEF Rows, TypeOK, Lasting
<1>3. ASSUME UNCHANGED <<status, admins, seats, grants, token, staff>>,
             logins' \in [Requests -> {"none", "deleted"} \cup Live]
      PROVE  Goal
  BY <1>1, <1>3 DEF TypeOK, Lasting
<1>4. ASSUME UNCHANGED <<status, admins, seats, grants, token, logins>>,
             staff' \in [Requests -> {"none", "on", "off"}]
      PROVE  Goal
  BY <1>1, <1>4 DEF TypeOK, Lasting
<1>5. CASE Begin(r)
  BY <1>2, <1>5, BeginForm DEF Arrive
<1>6. CASE Check(r) \/ EditBusiness(r) \/ Fail(r)
  BY <1>2, <1>6 DEF Check, EditBusiness, Fail, Stop, Goto, Written, Rows
<1>7. CASE UpdateStatus(r)
  <2>1. req[r].status \in Statuses
    BY <1>1 DEF Request
  <2>2. status' \in [Businesses -> Statuses]
    BY <1>1, <1>7, <2>1 DEF UpdateStatus, TypeOK
  <2> QED
    BY <1>1, <1>7, <2>2 DEF UpdateStatus, Written, TypeOK, Lasting
<1>8. CASE Commit(r)
  BY <1>1, <1>8, CommitTypes DEF Commit, TypeOK
<1>9. CASE Impersonate(r) /\ ~Commit(r)
  <2>1. UNCHANGED Rows
    BY <1>9 DEF Impersonate, LockAdmin, ReadGrants, EndGrant, LeaveSeat, FindSeat, TakeSeat,
         InsertGrant, Goto, Stop
  <2> QED
    BY <1>2, <2>1
<1>10. CASE Employ(r)
  <2>1. CASE Precheck(r) \/ StaffFails(r) \/ Crash(r)
    BY <1>2, <2>1 DEF Precheck, StaffFails, Crash, Stop, Goto
  <2>2. CASE CreateLogin(r) \/ Invite(r) \/ Undo(r) \/ Ban(r)
    <3>1. CASE UNCHANGED Rows
      BY <1>2, <3>1
    <3>2. CASE ~UNCHANGED Rows
      <4>1. \E l \in Requests, to \in {"ok", "invited", "deleted", "banned"} :
              logins' = logins \/ logins' = [logins EXCEPT ![l] = to]
        BY <1>1, <2>2, <3>2 DEF CreateLogin, Invite, Undo, Ban, Stop, Registered, Asked
      <4>2. logins' \in [Requests -> {"none", "deleted"} \cup Live]
        BY <1>1, <4>1 DEF TypeOK, Live
      <4> QED
        BY <1>3, <2>2, <3>2, <4>2 DEF CreateLogin, Invite, Undo, Ban, Answered, Stop
    <3> QED
      BY <3>1, <3>2
  <2>3. CASE InsertStaff(r)
    BY <1>1, <1>4, <2>3 DEF InsertStaff, TypeOK
  <2>4. CASE Dismiss(r)
    <3>1. req[r].employee \in Requests
      BY <1>1, <2>4 DEF Dismiss, Asked
    <3>2. CASE staff[req[r].employee] = "off"
      BY <1>2, <2>4, <3>2 DEF Dismiss, Stop
    <3>3. CASE staff[req[r].employee] # "off"
      BY <1>1, <1>4, <2>4, <3>1, <3>3 DEF Dismiss, TypeOK
    <3> QED
      BY <3>2, <3>3
  <2> QED
    BY <1>10, <2>1, <2>2, <2>3, <2>4 DEF Employ
<1> QED
  BY <1>5, <1>6, <1>7, <1>8, <1>9, <1>10 DEF Acts

\* A new grant is of a request that is through then.
LEMMA NewGrants ==
    ASSUME Base, NEW r \in Requests, Acts(r)
    PROVE  \A q \in Requests : grants[q] = None /\ grants'[q] # None => q = r /\ req'[r].pc = "done"
<1>1. CASE Commit(r)
  <2>1. \A q \in Requests : q # r /\ grants[q] = None => q \notin req[r].ended
    BY <1>1 DEF Base, RequestsInv, Read
  <2>2. \A q \in Requests : q # r /\ grants[q] = None => grants'[q] = None
    BY <1>1, <2>1, Commits DEF Grants
  <2>3. req'[r].pc = "done"
    <3>1. req[r] \in Request
      BY DEF Base, TypeOK
    <3>2. req'[r] = [req[r] EXCEPT !.pc = "done", !.ended = {}, !.off = {}, !.on = FALSE, !.granted = FALSE]
      BY <1>1 DEF Commit, Close, Base, TypeOK
    <3> QED
      BY <3>1, <3>2 DEF Request
  <2> QED
    BY <2>2, <2>3
<1>2. CASE Begin(r)
  BY <1>2, BeginForm DEF Arrive, Rows
<1>3. CASE ~Commit(r) /\ ~Begin(r)
  BY <1>3 DEF Acts, Check, UpdateStatus, EditBusiness, Fail, Impersonate, Employ, Written, Goto, Stop,
       LockAdmin, ReadGrants, EndGrant, LeaveSeat, FindSeat, TakeSeat, InsertGrant,
       Precheck, CreateLogin, Invite, Answered, InsertStaff, StaffFails, Undo, Dismiss, Ban, Crash, Rows
<1> QED
  BY <1>1, <1>2, <1>3

\* Steps of nobody's request.
Signs == \E a \in Admins : Refresh(a)
Expires == \E g \in Grants : Expire(g)
Opens == \E q \in Requests : OpenLink(q) \/ SetPassword(q)

LEMMA Steps ==
    ASSUME [Next]_vars
    PROVE  Signs \/ Expires \/ Opens \/ (\E r \in Requests : Acts(r)) \/ UNCHANGED vars
BY DEF Next, Acts, Signs, Expires, Opens

LEMMA BaseStep == Base /\ [Next]_vars => Base'
<1> SUFFICES ASSUME Base, [Next]_vars PROVE Base'
  OBVIOUS
<1>1. TypeOK /\ RequestsInv
  BY DEF Base
<1>2. ASSUME Lasting, NEW x, Read(x), x.seen \cup x.ended \subseteq Grants
      PROVE  Read(x)'
  BY <1>2 DEF Lasting, Read
<1>3. \A q \in Requests : req[q].seen \cup req[q].ended \subseteq Grants
  BY <1>1 DEF TypeOK, Request
<1>4. CASE Signs
  BY <1>1, <1>4, RefreshTypes DEF Signs, Refresh, Base, TypeOK, RequestsInv, Read
<1>5. CASE Expires
  <2>1. PICK g \in Grants : Expire(g)
    BY <1>5 DEF Expires
  <2>2. grants' \in [Grants -> Grant \cup {None}] /\ Lasting
    BY <2>1, ExpireTypes
  <2>3. TypeOK'
    BY <1>1, <2>1, <2>2 DEF Expire, TypeOK
  <2>4. \A q \in Requests : grants'[q] # None => grants[q] # None
    BY <1>1, <2>1 DEF Expire, TypeOK, Grants
  <2>5. RequestsInv'
    BY <1>1, <1>2, <1>3, <2>1, <2>2, <2>4 DEF Expire, RequestsInv
  <2> QED
    BY <2>3, <2>5 DEF Base
<1>6. CASE Opens
  <2>1. logins' \in [Requests -> {"none", "deleted"} \cup Live]
    BY <1>1, <1>6 DEF Opens, OpenLink, SetPassword, TypeOK, Live
  <2> QED
    BY <1>1, <1>6, <2>1 DEF Opens, OpenLink, SetPassword, Base, TypeOK, RequestsInv, Read
<1>7. ASSUME NEW r \in Requests, Acts(r) PROVE Base'
  <2>1. PICK x : Becomes(r, x)
    BY <1>7, Becoming
  <2>2. req' \in [Requests -> Request] /\ req'[r] = x /\ \A q \in Requests : q # r => req'[q] = req[q]
    BY <1>1, <2>1 DEF Becomes, TypeOK
  <2>3. \A q \in Requests : Asked(req'[q]) /\ Read(req'[q])
    BY <1>1, <2>1, <2>2 DEF Becomes, RequestsInv
  <2>4. \A q \in Requests : req'[q].seen \cup req'[q].ended \subseteq Grants
    BY <2>2 DEF Request
  <2>5. ASSUME NEW q \in Requests PROVE Read(req[q])'
    <3>1. PICK y : y = req'[q]
      OBVIOUS
    <3>2. Read(y)'
      BY <1>2, <1>7, <2>3, <2>4, <3>1, ActsTypes
    <3> QED
      BY <3>1, <3>2 DEF Read
  <2>6. \A q \in Requests : grants'[q] # None => req'[q].pc = "done"
    BY <1>1, <1>7, <2>1, <2>2, NewGrants DEF Becomes, RequestsInv, Ended
  <2>7. RequestsInv'
    <3>1. \A q \in Requests : Asked(req[q])'
      BY <2>3 DEF Asked
    <3> QED
      BY <2>5, <2>6, <3>1 DEF RequestsInv
  <2>8. TypeOK'
    BY <1>1, <1>7, <2>2, <2>3, ActsTypes DEF TypeOK, Asked, Over, Open
  <2> QED
    BY <2>7, <2>8 DEF Base
<1>8. CASE UNCHANGED vars
  BY <1>1, <1>8 DEF vars, Base, TypeOK, RequestsInv, Read
<1> QED
  BY <1>4, <1>5, <1>6, <1>7, <1>8, Steps

\* Every variable keeps its type, whatever requests overlap.
THEOREM TypeCorrect == Spec => []TypeOK
<1>1. Base => TypeOK
  BY DEF Base
<1> QED
  BY <1>1, BaseInit, BaseStep, PTL DEF Spec

LEMMA BaseAlways == Spec => []Base
BY BaseInit, BaseStep, PTL DEF Spec

----------------------------------------------------------------------------
(* One grant of an administrator, and one seat.                            *)

\* A grant waits to be committed by one request of its administrator, and
\* that one has ended every other grant.
OneWaits ==
    \A r \in Requests : req[r].granted =>
        /\ Active(req[r].admin) \subseteq req[r].ended
        /\ \A q \in Requests : req[q].granted /\ req[q].admin = req[r].admin => q = r

\* The seats of the grants a request has ended are left before it goes on.
SeatsLeft ==
    \A r \in Requests : req[r].pc \in Open \ {"off"} => req[r].off = Unseated(r)

\* What a grant, or a token, names has had its seat.
SeatsMade ==
    /\ \A g \in Grants : grants[g] # None => seats[grants[g].admin][grants[g].business] # "none"
    /\ \A a \in Admins : token[a].business # None => seats[a][token[a].business] # "none"

\* One grant is active, and every active seat is that grant's.
OneActive ==
    \A a \in Admins :
        /\ \A g, h \in Active(a) : g = h
        /\ \A b \in Businesses : seats[a][b] = "on" => \E g \in Active(a) : grants[g].business = b

SeatInv == OneWaits /\ SeatsLeft /\ SeatsMade /\ OneActive

----------------------------------------------------------------------------
(* The accounts.                                                           *)

\* Rows are of a request that has got that far, and name a login that lives.
RowsInv ==
    \A q \in Requests : staff[q] # "none" =>
        /\ req[q].kind \in Hiring /\ req[q].pc \in {"done", "undo", "failed"}
        /\ req[q].login \in Requests /\ logins[req[q].login] \in Live
        /\ req[q].kind # "hire" => staff[q] = "on"

\* A login is of the kind of request that made it; who was hired has his own.
LoginsInv ==
    /\ \A q \in Requests : logins[q] # "none" =>
         /\ req[q].kind \in Hiring
         /\ req[q].kind = "hire" => logins[q] \notin {"invited", "opened"}
         /\ req[q].kind # "hire" => logins[q] # "banned"
    /\ \A q \in Requests : req[q].login # None =>
         /\ req[q].login \in Requests /\ req[q].kind \in Hiring
         /\ req[q].kind = "hire" => req[q].login = q
         /\ req[q].kind # "hire" => req[req[q].login].kind \in {"invite", "create"}

\* Who is hired logs in until he is dismissed, and is banned after that.
HiredInv ==
    /\ \A q \in Requests : req[q].kind = "hire" /\ staff[q] = "on" => logins[q] = "ok"
    /\ \A q \in Requests : req[q].kind \in Hiring /\ req[q].pc = "done" => staff[q] # "none"
    /\ \A q \in Requests : req[q].kind = "fire" =>
         /\ req[q].employee \in Requests
         /\ staff[req[q].employee] # "none" /\ req[req[q].employee].kind = "hire"
         /\ req[q].pc = "ban" => staff[req[q].employee] = "off"
    /\ \A q \in Requests : logins[q] = "banned" => staff[q] = "off"

\* An address is employed once, and a login is one administrator.
OnceInv ==
    /\ \A q, p \in Requests :
         /\ staff[q] # "none" /\ req[q].kind = "hire"
         /\ staff[p] # "none" /\ req[p].kind = "hire"
         /\ req[q].email = req[p].email
         => q = p
    /\ \A q, p \in Requests :
         /\ staff[q] # "none" /\ req[q].kind = "invite"
         /\ staff[p] # "none" /\ req[p].kind = "invite"
         /\ req[q].login = req[p].login
         => q = p

StaffInv == RowsInv /\ LoginsInv /\ HiredInv /\ OnceInv

----------------------------------------------------------------------------
(* A business that is deleted.                                             *)

\* Its status stays, and nobody is past the look at it.
LEMMA GoneStays ==
    ASSUME Base, [Next]_vars, NEW b \in Businesses, Gone(b)
    PROVE  /\ Gone(b)'
           /\ \A r \in Asking(b) : req[r].pc # "done" => req'[r].pc # "done"
<1>1. TypeOK /\ RequestsInv
  BY DEF Base
<1>2. ASSUME status' = status, req' = req
      PROVE  Gone(b)' /\ \A r \in Asking(b) : req[r].pc # "done" => req'[r].pc # "done"
  BY <1>2 DEF Gone, Asking
<1>3. ASSUME NEW r \in Requests, Acts(r)
      PROVE  Gone(b)' /\ \A q \in Asking(b) : req[q].pc # "done" => req'[q].pc # "done"
  <2>1. PICK x : Becomes(r, x)
    BY <1>3, Becoming
  <2>2. req'[r] = x /\ \A q \in Requests : q # r => req'[q] = req[q]
    BY <1>1, <2>1 DEF Becomes, TypeOK
  <2>3. Asked(req[r])
    BY <1>1 DEF RequestsInv
  <2>4. status'[b] = "deleted"
    <3>1. CASE UpdateStatus(r) /\ req[r].business = b
      <4>1. req[r].kind = "delete" /\ req[r].status = "deleted"
        BY <2>3, <3>1 DEF UpdateStatus, Asked, Gone, Asking
      <4> QED
        BY <1>1, <3>1, <4>1 DEF UpdateStatus, TypeOK
    <3>2. CASE UpdateStatus(r) /\ req[r].business # b
      BY <1>1, <3>2 DEF UpdateStatus, TypeOK, Gone
    <3>3. CASE Begin(r)
      BY <3>3, BeginForm DEF Arrive, Rows, Gone
    <3>4. CASE ~UpdateStatus(r) /\ ~Begin(r)
      <4>1. status' = status
        BY <1>3, <3>4 DEF Acts, Check, EditBusiness, Fail, Impersonate, Employ, Written, Goto, Stop,
             LockAdmin, ReadGrants, EndGrant, LeaveSeat, FindSeat, TakeSeat, InsertGrant, Commit,
             Precheck, CreateLogin, Invite, Answered, InsertStaff, StaffFails, Undo, Dismiss, Ban,
             Crash, Rows
      <4> QED
        BY <4>1 DEF Gone
    <3> QED
      BY <3>1, <3>2, <3>3, <3>4
  <2>5. x.business = b /\ x.kind \in {"start", "status", "edit"} => x.pc \in {"check", "refused", "failed"}
    <3>1. CASE req[r].pc = "idle"
      BY <2>1, <3>1 DEF Becomes, Form, Asked, Impersonation
    <3>2. CASE req[r].pc # "idle"
      <4> SUFFICES ASSUME x.business = b, x.kind \in {"start", "status", "edit"}
                   PROVE  x.pc \in {"check", "refused", "failed"}
        OBVIOUS
      <4>1. req[r].business = b /\ req[r].kind \in {"start", "status", "edit"}
        BY <2>1, <3>2 DEF Becomes
      <4>2. req[r].pc = "check"
        BY <2>1, <4>1 DEF Becomes, Ended, Gone, Asking
      <4>3. Check(r) \/ Fail(r)
        BY <1>3, <2>1, <4>2, BeginForm
           DEF Acts, UpdateStatus, EditBusiness, Impersonate, Employ,
               LockAdmin, ReadGrants, EndGrant, LeaveSeat, FindSeat, TakeSeat, InsertGrant, Commit,
               Precheck, CreateLogin, Invite, InsertStaff, StaffFails, Undo, Dismiss, Ban, Crash,
               Begin, AskImpersonation, AskAccount, AskBusiness, AskStaff, Arrive
      <4>4. req' = Close(r, "refused") \/ req' = Close(r, "failed")
        BY <4>1, <4>3 DEF Check, Fail, Stop, Gone
      <4>5. PICK pc \in {"refused", "failed"} : req' = Close(r, pc)
        BY <4>4
      <4>6. \E y : Becomes(r, y) /\ y.pc = pc
        BY <4>2, <4>5, StoppedBecomes DEF Over
      <4> QED
        BY <1>1, <2>2, <4>6 DEF Becomes, TypeOK
    <3> QED
      BY <3>1, <3>2
  <2>6. Gone(b)'
    BY <2>2, <2>4, <2>5 DEF Gone, Asking
  <2>7. \A q \in Asking(b) : req[q].pc # "done" => req'[q].pc # "done"
    <3>1. r \in Asking(b) => req[r].pc # "idle"
      BY <2>3, NoneAssumption DEF Asking, Asked, Kinds, Impersonation
    <3>2. r \in Asking(b) => x.pc # "done"
      BY <2>1, <2>5, <3>1 DEF Asking, Becomes
    <3> QED
      BY <2>2, <3>2 DEF Asking
  <2> QED
    BY <2>6, <2>7
<1>4. CASE Signs \/ Expires \/ Opens \/ UNCHANGED vars
  BY <1>2, <1>4 DEF Signs, Expires, Opens, Refresh, Expire, OpenLink, SetPassword, vars
<1> QED
  BY <1>3, <1>4, Steps

\* A deleted business is left for good, once the requests that looked at it
\* before its deletion are through (Gone): from then on it stays deleted, and
\* nothing more that asks for it succeeds.  One that looked before and writes
\* after can still undo the deletion; the theorem begins when there is none.
THEOREM DeletedForGood == Spec => DeletedIsLeft
<1>1. Base /\ [Next]_vars =>
        [\A b \in Businesses : Gone(b) =>
           Gone(b)' /\ \A r \in Asking(b) : req[r].pc # "done" => req'[r].pc # "done"]_vars
  BY GoneStays
<1> QED
  BY <1>1, BaseAlways, PTL DEF Spec, DeletedIsLeft

LEMMA SeatInit == Init => SeatInv
<1> SUFFICES ASSUME Init PROVE SeatInv
  OBVIOUS
<1>1. \A r \in Requests : ~req[r].granted /\ req[r].pc \notin Open
  BY DEF Init, Unasked, Open
<1>2. PICK a \in Admins, b \in Businesses, open \in BOOLEAN, closed \in BOOLEAN :
        /\ closed = ~open
        /\ seats = [c \in Admins |->
                      [d \in Businesses |->
                         IF c = a /\ d = b THEN IF open THEN "on" ELSE "off" ELSE "none"]]
        /\ grants = [g \in Grants |->
                       IF g = Earlier
                       THEN [admin |-> a, business |-> b, ended |-> closed, expired |-> FALSE]
                       ELSE None]
  BY DEF Init
<1>3. /\ grants[Earlier] = [admin |-> a, business |-> b, ended |-> closed, expired |-> FALSE]
      /\ grants[Earlier] # None
      /\ \A g \in Grants : g # Earlier => grants[g] = None
  <2>1. [admin |-> a, business |-> b, ended |-> closed, expired |-> FALSE] \in Grant
    BY DEF Grant
  <2> QED
    BY <1>2, <2>1, NoneAssumption DEF Grants
<1>4. /\ grants[Earlier].admin = a /\ grants[Earlier].business = b
      /\ grants[Earlier].ended = closed
  <2>1. PICK g : g = [admin |-> a, business |-> b, ended |-> closed, expired |-> FALSE]
    OBVIOUS
  <2>2. g.admin = a /\ g.business = b
    BY <2>1
  <2>3. g.ended = closed
    BY <2>1
  <2>4. grants[Earlier] = g
    BY <1>3, <2>1
  <2> QED
    BY <2>2, <2>3, <2>4
<1>5. SeatsMade
  BY <1>2, <1>3, <1>4 DEF SeatsMade, Init
<1>6. \A c \in Admins : Active(c) \subseteq {Earlier}
  BY <1>3 DEF Active
<1>7. open => Earlier \in Active(a)
  BY <1>2, <1>3, <1>4 DEF Active, Grants
<1>8. \A c \in Admins, d \in Businesses : seats[c][d] = "on" => c = a /\ d = b /\ open
  BY <1>2
<1>9. OneActive
  BY <1>4, <1>6, <1>7, <1>8 DEF OneActive
<1> QED
  BY <1>1, <1>5, <1>9 DEF SeatInv, OneWaits, SeatsLeft

\* A request that goes on has left the seats of what it has ended.
LEMMA Leaves ==
    ASSUME Base, SeatsLeft, NEW r \in Requests, Acts(r), ~Commit(r)
    PROVE  req'[r].pc \in Open \ {"off"} => req'[r].off = {grants[g].business : g \in req'[r].ended}
<1> DEFINE Goal == req'[r].pc \in Open \ {"off"} => req'[r].off = {grants[g].business : g \in req'[r].ended}
<1>1. TypeOK /\ req[r] \in Request /\ Asked(req[r])
  BY DEF Base, TypeOK, RequestsInv
<1>2. req[r].pc \in Open \ {"off"} => req[r].off = {grants[g].business : g \in req[r].ended}
  BY DEF SeatsLeft, Unseated
<1>3. req[r].pc \notin Open => req[r].off = {} /\ req[r].ended = {}
  BY <1>1 DEF Asked
<1>4. ASSUME NEW pc \in Pcs, req' = [req EXCEPT ![r].pc = pc], req[r].pc # "off" PROVE Goal
  <2>1. req'[r].off = req[r].off /\ req'[r].ended = req[r].ended /\ req'[r].pc = pc
    BY <1>1, <1>4 DEF TypeOK, Request
  <2> QED
    BY <1>2, <1>3, <1>4, <2>1
<1>5. ASSUME NEW pc \in {"done", "refused", "failed"}, req' = Close(r, pc) PROVE Goal
  <2>1. req'[r].pc = pc
    BY <1>1, <1>5 DEF Close, TypeOK, Request
  <2> QED
    BY <2>1 DEF Open
<1>6. CASE Begin(r)
  BY <1>1, <1>6, BeginForm DEF Arrive, Form, Open, TypeOK
<1>7. CASE Check(r) \/ Fail(r) \/ UpdateStatus(r) \/ EditBusiness(r)
  BY <1>4, <1>5, <1>7 DEF Check, Fail, UpdateStatus, EditBusiness, Written, Stop, Goto, Pcs
<1>8. CASE LockAdmin(r)
  BY <1>4, <1>8 DEF LockAdmin, Goto, Pcs
<1>9. CASE ReadGrants(r)
  <2>1. req'[r].off = {} /\ req'[r].ended = {}
    BY <1>1, <1>3, <1>9 DEF ReadGrants, TypeOK, Request, Open
  <2> QED
    BY <2>1
<1>10. CASE EndGrant(r)
  <2>1. CASE req[r].seen \subseteq req[r].ended
    BY <1>4, <1>10, <2>1 DEF EndGrant, Goto, Pcs
  <2>2. CASE ~(req[r].seen \subseteq req[r].ended)
    <3>1. PICK g \in req[r].seen \ req[r].ended :
            req' = [req EXCEPT ![r].ended = @ \cup {g}, ![r].pc = "off"]
      BY <1>10, <2>2 DEF EndGrant
    <3>2. req'[r].pc = "off"
      BY <1>1, <3>1 DEF TypeOK, Request
    <3> QED
      BY <3>2
  <2> QED
    BY <2>1, <2>2
<1>11. CASE LeaveSeat(r)
  <2>1. req'[r].off = Unseated(r) /\ req'[r].ended = req[r].ended
    BY <1>1, <1>11 DEF LeaveSeat, TypeOK, Request
  <2> QED
    BY <2>1 DEF Unseated
<1>12. CASE FindSeat(r)
  <2>1. req'[r].off = req[r].off /\ req'[r].ended = req[r].ended
    BY <1>1, <1>12 DEF FindSeat, TypeOK, Request
  <2> QED
    BY <1>2, <1>12, <2>1 DEF FindSeat, Open
<1>13. CASE TakeSeat(r)
  <2>1. CASE Stop(r, "failed")
    BY <1>5, <2>1 DEF Stop
  <2>2. CASE ~Stop(r, "failed")
    <3>1. req'[r].off = req[r].off /\ req'[r].ended = req[r].ended
      BY <1>1, <1>13, <2>2 DEF TakeSeat, TypeOK, Request
    <3> QED
      BY <1>2, <1>13, <3>1 DEF TakeSeat, Open
  <2> QED
    BY <2>1, <2>2
<1>14. CASE InsertGrant(r)
  <2>1. CASE Stop(r, "failed")
    BY <1>5, <2>1 DEF Stop
  <2>2. CASE ~Stop(r, "failed")
    <3>1. req'[r].off = req[r].off /\ req'[r].ended = req[r].ended
      BY <1>1, <1>14, <2>2 DEF InsertGrant, TypeOK, Request
    <3> QED
      BY <1>2, <1>14, <3>1 DEF InsertGrant, Open
  <2> QED
    BY <2>1, <2>2
<1>15. CASE Employ(r)
  <2>1. req'[r].pc \notin Open
    BY <1>1, <1>15
       DEF Employ, Precheck, CreateLogin, Invite, Answered, InsertStaff, StaffFails, Undo,
           Dismiss, Ban, Crash, Stop, Goto, Close, TypeOK, Request, Open
  <2> QED
    BY <2>1
<1> QED
  BY <1>6, <1>7, <1>8, <1>9, <1>10, <1>11, <1>12, <1>13, <1>14, <1>15 DEF Acts, Impersonate

\* Only who has found no other grant that waits, or is not ended, inserts one.
LEMMA Inserts ==
    ASSUME Base, NEW r \in Requests, Acts(r), ~Commit(r), req'[r].granted
    PROVE  /\ req'[r].admin = req[r].admin /\ req'[r].ended = req[r].ended
           /\ Active(req[r].admin) \subseteq req[r].ended
           /\ ~GrantHeld(r)
<1>1. TypeOK /\ req[r] \in Request /\ Asked(req[r])
  BY DEF Base, TypeOK, RequestsInv
<1>2. PICK x : Becomes(r, x)
  BY Becoming
<1>3. req'[r] = x /\ x.pc = "commit"
  BY <1>1, <1>2 DEF Becomes, TypeOK, Asked
<1>4. CASE InsertGrant(r)
  <2>1. ~(req' = Close(r, "failed"))
    BY <1>1 DEF Close, TypeOK, Request
  <2> QED
    BY <1>1, <1>4, <2>1 DEF InsertGrant, Stop, TypeOK, Request
<1>5. CASE ~InsertGrant(r)
  <2>1. Begin(r) => x.pc # "commit"
    BY <1>2 DEF Becomes, Form, Begin, AskImpersonation, AskAccount, AskBusiness, AskStaff, Arrive
  <2>2. CASE EndGrant(r) \/ LockAdmin(r)
    <3>1. ~req[r].granted
      BY <1>1, <2>2 DEF EndGrant, LockAdmin, Asked
    <3>2. CASE \E pc \in Pcs : req' = [req EXCEPT ![r].pc = pc]
      BY <1>1, <3>1, <3>2 DEF TypeOK, Request
    <3>3. CASE \E g \in Grants : req' = [req EXCEPT ![r].ended = @ \cup {g}, ![r].pc = "off"]
      BY <1>1, <3>1, <3>3 DEF TypeOK, Request
    <3>4. req[r].seen \subseteq Grants
      BY <1>1 DEF Request
    <3> QED
      BY <2>2, <3>2, <3>3, <3>4 DEF EndGrant, LockAdmin, Goto, Pcs
  <2>3. CASE ReadGrants(r) \/ LeaveSeat(r) \/ FindSeat(r) \/ TakeSeat(r)
    BY <1>1, <1>3, <2>3 DEF ReadGrants, LeaveSeat, FindSeat, TakeSeat, Stop, Close, TypeOK, Request
  <2>4. CASE Check(r) \/ Fail(r) \/ UpdateStatus(r) \/ EditBusiness(r)
    BY <1>1, <1>3, <2>4 DEF Check, Fail, UpdateStatus, EditBusiness, Written, Stop, Goto, Close,
         TypeOK, Request
  <2>5. CASE Employ(r)
    BY <1>1, <1>3, <2>5
       DEF Employ, Precheck, CreateLogin, Invite, Answered, InsertStaff, StaffFails, Undo,
           Dismiss, Ban, Crash, Stop, Goto, Close, TypeOK, Request
  <2> QED
    BY <1>3, <1>5, <2>1, <2>2, <2>3, <2>4, <2>5 DEF Acts, Impersonate
<1> QED
  BY <1>4, <1>5

\* Grants that stay name what they named.
LEMMA StillUnseats ==
    ASSUME Base, Lasting, NEW r \in Requests
    PROVE  {grants'[g].business : g \in req[r].ended} = Unseated(r)
<1>1. \A g \in req[r].ended : g \in Grants /\ grants[g] # None
  BY DEF Base, TypeOK, RequestsInv, Read, Request
<1>2. \A g \in req[r].ended : grants'[g].business = grants[g].business
  BY <1>1 DEF Lasting
<1> QED
  BY <1>2 DEF Unseated

\* A step that neither commits nor signs.
LEMMA SeatQuiet ==
    ASSUME Base, SeatInv, NEW r \in Requests, Acts(r), ~Commit(r)
    PROVE  SeatInv'
<1>1. TypeOK /\ OneWaits /\ SeatsLeft /\ SeatsMade /\ OneActive
  BY DEF Base, SeatInv
<1>2. UNCHANGED <<seats, grants, token>>
  <2>1. CASE Begin(r)
    BY <2>1, BeginForm DEF Arrive, Rows
  <2>2. CASE ~Begin(r)
    BY <2>2 DEF Acts, Check, UpdateStatus, EditBusiness, Fail, Impersonate, Employ, Written, Goto, Stop,
         LockAdmin, ReadGrants, EndGrant, LeaveSeat, FindSeat, TakeSeat, InsertGrant,
         Precheck, CreateLogin, Invite, Answered, InsertStaff, StaffFails, Undo, Dismiss, Ban, Crash, Rows
  <2> QED
    BY <2>1, <2>2
<1>3. \A a : Active(a)' = Active(a)
  BY <1>2 DEF Active
<1>4. PICK x : Becomes(r, x)
  BY Becoming
<1>5. req'[r] = x /\ \A q \in Requests : q # r => req'[q] = req[q]
  BY <1>1, <1>4 DEF Becomes, TypeOK
<1>6. SeatsMade' /\ OneActive'
  BY <1>1, <1>2, <1>3 DEF SeatsMade, OneActive
<1>7. SeatsLeft'
  <2>1. \A q \in Requests : q # r => (req'[q].pc \in Open \ {"off"} => req'[q].off = {grants'[g].business : g \in req'[q].ended})
    BY <1>1, <1>2, <1>5 DEF SeatsLeft, Unseated
  <2>2. req'[r].pc \in Open \ {"off"} => req'[r].off = {grants'[g].business : g \in req'[r].ended}
    BY <1>1, <1>2, Leaves
  <2> QED
    BY <2>1, <2>2 DEF SeatsLeft, Unseated
<1>8. OneWaits'
  <2>1. ASSUME NEW p \in Requests, req'[p].granted
        PROVE  Active(req'[p].admin) \subseteq req'[p].ended
    BY <1>1, <1>5, <2>1, Inserts DEF OneWaits
  <2>2. ASSUME NEW p \in Requests, NEW q \in Requests,
               req'[p].granted, req'[q].granted, req'[q].admin = req'[p].admin
        PROVE  q = p
    <3>1. CASE p # r /\ q # r
      BY <1>1, <1>5, <2>2, <3>1 DEF OneWaits
    <3>2. CASE p = r /\ q # r
      BY <1>5, <2>2, <3>2, Inserts DEF GrantHeld
    <3>3. CASE p # r /\ q = r
      BY <1>5, <2>2, <3>3, Inserts DEF GrantHeld
    <3> QED
      BY <3>1, <3>2, <3>3
  <2> QED
    BY <1>2, <2>1, <2>2 DEF OneWaits, Active
<1> QED
  BY <1>6, <1>7, <1>8 DEF SeatInv

\* What a commit makes of the grants that are active.
LEMMA CommitActive ==
    ASSUME Base, NEW r \in Requests, Commit(r), NEW a \in Admins
    PROVE  /\ a # req[r].admin => Active(a)' = Active(a)
           /\ a = req[r].admin =>
                Active(a)' = (Active(a) \ req[r].ended) \cup IF req[r].granted THEN {r} ELSE {}
<1>1. TypeOK /\ req[r] \in Request /\ Read(req[r])
  BY DEF Base, TypeOK, RequestsInv
<1>2. ASSUME NEW g \in Grants, ~(g = r /\ req[r].granted)
      PROVE  g \in Active(a)' <=> g \in Active(a) /\ g \notin req[r].ended
  <2>1. CASE g \in req[r].ended
    <3>1. grants[g] \in Grant /\ grants'[g] = [grants[g] EXCEPT !.ended = TRUE]
      BY <1>1, <1>2, <2>1, Commits DEF Read, TypeOK
    <3>2. grants'[g].ended
      BY <3>1 DEF Grant
    <3> QED
      BY <2>1, <3>2 DEF Active
  <2>2. CASE g \notin req[r].ended
    <3>1. grants'[g] = grants[g]
      BY <1>2, <2>2, Commits
    <3> QED
      BY <2>2, <3>1 DEF Active
  <2> QED
    BY <2>1, <2>2
<1>3. ASSUME req[r].granted
      PROVE  r \in Active(a)' <=> a = req[r].admin
  <2>1. grants'[r] = [admin |-> req[r].admin, business |-> req[r].business,
                      ended |-> FALSE, expired |-> FALSE]
    BY <1>3, Commits DEF Grants
  <2>2. grants'[r] \in Grant /\ grants'[r].admin = req[r].admin /\ ~grants'[r].ended
    BY <1>3, <2>1, Commits DEF Grant
  <2> QED
    BY <2>2, NoneAssumption DEF Active, Grants
<1>4. a # req[r].admin => Active(a) \cap req[r].ended = {}
  BY <1>1 DEF Active, Read
<1>5. r \notin Active(a)
  BY Commits DEF Active
<1>6. Active(a) \subseteq Grants /\ Active(a)' \subseteq Grants /\ r \in Grants
  BY DEF Active, Grants
<1> QED
  BY <1>2, <1>3, <1>4, <1>5, <1>6

\* A commit leaves its administrator one grant and one seat.
LEMMA SeatCommits ==
    ASSUME Base, SeatInv, NEW r \in Requests, Commit(r)
    PROVE  SeatInv'
<1>1. TypeOK /\ OneWaits /\ SeatsLeft /\ SeatsMade /\ OneActive
  BY DEF Base, SeatInv
<1>2. req[r] \in Request /\ Asked(req[r]) /\ Read(req[r]) /\ req[r].pc = "commit"
  BY DEF Base, TypeOK, RequestsInv, Commit
<1>3. PICK a : a = req[r].admin
  OBVIOUS
<1>4. a \in Admins /\ (req[r].granted => req[r].business \in Businesses)
  BY <1>3, Commits
<1>5. req[r].on <=> req[r].granted
  BY <1>2 DEF Asked
<1>6. req[r].off = {grants[g].business : g \in req[r].ended}
  BY <1>1, <1>2 DEF SeatsLeft, Open, Unseated
<1>7. PICK x : Becomes(r, x) /\ x.pc = "done"
  BY <1>2, StoppedBecomes DEF Commit, Over
<1>8. req'[r] = x /\ (\A q \in Requests : q # r => req'[q] = req[q]) /\ ~x.granted
  BY <1>1, <1>7 DEF Becomes, TypeOK, Asked
<1>9. Lasting
  BY CommitTypes
<1>10. \A c \in Admins, b \in Businesses :
         seats'[c][b] = IF c # a THEN seats[c][b]
                        ELSE IF req[r].granted /\ b = req[r].business THEN "on"
                        ELSE IF b \in req[r].off THEN "off" ELSE seats[c][b]
  BY <1>1, <1>3, <1>4, <1>5 DEF Commit, TypeOK
<1>11. SeatsLeft'
  <2>1. ASSUME NEW q \in Requests, q # r, req'[q].pc \in Open \ {"off"}
        PROVE  req'[q].off = {grants'[g].business : g \in req'[q].ended}
    BY <1>1, <1>8, <1>9, <2>1, StillUnseats DEF SeatsLeft
  <2>2. req'[r].pc \notin Open
    BY <1>7, <1>8 DEF Open
  <2> QED
    BY <2>1, <2>2 DEF SeatsLeft, Unseated
<1>12. SeatsMade'
  <2>1. \A c \in Admins, b \in Businesses : seats[c][b] # "none" => seats'[c][b] # "none"
    BY <1>10
  <2>2. ASSUME NEW g \in Grants, grants'[g] # None
        PROVE  seats'[grants'[g].admin][grants'[g].business] # "none"
    <3>1. CASE g = r /\ req[r].granted
      BY <1>3, <1>4, <1>10, <3>1, Commits
    <3>2. CASE ~(g = r /\ req[r].granted)
      <4>1. grants[g] # None
        BY <2>2, <1>2, <3>2, Commits DEF Read
      <4>2. grants[g] \in Grant
        BY <1>1, <4>1 DEF TypeOK
      <4>3. grants'[g].admin = grants[g].admin /\ grants'[g].business = grants[g].business
        BY <1>9, <4>1 DEF Lasting
      <4> QED
        BY <1>1, <2>1, <4>1, <4>2, <4>3 DEF SeatsMade, Grant
    <3> QED
      BY <3>1, <3>2
  <2>3. token' = token /\ \A c \in Admins : token[c].business # None => token[c].business \in Businesses
    BY <1>1 DEF Commit, TypeOK, Claim
  <2> QED
    BY <1>1, <2>1, <2>2, <2>3 DEF SeatsMade
<1>13. OneWaits'
  <2>1. ASSUME NEW p \in Requests, req'[p].granted
        PROVE  p # r /\ req'[p] = req[p] /\ req[p].granted /\ req[p].admin \in Admins
    <3>1. p # r /\ req'[p] = req[p] /\ req[p].granted
      BY <1>8, <2>1
    <3>2. Asked(req[p])
      BY DEF Base, RequestsInv
    <3> QED
      BY <3>1, <3>2 DEF Asked, Open
  <2>2. ASSUME NEW p \in Requests, req'[p].granted
        PROVE  Active(req[p].admin)' \subseteq req'[p].ended
    <3>1. p # r /\ req[p].granted /\ req[p].admin \in Admins
      BY <2>1, <2>2
    <3>2. Active(req[p].admin) \subseteq req[p].ended
      BY <1>1, <3>1 DEF OneWaits
    <3>3. PICK c \in Admins : c = req[p].admin
      BY <3>1
    <3>4. c = a => ~req[r].granted
      BY <1>1, <1>3, <3>1, <3>3 DEF OneWaits
    <3>5. Active(c)' \subseteq Active(c)
      BY <1>3, <3>4, CommitActive
    <3>6. Active(req[p].admin)' = Active(c)'
      BY <2>1, <2>2, <3>3 DEF Active
    <3> QED
      BY <2>1, <2>2, <3>2, <3>3, <3>5, <3>6
  <2>3. \A p, q \in Requests : req'[p].granted /\ req'[q].granted /\ req'[q].admin = req'[p].admin => q = p
    BY <1>1, <2>1 DEF OneWaits
  <2> QED
    BY <2>2, <2>3 DEF OneWaits
<1>14. OneActive'
  <2>1. ASSUME NEW c \in Admins
        PROVE  /\ \A g, h \in Active(c)' : g = h
               /\ \A b \in Businesses : seats'[c][b] = "on" => \E g \in Active(c)' : grants'[g].business = b
    <3>1. CASE c # a
      <4>1. Active(c)' = Active(c)
        BY <1>3, <3>1, CommitActive
      <4>2. \A g \in Active(c) : grants'[g].business = grants[g].business
        BY <1>9 DEF Lasting, Active
      <4>3. \A b \in Businesses : seats'[c][b] = seats[c][b]
        BY <1>10, <3>1
      <4> QED
        BY <1>1, <4>1, <4>2, <4>3 DEF OneActive
    <3>2. CASE c = a /\ req[r].granted
      <4>1. Active(a) \subseteq req[r].ended
        BY <1>1, <1>3, <3>2 DEF OneWaits
      <4>2. Active(a)' = {r}
        BY <1>3, <1>4, <3>2, <4>1, CommitActive
      <4>3. grants'[r].business = req[r].business
        BY <3>2, Commits DEF Grants
      <4>4. ASSUME NEW b \in Businesses, seats'[a][b] = "on" PROVE b = req[r].business
        <5>1. CASE seats[a][b] = "on"
          <6>1. \E g \in req[r].ended : grants[g].business = b
            BY <1>1, <1>4, <4>1, <5>1 DEF OneActive
          <6>2. b \in req[r].off
            BY <1>6, <6>1
          <6> QED
            BY <1>4, <1>10, <4>4, <6>2
        <5>2. CASE seats[a][b] # "on"
          BY <1>4, <1>10, <4>4, <5>2
        <5> QED
          BY <5>1, <5>2
      <4> QED
        BY <3>2, <4>2, <4>3, <4>4
    <3>3. CASE c = a /\ ~req[r].granted
      <4>1. Active(a)' = Active(a) \ req[r].ended
        BY <1>3, <1>4, <3>3, CommitActive
      <4>2. ASSUME NEW b \in Businesses, seats'[a][b] = "on"
            PROVE  \E g \in Active(a)' : grants'[g].business = b
        <5>1. seats[a][b] = "on" /\ b \notin req[r].off
          BY <1>4, <1>10, <3>3, <4>2
        <5>2. PICK g \in Active(a) : grants[g].business = b
          BY <1>1, <1>4, <5>1 DEF OneActive
        <5>3. g \notin req[r].ended
          BY <1>6, <5>1, <5>2
        <5>4. grants'[g].business = b
          BY <1>9, <5>2 DEF Lasting, Active
        <5> QED
          BY <4>1, <5>2, <5>3, <5>4
      <4>3. \A g, h \in Active(a)' : g = h
        BY <1>1, <1>4, <4>1 DEF OneActive
      <4> QED
        BY <3>3, <4>2, <4>3
    <3> QED
      BY <3>1, <3>2, <3>3
  <2> QED
    BY <2>1 DEF OneActive
<1> QED
  BY <1>11, <1>12, <1>13, <1>14 DEF SeatInv

\* What a token says was so when it was signed.
LEMMA ClaimsSeated ==
    ASSUME Base, SeatsMade, OneActive, NEW a \in Admins, NEW c \in ClaimsOf(a), c.business # None
    PROVE  /\ c.business \in Businesses
           /\ \E g \in Active(a) : grants[g].business = c.business
           /\ seats[a][c.business] # "none"
<1>1. PICK live, named :
        /\ live = {g \in Active(a) : ~grants[g].expired}
        /\ named = IF admins[a] THEN {grants[g].business : g \in live}
                   ELSE {b \in Businesses : seats[a][b] = "on"}
        /\ c \in [admin : {admins[a]}, business : IF named = {} THEN {None} ELSE named]
  BY Zenon DEF ClaimsOf
<1>2. c.business \in named
  BY <1>1
<1>3. \A g \in Active(a) : /\ grants[g].business \in Businesses
                           /\ seats[a][grants[g].business] # "none"
  BY DEF Active, SeatsMade, Base, TypeOK, Grant
<1>4. CASE admins[a]
  <2>1. PICK g \in live : grants[g].business = c.business
    BY <1>1, <1>2, <1>4
  <2> QED
    BY <1>1, <1>3, <2>1
<1>5. CASE ~admins[a]
  <2>1. c.business \in Businesses /\ seats[a][c.business] = "on"
    BY <1>1, <1>2, <1>5
  <2> QED
    BY <2>1 DEF OneActive
<1> QED
  BY <1>4, <1>5

LEMMA SeatStep == Base /\ SeatInv /\ [Next]_vars => SeatInv'
<1> SUFFICES ASSUME Base, SeatInv, [Next]_vars PROVE SeatInv'
  OBVIOUS
<1>1. TypeOK /\ OneWaits /\ SeatsLeft /\ SeatsMade /\ OneActive
  BY DEF Base, SeatInv
<1>2. ASSUME UNCHANGED <<seats, grants, req>>,
             \A a \in Admins : token'[a].business # None => seats[a][token'[a].business] # "none"
      PROVE  SeatInv'
  BY <1>1, <1>2 DEF SeatInv, OneWaits, SeatsLeft, SeatsMade, OneActive, Active, Unseated
<1>3. CASE Signs
  <2>1. PICK a \in Admins : Refresh(a)
    BY <1>3 DEF Signs
  <2>2. PICK c \in ClaimsOf(a) : token' = [token EXCEPT ![a] = c]
    BY <2>1 DEF Refresh
  <2>3. c.business # None => seats[a][c.business] # "none"
    BY <1>1, ClaimsSeated
  <2>4. \A d \in Admins : token'[d].business # None => seats[d][token'[d].business] # "none"
    BY <1>1, <2>2, <2>3 DEF SeatsMade, TypeOK
  <2> QED
    BY <1>2, <2>1, <2>4 DEF Refresh
<1>4. CASE Expires
  <2>1. PICK g \in Grants : Expire(g)
    BY <1>4 DEF Expires
  <2>2. /\ \A h \in Grants : grants'[h] # None <=> grants[h] # None
        /\ \A h \in Grants : grants[h] # None =>
             /\ grants'[h].admin = grants[h].admin /\ grants'[h].business = grants[h].business
             /\ grants'[h].ended = grants[h].ended
    <3>1. grants[g] \in Grant /\ grants'[g] = [grants[g] EXCEPT !.expired = TRUE]
      BY <1>1, <2>1 DEF TypeOK, Expire
    <3>2. /\ grants'[g] \in Grant /\ grants'[g].admin = grants[g].admin
          /\ grants'[g].business = grants[g].business /\ grants'[g].ended = grants[g].ended
      BY <3>1 DEF Grant
    <3>3. \A h \in Grants : h # g => grants'[h] = grants[h]
      BY <1>1, <2>1 DEF TypeOK, Expire
    <3> QED
      BY <3>1, <3>2, <3>3, NoneAssumption
  <2>3. \A a : Active(a)' = Active(a)
    BY <2>1, <2>2 DEF Expire, Active
  <2>4. \A r \in Requests : req[r].ended \subseteq {h \in Grants : grants[h] # None}
    BY <1>1 DEF Base, RequestsInv, Read, TypeOK, Request
  <2>5. \A r \in Requests : Unseated(r)' = Unseated(r)
    BY <2>1, <2>2, <2>4 DEF Expire, Unseated
  <2>6. UNCHANGED <<seats, token, req>>
    BY <2>1 DEF Expire
  <2>7. SeatsMade' /\ SeatsLeft'
    BY <1>1, <2>2, <2>5, <2>6 DEF SeatsMade, SeatsLeft
  <2>8. OneWaits'
    <3>1. \A r \in Requests : req'[r].granted =>
            /\ Active(req[r].admin) \subseteq req'[r].ended
            /\ \A q \in Requests : req'[q].granted /\ req'[q].admin = req'[r].admin => q = r
      BY <1>1, <2>6 DEF OneWaits
    <3>2. \A r \in Requests : Active(req[r].admin)' = Active(req[r].admin)
      BY <2>1, <2>2, <2>6 DEF Active
    <3> QED
      BY <3>1, <3>2 DEF OneWaits
  <2>9. OneActive'
    BY <1>1, <2>2, <2>3, <2>6 DEF OneActive, Active
  <2> QED
    BY <2>7, <2>8, <2>9 DEF SeatInv
<1>5. CASE Opens \/ UNCHANGED vars
  BY <1>1, <1>2, <1>5 DEF Opens, OpenLink, SetPassword, vars, SeatsMade
<1>6. ASSUME NEW r \in Requests, Acts(r) PROVE SeatInv'
  BY <1>6, SeatQuiet, SeatCommits
<1> QED
  BY <1>3, <1>4, <1>5, <1>6, Steps

\* A set no two elements of which differ has one at most.
LEMMA AtMostOne ==
    ASSUME NEW S, \A x, y \in S : x = y
    PROVE  Cardinality(S) <= 1
<1>1. CASE S = {}
  BY <1>1, FS_EmptySet
<1>2. CASE S # {}
  <2>1. PICK x \in S : S = {x}
    BY <1>2
  <2> QED
    BY <2>1, FS_Singleton
<1> QED
  BY <1>1, <1>2

\* However starts, ends and deactivations of one administrator overlap, he has
\* one grant and one seat, a token names no other business, and what he does on
\* an older one has an actor.
THEOREM OneSeatEach == Spec => []OneSeat
<1>1. ASSUME Base, SeatInv PROVE OneSeat
  <2>1. TypeOK /\ SeatsMade /\ OneActive
    BY <1>1 DEF Base, SeatInv
  <2>2. ASSUME NEW a \in Admins
        PROVE  /\ Cardinality(Active(a)) <= 1
               /\ \A b \in Businesses : seats[a][b] = "on" => \E g \in Active(a) : grants[g].business = b
               /\ \A c \in ClaimsOf(a) :
                    c.business # None => \E g \in Active(a) : grants[g].business = c.business
               /\ requireTenantSession(a) => resolveActor(a) # {}
    <3>1. Cardinality(Active(a)) <= 1
      BY <2>1, AtMostOne DEF OneActive
    <3>2. \A c \in ClaimsOf(a) : c.business # None => \E g \in Active(a) : grants[g].business = c.business
      BY <1>1, <2>1, ClaimsSeated
    <3>3. requireTenantSession(a) => token[a].business # None
      BY DEF requireTenantSession, Verified
    <3>4. token[a].business # None => token[a].business \in Businesses /\ seats[a][token[a].business] # "none"
      BY <2>1 DEF SeatsMade, TypeOK, Claim
    <3>5. requireTenantSession(a) => resolveActor(a) # {}
      BY <3>3, <3>4 DEF resolveActor
    <3> QED
      BY <2>1, <3>1, <3>2, <3>5 DEF OneActive
  <2> QED
    BY <2>2 DEF OneSeat
<1> QED
  BY <1>1, BaseInit, BaseStep, SeatInit, SeatStep, PTL DEF Spec

LEMMA StaffInit == Init => StaffInv
BY NoneAssumption DEF Init, StaffInv, RowsInv, LoginsInv, HiredInv, OnceInv, Unasked, Hiring, Kinds, Impersonation

\* What a request goes on asking for.
Goes(r) ==
    /\ \A q \in Requests : /\ req'[q].kind = req[q].kind /\ req'[q].email = req[q].email
                           /\ req'[q].employee = req[q].employee
    /\ \A q \in Requests : q # r => req'[q].pc = req[q].pc /\ req'[q].login = req[q].login
    /\ req[r].pc \notin {"idle", "done", "refused", "failed"}
    /\ req'[r].login # req[r].login => req[r].pc = "create"

LEMMA Going ==
    ASSUME Base, NEW r \in Requests, Acts(r), req[r].pc # "idle"
    PROVE  Goes(r)
<1>1. PICK x : Becomes(r, x)
  BY Becoming
<1>2. req'[r] = x /\ \A q \in Requests : q # r => req'[q] = req[q]
  BY <1>1 DEF Becomes, Base, TypeOK
<1> QED
  BY <1>1, <1>2 DEF Becomes, Goes, Ended

\* A request that is only now sent has no row and no login.
LEMMA StaffSent ==
    ASSUME Base, StaffInv, NEW r \in Requests, Begin(r)
    PROVE  StaffInv'
<1>1. PICK x : Form(x) /\ Arrive(r, x)
  BY BeginForm
<1>2. /\ req'[r] = x /\ (\A q \in Requests : q # r => req'[q] = req[q])
      /\ req[r].pc = "idle" /\ UNCHANGED <<logins, staff>>
  BY <1>1 DEF Arrive, Rows, Base, TypeOK
<1>3. req[r].kind = None
  BY <1>2 DEF Base, RequestsInv, Asked
<1>4. None \notin Hiring \cup {"fire"}
  BY NoneAssumption DEF Kinds
<1>5. /\ staff[r] = "none" /\ logins[r] = "none"
      /\ \A q \in Requests : /\ req[q].login # None /\ req[q].kind # "hire" => req[q].login # r
                             /\ req[q].kind = "fire" => req[q].employee # r
  BY <1>3, <1>4 DEF StaffInv, RowsInv, LoginsInv, HiredInv, Hiring
<1>6. /\ x.login = None /\ x.pc \notin {"done", "ban"}
      /\ x.kind = "fire" => x.employee \in Requests
      /\ x.kind = "fire" => staff[x.employee] # "none" /\ req[x.employee].kind = "hire" /\ x.employee # r
  BY <1>1, <1>3, <1>4, <1>5 DEF Form
<1>7. RowsInv' /\ LoginsInv'
  <2>1. RowsInv'
    BY <1>2, <1>5 DEF StaffInv, RowsInv
  <2>2. LoginsInv'
    BY <1>2, <1>5, <1>6 DEF StaffInv, LoginsInv
  <2> QED
    BY <2>1, <2>2
<1>8. HiredInv'
  <2>1. \A q \in Requests : req'[q].kind = "fire" =>
         /\ req'[q].employee \in Requests
         /\ staff'[req'[q].employee] # "none" /\ req'[req'[q].employee].kind = "hire"
         /\ req'[q].pc = "ban" => staff'[req'[q].employee] = "off"
    BY <1>2, <1>5, <1>6 DEF StaffInv, HiredInv
  <2>2. \A q \in Requests : req'[q].kind = "hire" /\ staff'[q] = "on" => logins'[q] = "ok"
    BY <1>2, <1>5 DEF StaffInv, HiredInv
  <2>3. \A q \in Requests : req'[q].kind \in Hiring /\ req'[q].pc = "done" => staff'[q] # "none"
    BY <1>2, <1>6 DEF StaffInv, HiredInv
  <2> QED
    BY <1>2, <2>1, <2>2, <2>3 DEF StaffInv, HiredInv
<1>9. OnceInv'
  BY <1>2, <1>5 DEF StaffInv, OnceInv
<1> QED
  BY <1>7, <1>8, <1>9 DEF StaffInv

\* A request that writes neither rows nor logins.
LEMMA StaffMoves ==
    ASSUME StaffInv, NEW r \in Requests, Goes(r), UNCHANGED <<logins, staff>>,
           req'[r].login = req[r].login,
           req'[r].pc = "done" => req[r].kind \notin Hiring,
           req'[r].pc # "ban",
           req[r].pc = "undo" => req'[r].pc \in {"undo", "failed"}
    PROVE  StaffInv'
<1>1. staff[r] # "none" => req'[r].pc \in {"undo", "failed"}
  BY DEF StaffInv, RowsInv, Goes
<1>2. RowsInv'
  BY <1>1 DEF StaffInv, RowsInv, Goes
<1>3. LoginsInv'
  BY DEF StaffInv, LoginsInv, RowsInv, Goes
<1>4. HiredInv'
  BY DEF StaffInv, HiredInv, Goes
<1>5. OnceInv'
  BY <1>1 DEF StaffInv, OnceInv, RowsInv, Goes
<1> QED
  BY <1>2, <1>3, <1>4, <1>5 DEF StaffInv

LEMMA StaffCreates ==
    ASSUME Base, StaffInv, NEW r \in Requests, Goes(r),
           CreateLogin(r), ~Stop(r, "refused")
    PROVE  StaffInv'
<1>1. /\ req[r].pc = "create" /\ req[r].kind = "hire" /\ UNCHANGED staff
      /\ logins' = [logins EXCEPT ![r] = "ok"]
      /\ req'[r].pc \in {"insert", "failed"} /\ req'[r].login = r
  BY DEF CreateLogin, Answered, Base, TypeOK, Request
<1>2. staff[r] = "none"
  BY <1>1 DEF StaffInv, RowsInv
<1>3. logins'[r] = "ok" /\ \A q \in Requests : q # r => logins'[q] = logins[q]
  BY <1>1 DEF Base, TypeOK
<1>4. RowsInv'
  BY <1>1, <1>2, <1>3 DEF StaffInv, RowsInv, Goes, Live
<1>5. LoginsInv'
  BY <1>1, <1>3 DEF StaffInv, LoginsInv, Goes, Hiring
<1>6. HiredInv'
  BY <1>1, <1>2, <1>3 DEF StaffInv, HiredInv, Goes
<1>7. OnceInv'
  BY <1>1, <1>2 DEF StaffInv, OnceInv, Goes
<1> QED
  BY <1>4, <1>5, <1>6, <1>7 DEF StaffInv

LEMMA StaffInvites ==
    ASSUME Base, StaffInv, NEW r \in Requests, Goes(r),
           Invite(r), ~Stop(r, "refused")
    PROVE  StaffInv'
<1>1. PICK l \in Requests :
        /\ l = r \/ logins[l] = "invited"
        /\ logins' = [logins EXCEPT ![l] = "invited"]
        /\ UNCHANGED staff
        /\ req'[r].pc \in {"insert", "failed"} /\ req'[r].login = l
  <2>1. PICK l \in IF Registered(req[r].email) = {} THEN {r} ELSE Registered(req[r].email) :
          /\ logins' = [logins EXCEPT ![l] = "invited"]
          /\ Answered(r, l)
          /\ \A q \in Registered(req[r].email) : logins[q] = "invited"
    BY DEF Invite
  <2>2. l \in Requests /\ (l = r \/ logins[l] = "invited")
    BY <2>1 DEF Registered
  <2>3. PICK pc \in {"insert", "failed"} : req' = [req EXCEPT ![r].pc = pc, ![r].login = l]
    BY <2>1 DEF Answered
  <2>4. req'[r].pc = pc /\ req'[r].login = l
    BY <2>3 DEF Base, TypeOK, Request
  <2> QED
    BY <2>1, <2>2, <2>3, <2>4 DEF Answered
<1>2. req[r].pc = "create" /\ req[r].kind \in {"invite", "create"}
  BY DEF Invite
<1>3. staff[r] = "none"
  BY <1>2 DEF StaffInv, RowsInv
<1>4. logins'[l] = "invited" /\ \A q \in Requests : q # l => logins'[q] = logins[q]
  BY <1>1 DEF Base, TypeOK
<1>5. req[l].kind \in {"invite", "create"}
  BY <1>1, <1>2 DEF StaffInv, LoginsInv, Hiring
<1>6. RowsInv'
  BY <1>1, <1>2, <1>3, <1>4 DEF StaffInv, RowsInv, Goes, Live
<1>7. LoginsInv'
  BY <1>1, <1>2, <1>4, <1>5 DEF StaffInv, LoginsInv, Goes, Hiring
<1>8. HiredInv'
  BY <1>1, <1>2, <1>3, <1>4, <1>5 DEF StaffInv, HiredInv, Goes
<1>9. OnceInv'
  BY <1>1, <1>3 DEF StaffInv, OnceInv, Goes
<1> QED
  BY <1>6, <1>7, <1>8, <1>9 DEF StaffInv

LEMMA StaffInserts ==
    ASSUME Base, StaffInv, NEW r \in Requests, Goes(r), InsertStaff(r)
    PROVE  StaffInv'
<1>1. /\ req[r].pc = "insert" /\ logins[req[r].login] \in Live
      /\ staff' = [staff EXCEPT ![r] = "on"] /\ UNCHANGED logins
      /\ req'[r].pc \in {"done", "undo"} /\ req'[r].login = req[r].login
  BY DEF InsertStaff, Base, TypeOK, Request
<1>2. staff[r] = "none"
  BY <1>1 DEF StaffInv, RowsInv
<1>3. req[r].login \in Requests /\ req[r].kind \in Hiring
  BY <1>1 DEF Base, RequestsInv, Asked
<1>4. staff'[r] = "on" /\ \A q \in Requests : q # r => staff'[q] = staff[q]
  BY <1>1 DEF Base, TypeOK
<1>5. RowsInv'
  BY <1>1, <1>3, <1>4 DEF StaffInv, RowsInv, Goes
<1>6. LoginsInv'
  BY <1>1 DEF StaffInv, LoginsInv, Goes
<1>7. HiredInv'
  <2>1. req[r].kind = "hire" => req[r].login = r
    BY <1>3, NamesAssumption DEF StaffInv, LoginsInv
  <2>2. req[r].kind = "hire" => logins[r] = "ok"
    BY <1>1, <1>2, <1>3, <2>1 DEF StaffInv, LoginsInv, HiredInv, Live
  <2>3. \A q \in Requests : logins[q] = "banned" => q # r
    BY <1>2 DEF StaffInv, HiredInv
  <2>4. \A q \in Requests : req[q].kind = "fire" => req[q].employee # r
    BY <1>2 DEF StaffInv, HiredInv
  <2>5. \A q \in Requests : req'[q].kind = "hire" /\ staff'[q] = "on" => logins'[q] = "ok"
    BY <1>1, <1>4, <2>2 DEF StaffInv, HiredInv, Goes
  <2>6. \A q \in Requests : req'[q].kind \in Hiring /\ req'[q].pc = "done" => staff'[q] # "none"
    BY <1>4 DEF StaffInv, HiredInv, Goes
  <2>7. \A q \in Requests : req'[q].kind = "fire" =>
         /\ req'[q].employee \in Requests
         /\ staff'[req'[q].employee] # "none" /\ req'[req'[q].employee].kind = "hire"
         /\ req'[q].pc = "ban" => staff'[req'[q].employee] = "off"
    BY <1>1, <1>4, <2>4 DEF StaffInv, HiredInv, Goes
  <2> QED
    BY <1>1, <1>4, <2>3, <2>5, <2>6, <2>7 DEF StaffInv, HiredInv
<1>8. OnceInv'
  <2>1. \A p \in Requests :
          /\ req[r].kind = "hire" /\ staff[p] # "none" /\ req[p].kind = "hire" => req[p].email # req[r].email
          /\ req[r].kind = "invite" /\ staff[p] # "none" /\ req[p].kind = "invite" => req[p].login # req[r].login
    BY DEF InsertStaff, Employed, Accounts, RowsOf
  <2> QED
    BY <1>1, <1>2, <1>4, <2>1 DEF StaffInv, OnceInv, Goes
<1> QED
  BY <1>5, <1>6, <1>7, <1>8 DEF StaffInv

LEMMA StaffUndoes ==
    ASSUME Base, StaffInv, NEW r \in Requests, Goes(r), Undo(r)
    PROVE  StaffInv'
<1>1. /\ req[r].pc = "undo" /\ UNCHANGED staff
      /\ req'[r].pc = "failed" /\ req'[r].login = req[r].login
      /\ req[r].login \in Requests
  BY DEF Undo, Base, TypeOK, Request, RequestsInv, Asked
<1>2. CASE logins' = logins
  BY <1>1, <1>2, StaffMoves
<1>3. CASE logins' # logins
  <2>1. logins' = [logins EXCEPT ![req[r].login] = "deleted"] /\ RowsOf(req[r].login, Hiring) = {}
    BY <1>3 DEF Undo
  <2>2. PICK l \in Requests : l = req[r].login
    BY <1>1
  <2>3. logins'[l] = "deleted" /\ \A q \in Requests : q # l => logins'[q] = logins[q]
    BY <2>1, <2>2 DEF Base, TypeOK
  <2>4. \A q \in Requests : staff[q] # "none" => req[q].login # l
    BY <2>1, <2>2 DEF RowsOf, StaffInv, RowsInv
  <2>5. RowsInv'
    BY <1>1, <2>3, <2>4 DEF StaffInv, RowsInv, Goes
  <2>6. LoginsInv'
    <3>1. req[l].kind \in Hiring
      <4>1. req[r].kind \in Hiring /\ (req[r].kind = "hire" => l = r)
        BY <2>2, NamesAssumption DEF StaffInv, LoginsInv
      <4> QED
        BY <2>2, <4>1, NamesAssumption DEF StaffInv, LoginsInv, Hiring
    <3> QED
      BY <1>1, <2>3, <3>1 DEF StaffInv, LoginsInv, Goes
  <2>7. HiredInv'
    <3>1. \A q \in Requests : req[q].kind = "hire" /\ staff[q] # "none" => q # l
      BY <2>4, NamesAssumption DEF StaffInv, RowsInv, LoginsInv
    <3> QED
      BY <1>1, <2>3, <3>1 DEF StaffInv, HiredInv, Goes
  <2>8. OnceInv'
    BY <1>1 DEF StaffInv, OnceInv, Goes
  <2> QED
    BY <2>5, <2>6, <2>7, <2>8 DEF StaffInv
<1> QED
  BY <1>2, <1>3

LEMMA StaffDismisses ==
    ASSUME Base, StaffInv, NEW r \in Requests, Goes(r),
           (Dismiss(r) /\ ~Stop(r, "done")) \/ Ban(r)
    PROVE  StaffInv'
<1>1. PICK e \in Requests : e = req[r].employee
  BY DEF Dismiss, Ban, Base, RequestsInv, Asked
<1>2. req[r].kind = "fire" /\ req'[r].login = req[r].login /\ req'[r].pc \in {"ban", "done"}
  BY DEF Dismiss, Ban, Base, TypeOK, RequestsInv, Asked, Request
<1>3. staff[e] # "none" /\ req[e].kind = "hire" /\ staff[r] = "none" /\ req[r].kind \notin Hiring
  BY <1>1, <1>2 DEF StaffInv, HiredInv, RowsInv, Hiring
<1>4. CASE Dismiss(r)
  <2>1. staff' = [staff EXCEPT ![e] = "off"] /\ UNCHANGED logins /\ req'[r].pc = "ban"
    BY <1>1, <1>4 DEF Dismiss, Ban, Base, TypeOK, Request
  <2>2. staff'[e] = "off" /\ \A q \in Requests : q # e => staff'[q] = staff[q]
    BY <2>1 DEF Base, TypeOK
  <2>3. RowsInv'
    BY <1>2, <1>3, <2>1, <2>2 DEF StaffInv, RowsInv, Goes
  <2>4. LoginsInv'
    BY <1>2, <2>1 DEF StaffInv, LoginsInv, Goes
  <2>5. HiredInv'
    BY <1>1, <1>2, <1>3, <2>1, <2>2 DEF StaffInv, HiredInv, Goes
  <2>6. OnceInv'
    BY <1>2, <1>3, <2>2 DEF StaffInv, OnceInv, Goes
  <2> QED
    BY <2>3, <2>4, <2>5, <2>6 DEF StaffInv
<1>5. CASE Ban(r)
  <2>1. req[r].pc = "ban" /\ req'[r].pc = "done" /\ UNCHANGED staff
    BY <1>5 DEF Ban, Base, TypeOK, Request
  <2>2. staff[e] = "off"
    BY <1>1, <1>2, <2>1 DEF StaffInv, HiredInv
  <2>3. \A q \in Requests : logins'[q] = logins[q] \/ (q = e /\ logins'[q] = "banned")
    BY <1>1, <1>5 DEF Ban, Base, TypeOK
  <2>4. RowsInv'
    BY <1>2, <1>3, <2>1, <2>3 DEF StaffInv, RowsInv, Goes, Live
  <2>5. LoginsInv'
    BY <1>2, <1>3, <2>1, <2>3 DEF StaffInv, LoginsInv, Goes, Hiring
  <2>6. HiredInv'
    BY <1>2, <1>3, <2>1, <2>2, <2>3 DEF StaffInv, HiredInv, Goes
  <2>7. OnceInv'
    BY <1>2, <2>1 DEF StaffInv, OnceInv, Goes
  <2> QED
    BY <2>4, <2>5, <2>6, <2>7 DEF StaffInv
<1> QED
  BY <1>4, <1>5

LEMMA StaffOpens ==
    ASSUME Base, StaffInv, Opens
    PROVE  StaffInv'
<1>1. PICK l \in Requests : OpenLink(l) \/ SetPassword(l)
  BY DEF Opens
<1>2. /\ logins[l] \in {"invited", "opened"} /\ logins'[l] \in {"opened", "ok"}
      /\ \A q \in Requests : q # l => logins'[q] = logins[q]
      /\ UNCHANGED <<staff, req>>
  BY <1>1 DEF OpenLink, SetPassword, Base, TypeOK
<1>3. req[l].kind \in Hiring /\ req[l].kind # "hire"
  BY <1>2 DEF StaffInv, LoginsInv
<1>4. RowsInv'
  BY <1>2 DEF StaffInv, RowsInv, Live
<1>5. LoginsInv'
  BY <1>2, <1>3 DEF StaffInv, LoginsInv
<1>6. HiredInv'
  BY <1>2, <1>3 DEF StaffInv, HiredInv
<1>7. OnceInv'
  BY <1>2 DEF StaffInv, OnceInv
<1> QED
  BY <1>4, <1>5, <1>6, <1>7 DEF StaffInv

LEMMA StaffStep == Base /\ StaffInv /\ [Next]_vars => StaffInv'
<1> SUFFICES ASSUME Base, StaffInv, [Next]_vars PROVE StaffInv'
  OBVIOUS
<1>1. CASE Signs \/ Expires \/ UNCHANGED vars
  BY <1>1 DEF Signs, Expires, Refresh, Expire, vars, StaffInv, RowsInv, LoginsInv, HiredInv, OnceInv
<1>2. CASE Opens
  BY <1>2, StaffOpens
<1>3. ASSUME NEW r \in Requests, Acts(r) PROVE StaffInv'
  <2>1. TypeOK /\ req[r] \in Request /\ Asked(req[r])
    BY DEF Base, TypeOK, RequestsInv
  <2>2. CASE Begin(r)
    BY <2>2, StaffSent
  <2>3. CASE ~Begin(r)
    <3>1. req[r].pc # "idle"
      BY <1>3, <2>3 DEF Acts, Check, UpdateStatus, EditBusiness, Fail, Impersonate, Employ,
           LockAdmin, ReadGrants, EndGrant, LeaveSeat, FindSeat, TakeSeat, InsertGrant, Commit,
           Precheck, CreateLogin, Invite, InsertStaff, StaffFails, Undo, Dismiss, Ban, Crash, Over
    <3>2. Goes(r)
      BY <1>3, <3>1, Going
    <3>3. CASE Employ(r)
      <4>1. CASE \E pc \in {"refused", "done"} : Stop(r, pc) /\ (pc = "done" => Dismiss(r))
                                                 /\ req[r].pc \in {"precheck", "create", "dismiss"}
        <5>1. PICK pc \in {"refused", "done"} : Stop(r, pc) /\ (pc = "done" => Dismiss(r))
                                                 /\ req[r].pc \in {"precheck", "create", "dismiss"}
          BY <4>1
        <5>2. req'[r].pc = pc /\ req'[r].login = req[r].login /\ UNCHANGED <<logins, staff>>
          BY <2>1, <5>1 DEF Stop, Close, Rows, TypeOK, Request
        <5>3. pc = "done" => req[r].kind \notin Hiring
          BY <2>1, <5>1 DEF Dismiss, Asked, Hiring
        <5> QED
          BY <3>2, <5>1, <5>2, <5>3, StaffMoves
      <4>2. CASE (Goto(r, "create") /\ Precheck(r)) \/ StaffFails(r) \/ Crash(r)
        <5>1. /\ UNCHANGED <<logins, staff>> /\ req'[r].login = req[r].login
              /\ req'[r].pc \in {"create", "undo", "failed"}
              /\ req[r].pc = "undo" => req'[r].pc = "failed"
          BY <2>1, <4>2 DEF Precheck, StaffFails, Crash, Goto, Rows, TypeOK, Request
        <5> QED
          BY <3>2, <5>1, StaffMoves
      <4>3. CASE CreateLogin(r) /\ ~Stop(r, "refused")
        BY <3>2, <4>3, StaffCreates
      <4>4. CASE Invite(r) /\ ~Stop(r, "refused")
        BY <3>2, <4>4, StaffInvites
      <4>5. CASE InsertStaff(r)
        BY <3>2, <4>5, StaffInserts
      <4>6. CASE Undo(r)
        BY <3>2, <4>6, StaffUndoes
      <4>7. CASE (Dismiss(r) /\ ~Stop(r, "done")) \/ Ban(r)
        BY <3>2, <4>7, StaffDismisses
      <4>8. Precheck(r) => Stop(r, "refused") \/ Goto(r, "create")
        BY DEF Precheck
      <4> QED
        BY <3>3, <4>1, <4>2, <4>3, <4>4, <4>5, <4>6, <4>7, <4>8
           DEF Employ, Precheck, CreateLogin, Invite, Dismiss
    <3>4. CASE ~Employ(r)
      <4>1. UNCHANGED <<logins, staff>>
        BY <1>3, <2>3, <3>4
           DEF Acts, Check, UpdateStatus, EditBusiness, Fail, Impersonate, Written, Goto, Stop,
               LockAdmin, ReadGrants, EndGrant, LeaveSeat, FindSeat, TakeSeat, InsertGrant, Commit, Rows
      <4>2. req[r].kind \notin Hiring \cup {"fire"} /\ req[r].pc \notin {"create", "undo"}
        BY <1>3, <2>1, <2>3, <3>4
           DEF Acts, Check, UpdateStatus, EditBusiness, Fail, Impersonate, Asked, Open,
               LockAdmin, ReadGrants, EndGrant, LeaveSeat, FindSeat, TakeSeat, InsertGrant, Commit,
               Impersonation, Hiring
      <4>3. req'[r].pc # "ban"
        BY <1>3, <2>1, <2>3, <3>4, <4>2, <3>2, BaseStep DEF Goes, Base, RequestsInv, Asked
      <4> QED
        BY <3>2, <4>1, <4>2, <4>3, StaffMoves DEF Goes
    <3> QED
      BY <3>3, <3>4
  <2> QED
    BY <2>2, <2>3
<1> QED
  BY <1>1, <1>2, <1>3, Steps

\* An account works or does not exist, whatever fails while it is made and
\* whoever else is given one at that address.
THEOREM StaffFitsAlways == Spec => []StaffFits
<1>1. ASSUME Base, StaffInv PROVE StaffFits
  <2>1. RowsInv /\ LoginsInv /\ HiredInv /\ OnceInv
    BY <1>1 DEF StaffInv
  <2>2. ASSUME NEW e \in Emails PROVE Cardinality(Employed(e)) <= 1
    BY <2>1, AtMostOne DEF Employed, Accounts, OnceInv
  <2>3. ASSUME NEW l \in Requests PROVE Cardinality(RowsOf(l, {"invite"})) <= 1
    BY <2>1, AtMostOne DEF RowsOf, OnceInv
  <2>4. ASSUME NEW r \in Requests, req[r].kind \in Hiring, req[r].pc = "done"
        PROVE  Works(r) \/ (req[r].kind = "hire" /\ staff[r] = "off")
    <3>1. staff[r] \in {"on", "off"}
      BY <1>1, <2>1, <2>4 DEF HiredInv, Base, TypeOK
    <3>2. /\ req[r].login \in Requests /\ logins[req[r].login] \in Live
          /\ req[r].kind # "hire" => staff[r] = "on"
      BY <2>1, <3>1 DEF RowsInv
    <3>3. CASE req[r].kind = "hire"
      <4>1. req[r].login = r
        BY <2>1, <3>2, <3>3, NamesAssumption DEF LoginsInv
      <4> QED
        BY <2>1, <3>1, <3>3, <4>1 DEF HiredInv, Works
    <3>4. CASE req[r].kind # "hire"
      <4>1. req[req[r].login].kind \in {"invite", "create"}
        BY <2>1, <3>2, <3>4, NamesAssumption DEF LoginsInv
      <4>2. logins[req[r].login] # "banned"
        BY <2>1, <3>2, <4>1 DEF LoginsInv, Live
      <4> QED
        BY <3>2, <3>4, <4>2 DEF Works, Live
    <3> QED
      BY <3>3, <3>4
  <2> QED
    BY <2>1, <2>2, <2>3, <2>4 DEF StaffFits, RowsInv, HiredInv
<1> QED
  BY <1>1, BaseInit, BaseStep, StaffInit, StaffStep, PTL DEF Spec
=============================================================================
