--------------------------- MODULE ScannerClient ---------------------------
(***************************************************************************)
(* The operator's page (ScannerClient.tsx and the components it mounts)    *)
(* over the scanner's server actions: which idempotency key goes with      *)
(* which customer, what the page does with an answer that is late, lost or *)
(* overtaken, and the camera beside the keyboard reader.                   *)
(*                                                                         *)
(* The server is what the Scanner module shows it to be: a key has at most *)
(* one effect per kind, and a key that was used is answered as a replay,   *)
(* for whatever customer the call names.                                   *)
(***************************************************************************)
EXTENDS Naturals, Sequences

CONSTANTS
    Customers,
    NoOne,          \* no customer in view
    MaxCalls        \* bound: server actions the page calls

ASSUME NoOneAssumption == NoOne \notin Customers
ASSUME CallsAssumption == MaxCalls \in Nat \ {0}

VARIABLES
    page,           \* what the browser holds
    calls,          \* the server actions called so far, the oldest first
    rows            \* committed transactions and redemptions

tab == <<page, calls, rows>>

Kinds == {"lookup", "stamp", "redeem"}
Effects == {"stamp", "redeem"}
\* "timed" resets the page after 3.5 s, "stay" waits for the operator.
Banners == {"none", "timed", "stay"}
Page == [view : Customers \cup {NoOne}, key : 1..MaxCalls + 1,
         banner : Banners, reloading : BOOLEAN,
         camera : {"off", "starting", "on"}, active : BOOLEAN, owned : BOOLEAN]
Call == [kind : Kinds, customer : Customers, key : 1..MaxCalls + 1,
         answer : {"none", "ok", "error"},
         heard : {"waiting", "applied", "thrown", "never"}]
Row == [kind : Effects, customer : Customers, key : 1..MaxCalls + 1]

----------------------------------------------------------------------------
(* The page.                                                               *)

\* Slip: the key is made once for the page.
PageKey == IF calls = <<>> THEN 1 ELSE page.key

\* crypto.randomUUID(): a key no call has carried.
FreshKey == Len(calls) + 1

NewPage == [view |-> NoOne, key |-> FreshKey, banner |-> "none",
            reloading |-> FALSE, camera |-> "off", active |-> FALSE, owned |-> FALSE]

\* useTransition: an action of this page has not been answered.
Pending == \E i \in DOMAIN calls : calls[i].heard = "waiting"

\* The scanning controls are mounted only without a panel and a banner.
Scanning == page.view = NoOne /\ page.banner = "none"

\* Unmounting the camera stops the reader it already controls; one that is
\* still waiting for the permission is not its to stop.
Rendered(p) ==
    IF p.view = NoOne /\ p.banner = "none" THEN p
    ELSE [p EXCEPT !.active = FALSE, !.owned = FALSE,
                   !.camera = IF p.owned /\ @ = "on" THEN "off" ELSE @]

ResetToScan(p) ==
    [p EXCEPT !.view = NoOne, !.banner = "none", !.key = FreshKey]

\* buildBanner.  A stamp that makes a reward available waits for the operator.
BannersFor(kind, answer) ==
    CASE kind = "stamp" /\ answer = "ok" -> {"timed", "stay"}
      [] kind # "redeem" /\ answer = "error" -> {"timed"}
      [] OTHER -> {"none"}

\* applyResult.  An answer of its own brings a customer into view, whoever
\* is in view by then.
ApplyResult(p, kind, customer, answer, banner) ==
    LET shown == [p EXCEPT !.banner = banner]
    IN  Rendered(
          IF answer = "ok"
          THEN [shown EXCEPT !.view = customer, !.key = FreshKey]
          ELSE IF kind = "lookup" THEN [shown EXCEPT !.view = NoOne]
          ELSE shown)

\* startTransition: the banner goes, the action is sent.
Send(kind, c) ==
    /\ Len(calls) < MaxCalls
    /\ calls' = Append(calls, [kind |-> kind, customer |-> c, key |-> page.key,
                               answer |-> "none", heard |-> "waiting"])
    /\ UNCHANGED rows

----------------------------------------------------------------------------
(* The operator.                                                           *)

\* handleToken from the keyboard reader, or handleManualSelect.
Lookup(c) ==
    /\ Scanning /\ ~Pending
    /\ Send("lookup", c)
    /\ UNCHANGED page

\* Slip: handleStamp without its guard.
StampBlindly ==
    /\ ~Pending
    /\ Send("stamp", page.view)
    /\ page' = [page EXCEPT !.banner = "none"]

\* handleStamp
Stamp ==
    /\ page.view # NoOne /\ ~Pending
    /\ Send("stamp", page.view)
    /\ page' = [page EXCEPT !.banner = "none"]

\* handleRedeem.  Which rewards the view says are available is left open.
Redeem ==
    /\ page.view # NoOne /\ ~Pending
    /\ Send("redeem", page.view)
    /\ page' = [page EXCEPT !.banner = "none"]

\* "Otro cliente", enabled while an action is pending, and the button of
\* the banner.
Dismiss ==
    /\ ~Scanning
    /\ page' = ResetToScan(page)
    /\ UNCHANGED <<calls, rows>>

\* The camera asks for permission.  That there is one reader at a time is an
\* assumption: a second start while the first is asking is not modelled.  What
\* a second reader sends is one more lookup, which commits nothing and spends
\* no key.
StartCamera ==
    /\ Scanning /\ ~Pending /\ ~page.active /\ page.camera = "off"
    /\ page' = [page EXCEPT !.camera = "starting", !.active = TRUE, !.owned = TRUE]
    /\ UNCHANGED <<calls, rows>>

\* "Detener cámara" stops the reader if there is one by then.
StopCamera ==
    /\ page.active /\ ~Pending
    /\ page' = [page EXCEPT !.active = FALSE, !.camera = IF @ = "on" THEN "off" ELSE @]
    /\ UNCHANGED <<calls, rows>>

\* decodeFromConstraints resolves, or throws.
CameraReady ==
    /\ page.camera = "starting"
    /\ \/ page' = [page EXCEPT !.camera = "on"]
       \/ page' = [page EXCEPT !.camera = "off", !.active = FALSE]
    /\ UNCHANGED <<calls, rows>>

\* The reader decodes a code and stops itself.  Nothing asks whether an
\* action is pending or a customer is in view.
Decode(c) ==
    /\ page.camera = "on"
    /\ Send("lookup", c)
    /\ page' = [page EXCEPT !.camera = "off", !.active = FALSE, !.banner = "none"]

----------------------------------------------------------------------------
(* The server and the network.                                             *)

Used(kind, key) == \E row \in rows : row.kind = kind /\ row.key = key

Answer(i, answer) == calls' = [calls EXCEPT ![i].answer = answer]

\* A key that is used is answered as a replay; any call may be rejected or
\* fail without an effect.
ServeNothing(i) ==
    /\ calls[i].kind \in Effects /\ calls[i].answer = "none"
    /\ \/ Used(calls[i].kind, calls[i].key) /\ Answer(i, "ok")
       \/ Answer(i, "error")
    /\ UNCHANGED <<page, rows>>

\* The effect is committed, and answered as such or with the generic error.
ServeEffect(i) ==
    /\ calls[i].kind \in Effects /\ calls[i].answer = "none"
    /\ ~Used(calls[i].kind, calls[i].key)
    /\ rows' = rows \cup {[kind |-> calls[i].kind, customer |-> calls[i].customer,
                           key |-> calls[i].key]}
    /\ \E answer \in {"ok", "error"} : Answer(i, answer)
    /\ UNCHANGED page

Serve(i) == ServeNothing(i) \/ ServeEffect(i)

\* A lookup changes nothing on the server, so that its answer, found or one
\* of the errors, is made up when it arrives.
Deliver(i) ==
    /\ calls[i].heard = "waiting"
    /\ calls' = [calls EXCEPT ![i].heard = "applied"]
    /\ \E answer \in IF calls[i].kind = "lookup" THEN {"ok", "error"}
                      ELSE {calls[i].answer} \ {"none"} :
       \E banner \in BannersFor(calls[i].kind, answer) :
          page' = ApplyResult(page, calls[i].kind, calls[i].customer, answer, banner)
    /\ UNCHANGED rows

\* Slip: the exception leaves the handler, and the page stays as it is.
CutUncaught(i) ==
    /\ calls[i].heard = "waiting"
    /\ calls' = [calls EXCEPT ![i].heard = "thrown"]
    /\ page' = Rendered([page EXCEPT !.banner = "stay"])
    /\ UNCHANGED rows

\* The action throws: the connection is cut before or after the server has
\* acted.  handleActionError reloads the page 1.2 s later.
Cut(i) ==
    /\ calls[i].heard = "waiting"
    /\ calls' = [calls EXCEPT ![i].heard = "thrown"]
    /\ page' = Rendered([page EXCEPT !.banner = "stay", !.reloading = TRUE])
    /\ UNCHANGED rows

\* window.location.reload(): what was pending is never heard of.
Reload ==
    /\ page.reloading
    /\ page' = NewPage
    /\ calls' = [i \in DOMAIN calls |->
                   IF calls[i].heard = "waiting" THEN [calls[i] EXCEPT !.heard = "never"]
                   ELSE calls[i]]
    /\ UNCHANGED rows

\* The countdown of the banner ends.
AutoReset ==
    /\ page.banner = "timed"
    /\ page' = ResetToScan(page)
    /\ UNCHANGED <<calls, rows>>

----------------------------------------------------------------------------
TabInit == calls = <<>> /\ rows = {} /\ page = NewPage

Operator ==
    \/ \E c \in Customers : Lookup(c) \/ Decode(c)
    \/ Stamp \/ Redeem \/ Dismiss \/ StartCamera \/ StopCamera

Resolve(i) == i \in DOMAIN calls /\ (Serve(i) \/ Deliver(i) \/ Cut(i))

TabNext ==
    \/ Operator
    \/ CameraReady
    \/ \E i \in 1..MaxCalls : Resolve(i)
    \/ Reload
    \/ AutoReset

TabSpec == TabInit /\ [][TabNext]_tab

\* A call is answered or throws, and the page's timers fire.
FairTabSpec == TabSpec /\ (\A i \in 1..MaxCalls : WF_tab(Resolve(i))) /\ WF_tab(Reload)

----------------------------------------------------------------------------
TabTypeOK ==
    /\ page \in Page
    /\ calls \in Seq(Call) /\ Len(calls) <= MaxCalls
    /\ rows \subseteq Row

\* What the operator is told is so: an answer shown as a success, replayed
\* or not, has a row of that customer.  The server looks for the key alone
\* (logic.ts 597-606), so this rests on the page never sending one key for
\* two customers, whatever panels it opened and closed in between
\* (ScannerClient.tsx 173-201).
SuccessIsReal ==
    \A i \in DOMAIN calls :
        calls[i].heard = "applied" /\ calls[i].answer = "ok" /\ calls[i].kind \in Effects
            => \E row \in rows : /\ row.kind = calls[i].kind
                                 /\ row.customer = calls[i].customer
                                 /\ row.key = calls[i].key

\* No visit is swallowed as the replay of another: a key whose success was
\* shown is not sent again for the same kind (ScannerClient.tsx 181-188).
ShownKeysAreSpent ==
    \A i, j \in DOMAIN calls :
        i < j /\ calls[i].kind = calls[j].kind /\ calls[i].kind \in Effects
              /\ calls[i].key = calls[j].key
            => ~(calls[i].heard = "applied" /\ calls[i].answer = "ok")

\* The page never stays behind a pending action or a thrown one
\* (ScannerClient.tsx 203-222): it comes to accept the operator again.
NeverStuck == (Pending \/ \E i \in DOMAIN calls : calls[i].heard = "thrown")
                 ~> (~Pending /\ (page.banner = "stay" => page.view # NoOne))
=============================================================================
