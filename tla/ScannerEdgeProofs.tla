-------------------------- MODULE ScannerEdgeProofs --------------------------
(***************************************************************************)
(* What holds of the two ends of the scanner that keep no rows: the        *)
(* operator's tab (ScannerClient) and the limits in the server's memory    *)
(* (ScannerLimits).  The two have no state in common and each has theorems *)
(* of its own.                                                             *)
(*                                                                         *)
(* The tab, for every set of customers and any number of calls: keys only  *)
(* grow, and a new one is greater than any that was sent; a key that was   *)
(* sent with a stamp or a redemption stays with its customer; and a stamp  *)
(* or a redemption is sent when every call before it has been heard of, so *)
(* that a success that is shown is followed by greater keys only.          *)
(*                                                                         *)
(* The limits, for any operators, any number of lookups at a time and any  *)
(* limits, windows, blocks and sweeps, under the module's assumptions      *)
(* only: they are positive, and a block is not shorter than the windows it *)
(* is earned in.  Whatever was pruned or swept, a list and what really     *)
(* happened agree on the window that ends now (Good), so that the count    *)
(* the code takes is the true one; and a window that ends later only       *)
(* contains less until something is added, when the count is taken again.  *)
(***************************************************************************)
EXTENDS ScannerClient, ScannerLimits, FiniteSetTheorems, TLAPS

----------------------------------------------------------------------------
(* The tab.                                                                 *)

\* Keys never decrease, and none is greater than the number of its call.
KeysInv ==
    /\ page.key <= Len(calls) + 1
    /\ \A i \in DOMAIN calls : calls[i].key <= i /\ calls[i].key <= page.key

\* The key on the page has gone with the customer in view, or with nobody.
ViewInv ==
    \A i \in DOMAIN calls :
        calls[i].kind \in Effects /\ calls[i].key = page.key
            => page.view \in {calls[i].customer, NoOne}

\* A key of a stamp or a redemption belongs to one customer.
KeyOwnerInv ==
    \A i, j \in DOMAIN calls :
        calls[i].kind \in Effects /\ calls[j].kind \in Effects /\ calls[i].key = calls[j].key
            => calls[i].customer = calls[j].customer

\* Rows come of calls, and what was answered "ok" has its row.
RowsInv ==
    /\ \A row \in rows : \E i \in DOMAIN calls :
          /\ calls[i].kind = row.kind /\ calls[i].customer = row.customer
          /\ calls[i].key = row.key
    /\ \A i \in DOMAIN calls :
          calls[i].answer = "ok" /\ calls[i].kind \in Effects
            => \E row \in rows : /\ row.kind = calls[i].kind
                                 /\ row.customer = calls[i].customer
                                 /\ row.key = calls[i].key

\* When a stamp or a redemption was sent nothing was pending.
SentAlone ==
    \A i, j \in DOMAIN calls : i < j /\ calls[j].kind \in Effects => calls[i].heard # "waiting"

Shown(i) == calls[i].heard = "applied" /\ calls[i].answer = "ok" /\ calls[i].kind \in Effects

\* A success that was shown has changed the key.
ShownInv == \A i \in DOMAIN calls : Shown(i) => calls[i].key < page.key

\* What is applied was answered.
AppliedInv ==
    \A i \in DOMAIN calls :
        calls[i].heard = "applied" /\ calls[i].kind \in Effects => calls[i].answer # "none"

TabInv ==
    /\ TabTypeOK /\ KeysInv /\ ViewInv /\ KeyOwnerInv /\ RowsInv
    /\ SentAlone /\ AppliedInv /\ ShownInv /\ ShownKeysAreSpent

----------------------------------------------------------------------------
(* Steps, by what they do to the page and to the calls.                    *)

\* The page keeps its key and its customer, or loses the customer.
Keeps(p) == p.key = page.key /\ p.view \in {page.view, NoOne}

\* Or it has a new key.
Turns(p) == p.key = FreshKey

\* With nothing called and nothing committed the invariant holds.
LEMMA InitInv == TabInit => TabInv
<1> SUFFICES ASSUME TabInit PROVE TabInv
  OBVIOUS
<1>1. calls = <<>> /\ rows = {} /\ page = NewPage
  BY DEF TabInit
<1>2. Len(calls) = 0 /\ DOMAIN calls = {} /\ calls \in Seq(Call)
  BY <1>1
<1>3. page \in Page /\ page.key = 1
  BY <1>1, <1>2, CallsAssumption DEF NewPage, FreshKey, Page, Banners
<1> QED
  BY <1>1, <1>2, <1>3, CallsAssumption
     DEF TabInv, TabTypeOK, KeysInv, ViewInv, KeyOwnerInv, RowsInv, SentAlone, AppliedInv,
         ShownInv, ShownKeysAreSpent

\* Rendering changes the camera only.
LEMMA RenderedPage ==
    ASSUME NEW p \in Page
    PROVE  /\ Rendered(p) \in Page
           /\ Rendered(p).view = p.view /\ Rendered(p).key = p.key
           /\ Rendered(p).banner = p.banner /\ Rendered(p).reloading = p.reloading
BY DEF Rendered, Page

\* A new key is one the page may hold.
LEMMA FreshKeyType == TabTypeOK => FreshKey \in 1..MaxCalls + 1 /\ Len(calls) \in Nat
BY CallsAssumption DEF TabTypeOK, FreshKey

\* What a page becomes when an answer is applied.
LEMMA AppliedPage ==
    ASSUME TabTypeOK, NEW kind \in Kinds, NEW c \in Customers, NEW answer \in {"ok", "error"},
           NEW banner \in BannersFor(kind, answer)
    PROVE  LET p == ApplyResult(page, kind, c, answer, banner) IN
           /\ p \in Page
           /\ Turns(p) \/ (answer # "ok" /\ Keeps(p))
<1> DEFINE shown == [page EXCEPT !.banner = banner]
<1>1. banner \in Banners
  BY DEF BannersFor, Banners
<1>2. shown \in Page /\ shown.view = page.view /\ shown.key = page.key
  BY <1>1 DEF TabTypeOK, Page
<1>3. /\ [shown EXCEPT !.view = c, !.key = FreshKey] \in Page
      /\ [shown EXCEPT !.view = NoOne] \in Page
  BY <1>2, FreshKeyType DEF Page
<1>4. /\ [shown EXCEPT !.view = c, !.key = FreshKey].key = FreshKey
      /\ [shown EXCEPT !.view = NoOne].view = NoOne
      /\ [shown EXCEPT !.view = NoOne].key = page.key
  BY <1>2 DEF Page
<1> HIDE DEF shown
<1> QED
  BY <1>2, <1>3, <1>4, RenderedPage DEF ApplyResult, Turns, Keeps, shown

----------------------------------------------------------------------------
(* Two kinds of steps: a call is sent, or something is made of those that  *)
(* were.                                                                   *)

\* A call is sent with the key of the page; with a stamp or a redemption goes
\* the customer in view, and nothing else is pending.
LEMMA SendStep ==
    ASSUME TabInv, NEW x \in Call, Len(calls) < MaxCalls,
           calls' = Append(calls, x), rows' = rows, page' \in Page, Keeps(page'),
           x.key = page.key, x.answer = "none", x.heard = "waiting",
           x.kind \in Effects => ~Pending /\ x.customer = page.view
    PROVE  TabInv'
<1> DEFINE n == Len(calls) + 1
<1>1. /\ calls \in Seq(Call) /\ calls' \in Seq(Call) /\ Len(calls) \in Nat
      /\ DOMAIN calls = 1..Len(calls) /\ DOMAIN calls' = 1..n /\ Len(calls') = n
      /\ calls'[n] = x /\ \A i \in DOMAIN calls : calls'[i] = calls[i]
  BY DEF TabInv, TabTypeOK
<1>2. \A i \in DOMAIN calls' : i = n \/ i \in DOMAIN calls
  BY <1>1
<1>3. TabTypeOK'
  BY <1>1, CallsAssumption DEF TabInv, TabTypeOK
<1>4. page'.key = page.key /\ page'.view \in {page.view, NoOne}
  BY DEF Keeps
<1>5. KeysInv'
  BY <1>1, <1>2, <1>4 DEF TabInv, KeysInv, TabTypeOK, Page
<1>6. ViewInv'
  BY <1>1, <1>2, <1>4 DEF TabInv, ViewInv
<1>7. KeyOwnerInv'
  <2>1. \A i \in DOMAIN calls :
           x.kind \in Effects /\ calls[i].kind \in Effects /\ calls[i].key = x.key
             => calls[i].customer = x.customer
    BY NoOneAssumption DEF TabInv, ViewInv, Call
  <2> QED
    BY <1>1, <1>2, <2>1 DEF TabInv, KeyOwnerInv
<1>8. RowsInv'
  <2>1. \A i \in DOMAIN calls : i \in DOMAIN calls'
    BY <1>1
  <2> QED
    BY <1>1, <1>2, <2>1 DEF TabInv, RowsInv
<1>9. SentAlone' /\ AppliedInv'
  BY <1>1, <1>2 DEF TabInv, SentAlone, AppliedInv, Pending
<1>10. ShownInv'
  BY <1>1, <1>2, <1>4 DEF TabInv, ShownInv, Shown
<1>11. ShownKeysAreSpent'
  <2>1. \A i \in DOMAIN calls : Shown(i) => calls[i].key # x.key
    BY <1>1 DEF TabInv, ShownInv, TabTypeOK, Page, Call
  <2> QED
    BY <1>1, <1>2, <2>1 DEF TabInv, ShownKeysAreSpent, Shown
<1> QED
  BY <1>3, <1>5, <1>6, <1>7, <1>8, <1>9, <1>10, <1>11 DEF TabInv

\* The calls that were sent are served, delivered, cut or forgotten, the page
\* keeps its key or has a new one, and a success is shown with a new one.
LEMMA UpdateStep ==
    ASSUME TabInv, calls' \in Seq(Call), Len(calls') = Len(calls),
           \A i \in DOMAIN calls :
              /\ calls'[i].kind = calls[i].kind /\ calls'[i].customer = calls[i].customer
              /\ calls'[i].key = calls[i].key
              /\ calls'[i].heard = "waiting" => calls[i].heard = "waiting"
              /\ Shown(i)' => Shown(i) \/ (calls[i].heard = "waiting" /\ Turns(page')),
           page' \in Page, Keeps(page') \/ Turns(page'),
           rows' \subseteq Row, RowsInv', AppliedInv'
    PROVE  TabInv'
<1>1. /\ calls \in Seq(Call) /\ Len(calls) \in Nat
      /\ DOMAIN calls = 1..Len(calls) /\ DOMAIN calls' = DOMAIN calls
  BY DEF TabInv, TabTypeOK
<1>2. TabTypeOK'
  BY DEF TabInv, TabTypeOK
<1>3. \A i \in DOMAIN calls : calls[i].key <= i /\ calls[i].key <= page.key /\ calls[i].key \in Nat
  <2>1. \A i \in DOMAIN calls : calls[i] \in Call
    BY <1>1
  <2>2. \A x \in Call : x.key \in Nat
    BY CallsAssumption DEF Call
  <2> QED
    BY <2>1, <2>2 DEF TabInv, KeysInv
<1>4. page.key \in Nat /\ page.key <= Len(calls) + 1
  BY DEF TabInv, KeysInv, TabTypeOK, Page
<1>5. /\ page'.key \in Nat /\ page'.key <= Len(calls) + 1 /\ page.key <= page'.key
      /\ Turns(page') => page'.key = Len(calls) + 1
      /\ ~Turns(page') => page'.key = page.key /\ page'.view \in {page.view, NoOne}
  BY <1>1, <1>4 DEF Keeps, Turns, FreshKey
<1>6. KeysInv'
  BY <1>1, <1>3, <1>4, <1>5 DEF KeysInv
<1>7. Turns(page') => \A i \in DOMAIN calls : calls[i].key < page'.key
  BY <1>1, <1>3, <1>5
<1>8. ViewInv'
  BY <1>1, <1>3, <1>5, <1>7 DEF TabInv, ViewInv
<1>9. KeyOwnerInv' /\ SentAlone'
  BY <1>1 DEF TabInv, KeyOwnerInv, SentAlone
<1>10. ShownInv'
  BY <1>1, <1>3, <1>4, <1>5, <1>7 DEF TabInv, ShownInv
<1>11. ShownKeysAreSpent'
  <2> SUFFICES ASSUME NEW i \in DOMAIN calls, NEW j \in DOMAIN calls, i < j,
                      calls[i].kind = calls[j].kind, calls[i].kind \in Effects,
                      calls[i].key = calls[j].key, Shown(i)'
               PROVE  FALSE
    BY <1>1 DEF ShownKeysAreSpent, Shown
  <2>1. ~Shown(i)
    BY DEF TabInv, ShownKeysAreSpent, Shown
  <2>2. calls[i].heard # "waiting"
    BY DEF TabInv, SentAlone
  <2> QED
    BY <2>1, <2>2
<1> QED
  BY <1>2, <1>6, <1>8, <1>9, <1>10, <1>11 DEF TabInv

\* A step that leaves the calls alone.
LEMMA PageStep ==
    ASSUME TabInv, page' \in Page, Keeps(page') \/ Turns(page'), UNCHANGED <<calls, rows>>
    PROVE  TabInv'
<1>1. calls \in Seq(Call) /\ rows \subseteq Row /\ RowsInv' /\ AppliedInv'
  BY DEF TabInv, TabTypeOK, RowsInv, AppliedInv
<1>2. \A i \in DOMAIN calls : Shown(i)' => Shown(i)
  BY DEF Shown
<1> QED
  BY <1>1, <1>2, UpdateStep

----------------------------------------------------------------------------
(* The operator, the server, the network.                                  *)

\* What the operator does keeps the invariant.
LEMMA OperatorStep == TabInv /\ Operator => TabInv'
<1> SUFFICES ASSUME TabInv, Operator PROVE TabInv'
  OBVIOUS
<1>1. page \in Page /\ calls \in Seq(Call) /\ TabTypeOK
  BY DEF TabInv, TabTypeOK
<1>2. ASSUME NEW kind \in Kinds, NEW c \in Customers
      PROVE  [kind |-> kind, customer |-> c, key |-> page.key,
              answer |-> "none", heard |-> "waiting"] \in Call
  BY <1>1 DEF Call, Page
<1>3. ASSUME NEW c \in Customers, Lookup(c) PROVE TabInv'
  <2>1. Keeps(page') /\ page' \in Page
    BY <1>1, <1>3 DEF Lookup, Keeps
  <2>2. PICK x : x = [kind |-> "lookup", customer |-> c, key |-> page.key,
                      answer |-> "none", heard |-> "waiting"]
    OBVIOUS
  <2>3. x \in Call
    BY <1>2, <2>2 DEF Kinds
  <2> QED
    BY <1>3, <2>1, <2>2, <2>3, SendStep DEF Lookup, Send, Effects
<1>4. ASSUME NEW c \in Customers, Decode(c) PROVE TabInv'
  <2>1. Keeps(page') /\ page' \in Page
    BY <1>1, <1>4 DEF Decode, Keeps, Page, Banners
  <2>2. PICK x : x = [kind |-> "lookup", customer |-> c, key |-> page.key,
                      answer |-> "none", heard |-> "waiting"]
    OBVIOUS
  <2>3. x \in Call
    BY <1>2, <2>2 DEF Kinds
  <2> QED
    BY <1>4, <2>1, <2>2, <2>3, SendStep DEF Decode, Send, Effects
<1>5. ASSUME Stamp \/ Redeem PROVE TabInv'
  <2>1. PICK kind \in Effects : Send(kind, page.view)
    BY <1>5 DEF Stamp, Redeem, Effects
  <2>2. /\ page' = [page EXCEPT !.banner = "none"]
        /\ page.view # NoOne /\ ~Pending
    BY <1>5 DEF Stamp, Redeem
  <2>3. Keeps(page') /\ page' \in Page
    BY <1>1, <2>2 DEF Keeps, Page, Banners
  <2>4. page.view \in Customers
    BY <1>1, <2>2 DEF Page
  <2>5. PICK x : x = [kind |-> kind, customer |-> page.view, key |-> page.key,
                      answer |-> "none", heard |-> "waiting"]
    OBVIOUS
  <2>6. x \in Call
    BY <1>2, <2>4, <2>5 DEF Kinds, Effects
  <2> QED
    BY <2>1, <2>2, <2>3, <2>5, <2>6, SendStep DEF Send
<1>6. ASSUME Dismiss PROVE TabInv'
  <2>1. page' = [page EXCEPT !.view = NoOne, !.banner = "none", !.key = FreshKey]
    BY <1>6 DEF Dismiss, ResetToScan
  <2>2. page' \in Page /\ Turns(page')
    BY <1>1, <2>1, FreshKeyType DEF Page, Banners, Turns
  <2> QED
    BY <1>6, <2>2, PageStep DEF Dismiss
<1>7. ASSUME StartCamera \/ StopCamera PROVE TabInv'
  <2>1. page' \in Page /\ Keeps(page') /\ UNCHANGED <<calls, rows>>
    BY <1>1, <1>7 DEF StartCamera, StopCamera, Page, Keeps
  <2> QED
    BY <2>1, PageStep
<1> QED
  BY <1>3, <1>4, <1>5, <1>6, <1>7 DEF Operator

\* What the server, the network or the reload makes of the calls: one call, or
\* all, keep what was asked.
LEMMA OneCall ==
    ASSUME TabInv, NEW i \in DOMAIN calls, NEW x \in Call,
           x.kind = calls[i].kind, x.customer = calls[i].customer, x.key = calls[i].key,
           calls' = [calls EXCEPT ![i] = x]
    PROVE  /\ calls' \in Seq(Call) /\ Len(calls') = Len(calls) /\ DOMAIN calls' = DOMAIN calls
           /\ calls'[i] = x
           /\ \A j \in DOMAIN calls :
                /\ j # i => calls'[j] = calls[j]
                /\ calls'[j].kind = calls[j].kind /\ calls'[j].customer = calls[j].customer
                /\ calls'[j].key = calls[j].key
BY DEF TabInv, TabTypeOK

\* A key has its row and its answer, whatever the server makes of it.
LEMMA ServeStep ==
    ASSUME TabInv, NEW i \in DOMAIN calls, Serve(i)
    PROVE  TabInv'
<1>1. calls \in Seq(Call) /\ calls[i] \in Call /\ rows \subseteq Row /\ page \in Page
  BY DEF TabInv, TabTypeOK
<1>2. PICK answer \in {"ok", "error"} : calls' = [calls EXCEPT ![i] = [@ EXCEPT !.answer = answer]]
  BY DEF Serve, ServeNothing, ServeEffect, Answer
<1>3. PICK x : x = [calls[i] EXCEPT !.answer = answer]
  OBVIOUS
<1>4. /\ x \in Call /\ x.kind = calls[i].kind /\ x.customer = calls[i].customer
      /\ x.key = calls[i].key /\ x.answer = answer /\ x.heard = calls[i].heard
  BY <1>1, <1>3 DEF Call
<1>5. calls' = [calls EXCEPT ![i] = x]
  BY <1>2, <1>3
<1>6. /\ calls' \in Seq(Call) /\ Len(calls') = Len(calls) /\ DOMAIN calls' = DOMAIN calls
      /\ calls'[i] = x
      /\ \A j \in DOMAIN calls :
           /\ j # i => calls'[j] = calls[j]
           /\ calls'[j].kind = calls[j].kind /\ calls'[j].customer = calls[j].customer
           /\ calls'[j].key = calls[j].key
  BY <1>4, <1>5, OneCall
<1>7. calls[i].answer = "none" /\ calls[i].kind \in Effects /\ page' = page
  BY DEF Serve, ServeNothing, ServeEffect
<1>8. AppliedInv'
  BY <1>4, <1>6 DEF TabInv, AppliedInv
<1>9. calls[i].heard # "applied"
  BY <1>7 DEF TabInv, AppliedInv
<1>10. rows' \subseteq Row /\ rows \subseteq rows'
  <2>1. CASE rows' = rows
    BY <1>1, <2>1
  <2>2. CASE ServeEffect(i)
    BY <1>1, <1>7, <2>2 DEF ServeEffect, Row, Call
  <2> QED
    BY <2>1, <2>2 DEF Serve, ServeNothing
<1>11. \A row \in rows' : \E j \in DOMAIN calls :
          calls[j].kind = row.kind /\ calls[j].customer = row.customer /\ calls[j].key = row.key
  <2>1. CASE rows' = rows
    BY <2>1 DEF TabInv, RowsInv
  <2>2. CASE ServeEffect(i)
    BY <2>2 DEF ServeEffect, TabInv, RowsInv
  <2> QED
    BY <2>1, <2>2 DEF Serve, ServeNothing
<1>12. answer = "ok" => \E row \in rows' : /\ row.kind = calls[i].kind
                                           /\ row.customer = calls[i].customer
                                           /\ row.key = calls[i].key
  <2>1. CASE ServeEffect(i)
    <3>1. PICK row : row = [kind |-> calls[i].kind, customer |-> calls[i].customer,
                            key |-> calls[i].key]
      OBVIOUS
    <3>2. row \in rows'
      BY <2>1, <3>1 DEF ServeEffect
    <3> QED
      BY <3>1, <3>2
  <2>2. CASE ServeNothing(i) /\ answer = "ok"
    <3>1. Used(calls[i].kind, calls[i].key)
      <4>1. CASE calls' = [calls EXCEPT ![i].answer = "error"]
        <5>1. [calls[i] EXCEPT !.answer = "error"].answer = "error"
          BY <1>1 DEF Call
        <5>2. calls'[i].answer = "error"
          BY <1>1, <4>1, <5>1
        <5> QED
          BY <1>4, <1>6, <2>2, <5>2
      <4> QED
        BY <2>2, <4>1 DEF ServeNothing, Answer
    <3>2. PICK row \in rows : row.kind = calls[i].kind /\ row.key = calls[i].key
      BY <3>1 DEF Used
    <3>3. PICK j \in DOMAIN calls : /\ calls[j].kind = row.kind /\ calls[j].key = row.key
                                    /\ calls[j].customer = row.customer
      BY DEF TabInv, RowsInv
    <3>4. calls[j].customer = calls[i].customer
      BY <1>7, <3>2, <3>3 DEF TabInv, KeyOwnerInv
    <3> QED
      BY <1>10, <3>2, <3>3, <3>4
  <2> QED
    BY <2>1, <2>2 DEF Serve
<1>13. RowsInv'
  BY <1>4, <1>6, <1>10, <1>11, <1>12 DEF TabInv, RowsInv
<1>14. \A j \in DOMAIN calls : Shown(j)' => Shown(j)
  BY <1>4, <1>6, <1>9 DEF Shown
<1>15. \A j \in DOMAIN calls : calls'[j].heard = "waiting" => calls[j].heard = "waiting"
  BY <1>4, <1>6
<1>16. Keeps(page')
  BY <1>7 DEF Keeps
<1> QED
  BY <1>1, <1>6, <1>7, <1>8, <1>10, <1>13, <1>14, <1>15, <1>16, UpdateStep

\* An answer that is shown turns the key, one that is cut does not.
LEMMA HearStep ==
    ASSUME TabInv, NEW i \in DOMAIN calls, Deliver(i) \/ Cut(i)
    PROVE  TabInv'
<1>1. calls \in Seq(Call) /\ calls[i] \in Call /\ rows \subseteq Row /\ page \in Page /\ TabTypeOK
  BY DEF TabInv, TabTypeOK
<1>2. PICK heard \in {"applied", "thrown"} :
        /\ calls' = [calls EXCEPT ![i] = [@ EXCEPT !.heard = heard]]
        /\ Deliver(i) \/ heard = "thrown"
  BY DEF Deliver, Cut
<1>3. PICK x : x = [calls[i] EXCEPT !.heard = heard]
  OBVIOUS
<1>4. /\ x \in Call /\ x.kind = calls[i].kind /\ x.customer = calls[i].customer
      /\ x.key = calls[i].key /\ x.answer = calls[i].answer /\ x.heard = heard
  BY <1>1, <1>3 DEF Call
<1>5. calls' = [calls EXCEPT ![i] = x]
  BY <1>2, <1>3
<1>6. /\ calls' \in Seq(Call) /\ Len(calls') = Len(calls) /\ DOMAIN calls' = DOMAIN calls
      /\ calls'[i] = x
      /\ \A j \in DOMAIN calls :
           /\ j # i => calls'[j] = calls[j]
           /\ calls'[j].kind = calls[j].kind /\ calls'[j].customer = calls[j].customer
           /\ calls'[j].key = calls[j].key
  BY <1>4, <1>5, OneCall
<1>7. calls[i].heard = "waiting" /\ rows' = rows
  BY DEF Deliver, Cut
<1>8. /\ page' \in Page
      /\ Keeps(page') \/ Turns(page')
      /\ heard = "applied" /\ calls[i].kind \in Effects =>
           calls[i].answer # "none" /\ (calls[i].answer = "ok" => Turns(page'))
  <2>1. CASE Deliver(i)
    <3>1. PICK answer \in IF calls[i].kind = "lookup" THEN {"ok", "error"}
                          ELSE {calls[i].answer} \ {"none"} :
            \E banner \in BannersFor(calls[i].kind, answer) :
              page' = ApplyResult(page, calls[i].kind, calls[i].customer, answer, banner)
      BY <2>1 DEF Deliver
    <3>2. answer \in {"ok", "error"} /\ calls[i].kind \in Kinds /\ calls[i].customer \in Customers
      BY <1>1 DEF Call
    <3>3. page' \in Page /\ (Turns(page') \/ (answer # "ok" /\ Keeps(page')))
      BY <1>1, <3>1, <3>2, AppliedPage
    <3> QED
      BY <3>1, <3>3 DEF Effects
  <2>2. CASE Cut(i)
    <3>1. page' = Rendered([page EXCEPT !.banner = "stay", !.reloading = TRUE])
      BY <2>2 DEF Cut
    <3>2. PICK p : p = [page EXCEPT !.banner = "stay", !.reloading = TRUE]
      OBVIOUS
    <3>3. p \in Page /\ p.key = page.key /\ p.view = page.view
      BY <1>1, <3>2 DEF Page, Banners
    <3>4. page' \in Page /\ Keeps(page')
      BY <3>1, <3>2, <3>3, RenderedPage DEF Keeps
    <3>5. heard = "thrown"
      <4>1. calls' = [calls EXCEPT ![i] = [@ EXCEPT !.heard = "thrown"]]
        BY <2>2 DEF Cut
      <4>2. [calls[i] EXCEPT !.heard = "thrown"].heard = "thrown"
        BY <1>1 DEF Call
      <4> QED
        BY <1>1, <1>4, <1>6, <4>1, <4>2
    <3> QED
      BY <3>4, <3>5
  <2> QED
    BY <2>1, <2>2
<1>9. AppliedInv'
  BY <1>4, <1>6, <1>8 DEF TabInv, AppliedInv
<1>10. RowsInv'
  BY <1>4, <1>6, <1>7 DEF TabInv, RowsInv
<1>11. \A j \in DOMAIN calls : Shown(j)' => Shown(j) \/ (calls[j].heard = "waiting" /\ Turns(page'))
  BY <1>4, <1>6, <1>7, <1>8 DEF Shown
<1>12. \A j \in DOMAIN calls : calls'[j].heard = "waiting" => calls[j].heard = "waiting"
  BY <1>4, <1>6
<1> QED
  BY <1>1, <1>6, <1>7, <1>8, <1>9, <1>10, <1>11, <1>12, UpdateStep

\* A reload forgets what was pending, and has a new key.
LEMMA ReloadStep == TabInv /\ Reload => TabInv'
<1> SUFFICES ASSUME TabInv, Reload PROVE TabInv'
  OBVIOUS
<1>1. calls \in Seq(Call) /\ rows \subseteq Row /\ TabTypeOK
  BY DEF TabInv, TabTypeOK
<1>2. page' \in Page /\ Turns(page')
  BY <1>1, FreshKeyType DEF Reload, NewPage, Page, Banners, Turns
<1>3. \A j \in DOMAIN calls :
        /\ calls'[j] \in Call
        /\ calls'[j].kind = calls[j].kind /\ calls'[j].customer = calls[j].customer
        /\ calls'[j].key = calls[j].key /\ calls'[j].answer = calls[j].answer
        /\ calls'[j].heard = calls[j].heard \/ calls'[j].heard = "never"
  <2> SUFFICES ASSUME NEW j \in DOMAIN calls
               PROVE  /\ calls'[j] \in Call
                      /\ calls'[j].kind = calls[j].kind /\ calls'[j].customer = calls[j].customer
                      /\ calls'[j].key = calls[j].key /\ calls'[j].answer = calls[j].answer
                      /\ calls'[j].heard = calls[j].heard \/ calls'[j].heard = "never"
    OBVIOUS
  <2>1. calls[j] \in Call
    BY <1>1
  <2>2. calls'[j] = calls[j] \/ calls'[j] = [calls[j] EXCEPT !.heard = "never"]
    BY DEF Reload
  <2> QED
    BY <2>1, <2>2 DEF Call
<1>4. /\ calls' \in Seq(Call) /\ Len(calls') = Len(calls) /\ DOMAIN calls' = DOMAIN calls
  <2>1. DOMAIN calls' = DOMAIN calls /\ calls' = [j \in DOMAIN calls |-> calls'[j]]
    BY DEF Reload
  <2>2. calls' \in [1..Len(calls) -> Call] /\ Len(calls) \in Nat
    BY <1>1, <1>3, <2>1
  <2> QED
    BY <2>1, <2>2
<1>5. rows' = rows
  BY DEF Reload
<1>6. AppliedInv' /\ RowsInv'
  BY <1>3, <1>4, <1>5 DEF TabInv, AppliedInv, RowsInv
<1>7. \A j \in DOMAIN calls : Shown(j)' => Shown(j)
  BY <1>3 DEF Shown
<1>8. \A j \in DOMAIN calls : calls'[j].heard = "waiting" => calls[j].heard = "waiting"
  BY <1>3
<1> QED
  BY <1>1, <1>2, <1>3, <1>4, <1>5, <1>6, <1>7, <1>8, UpdateStep

\* Every step preserves the invariant.
LEMMA StepInv == TabInv /\ [TabNext]_tab => TabInv'
<1> SUFFICES ASSUME TabInv, [TabNext]_tab PROVE TabInv'
  OBVIOUS
<1>1. page \in Page /\ TabTypeOK
  BY DEF TabInv, TabTypeOK
<1>2. CASE UNCHANGED tab
  <2>1. page' \in Page /\ Keeps(page') /\ UNCHANGED <<calls, rows>>
    BY <1>1, <1>2 DEF tab, Keeps
  <2> QED
    BY <2>1, PageStep
<1>3. CASE CameraReady
  <2>1. page' \in Page /\ Keeps(page') /\ UNCHANGED <<calls, rows>>
    BY <1>1, <1>3 DEF CameraReady, Page, Keeps
  <2> QED
    BY <2>1, PageStep
<1>4. CASE AutoReset
  <2>1. page' = [page EXCEPT !.view = NoOne, !.banner = "none", !.key = FreshKey]
    BY <1>4 DEF AutoReset, ResetToScan
  <2>2. page' \in Page /\ Turns(page')
    BY <1>1, <2>1, FreshKeyType DEF Page, Banners, Turns
  <2> QED
    BY <1>4, <2>2, PageStep DEF AutoReset
<1>5. CASE \E i \in 1..MaxCalls : Resolve(i)
  BY <1>5, ServeStep, HearStep DEF Resolve
<1> QED
  BY <1>2, <1>3, <1>4, <1>5, OperatorStep, ReloadStep DEF TabNext

\* The inductive invariant holds of every behaviour.
THEOREM TabInvariance == TabSpec => []TabInv
BY InitInv, StepInv, PTL DEF TabSpec

\* What the page holds, what it has called and what the server has committed
\* keep their types, however answers are lost, late or overtaken.
THEOREM TabTypeCorrect == TabSpec => []TabTypeOK
<1>1. TabInv => TabTypeOK
  BY DEF TabInv
<1> QED
  BY <1>1, TabInvariance, PTL

\* What the operator is told is so: an answer shown as a success, replayed or
\* not, has a row of the customer it was asked for.
THEOREM SuccessesAreReal == TabSpec => []SuccessIsReal
<1>1. TabInv => SuccessIsReal
  BY DEF TabInv, RowsInv, SuccessIsReal
<1> QED
  BY <1>1, TabInvariance, PTL

\* No visit is swallowed as the replay of another: the key of a success that
\* was shown is not sent again for the same kind.
THEOREM KeysAreSpent == TabSpec => []ShownKeysAreSpent
<1>1. TabInv => ShownKeysAreSpent
  BY DEF TabInv
<1> QED
  BY <1>1, TabInvariance, PTL

----------------------------------------------------------------------------
(* The limits: lists of times, at any instant.                              *)

Recent(times, window, now) == {e \in times : now - e.at < window}
At(times, now) == {e \in times : e.at = now}
Another(times, now) == [at |-> now, n |-> Cardinality(At(times, now)) + 1]
More(times, now) == times \cup {Another(times, now)}

\* A finite list of the past, whose entries of now are numbered without gaps.
Numbered(times, now) ==
    /\ times \subseteq [at : Nat, n : Nat \ {0}]
    /\ IsFiniteSet(times)
    /\ \A e \in times : e.at <= now
    /\ \A e \in At(times, now) : e.n <= Cardinality(At(times, now))

\* The list a process keeps and the history of what it stands for.
Good(times, all, window, now) ==
    /\ Numbered(times, now) /\ Numbered(all, now)
    /\ Recent(times, window, now) = Recent(all, window, now)

\* No window that has ended, or ends now, holds more than the limit.
Bounded(all, window, limit, now) == \A t \in 0..now : Within(all, window, t) <= limit

LEMMA CountNow ==
    ASSUME NEW times, NEW now \in Nat, Numbered(times, now)
    PROVE  IsFiniteSet(At(times, now)) /\ Cardinality(At(times, now)) \in Nat
BY FS_Subset, FS_CardinalityType DEF Numbered, At

\* An entry of now is a new one.
LEMMA MoreNumbered ==
    ASSUME NEW times, NEW now \in Nat, Numbered(times, now)
    PROVE  /\ Another(times, now) \notin times
           /\ Another(times, now).at = now
           /\ Numbered(More(times, now), now)
           /\ Cardinality(More(times, now)) = Cardinality(times) + 1
<1> DEFINE new == Another(times, now)
           count == Cardinality(At(times, now))
<1>1. IsFiniteSet(At(times, now)) /\ count \in Nat
  BY CountNow
<1>2. new = [at |-> now, n |-> count + 1]
  BY DEF Another
<1>3. new \in [at : Nat, n : Nat \ {0}] /\ new.at = now /\ new.n = count + 1
  BY <1>1, <1>2
<1> HIDE DEF new, count
<1>4. new \notin times
  BY <1>1, <1>3 DEF Numbered, At, count
<1>5. At(More(times, now), now) = At(times, now) \cup {new}
  BY <1>3 DEF At, More, new
<1>6. Cardinality(At(More(times, now), now)) = count + 1
  BY <1>1, <1>4, <1>5, FS_AddElement DEF At, count
<1>7. IsFiniteSet(More(times, now)) /\ Cardinality(More(times, now)) = Cardinality(times) + 1
  BY <1>4, FS_AddElement DEF Numbered, More, new
<1>8. \A e \in At(times, now) : e.n \in Nat /\ e.n <= count
  BY DEF Numbered, At, count
<1>9. \A e \in At(More(times, now), now) : e.n <= count + 1
  BY <1>1, <1>3, <1>5, <1>8
<1>10. /\ More(times, now) \subseteq [at : Nat, n : Nat \ {0}]
       /\ \A e \in More(times, now) : e.at <= now
  BY <1>3 DEF Numbered, More, new
<1> QED
  BY <1>3, <1>4, <1>6, <1>7, <1>9, <1>10 DEF Numbered, new

LEMMA NoneNumbered ==
    ASSUME NEW now \in Nat
    PROVE  Numbered({}, now)
BY FS_EmptySet DEF Numbered, At

\* The window that ends now contains now.
LEMMA RecentNumbered ==
    ASSUME NEW times, NEW now \in Nat, NEW window \in Nat \ {0}, Numbered(times, now)
    PROVE  /\ Numbered(Recent(times, window, now), now)
           /\ At(Recent(times, window, now), now) = At(times, now)
           /\ Recent(Recent(times, window, now), window, now) = Recent(times, window, now)
           /\ Cardinality(Recent(times, window, now)) \in Nat
<1>1. At(Recent(times, window, now), now) = At(times, now)
  BY DEF At, Recent, Numbered
<1>2. IsFiniteSet(Recent(times, window, now)) /\ Cardinality(Recent(times, window, now)) \in Nat
  BY FS_Subset, FS_CardinalityType DEF Recent, Numbered
<1>3. Recent(Recent(times, window, now), window, now) = Recent(times, window, now)
  BY DEF Recent
<1> QED
  BY <1>1, <1>2, <1>3 DEF Numbered, Recent

LEMMA GoodPruned ==
    ASSUME NEW times, NEW all, NEW now \in Nat, NEW window \in Nat \ {0},
           Good(times, all, window, now)
    PROVE  Good(Recent(times, window, now), all, window, now)
BY RecentNumbered DEF Good

\* What a sweep forgets is nothing that counts.
LEMMA GoodSwept ==
    ASSUME NEW times, NEW all, NEW now \in Nat, NEW window \in Nat \ {0},
           Good(times, all, window, now), Recent(times, window, now) = {}
    PROVE  Good({}, all, window, now)
<1>1. Recent({}, window, now) = {}
  BY DEF Recent
<1> QED
  BY <1>1, NoneNumbered DEF Good

LEMMA GoodOrSwept ==
    ASSUME NEW times, NEW new, NEW all, NEW now \in Nat, NEW window \in Nat \ {0},
           Good(times, all, window, now),
           new = times \/ (new = {} /\ Recent(times, window, now) = {})
    PROVE  Good(new, all, window, now)
BY GoodSwept

LEMMA GoodMore ==
    ASSUME NEW times, NEW all, NEW now \in Nat, NEW window \in Nat \ {0},
           Good(times, all, window, now)
    PROVE  /\ Good(More(times, now), More(all, now), window, now)
           /\ Cardinality(Recent(More(times, now), window, now))
                = Cardinality(Recent(times, window, now)) + 1
<1>1. At(times, now) = At(all, now)
  BY RecentNumbered DEF Good
<1> DEFINE new == Another(times, now)
<1>2. new = Another(all, now)
  BY <1>1 DEF Another
<1>3. new.at = now /\ new \notin times /\ Numbered(More(times, now), now) /\ Numbered(More(all, now), now)
  BY MoreNumbered DEF Good
<1> HIDE DEF new
<1>4. /\ Recent(More(times, now), window, now) = Recent(times, window, now) \cup {new}
      /\ Recent(More(all, now), window, now) = Recent(all, window, now) \cup {new}
  BY <1>2, <1>3 DEF More, Recent, new
<1>5. new \notin Recent(times, window, now) /\ IsFiniteSet(Recent(times, window, now))
  BY <1>3, FS_Subset DEF Good, Numbered, Recent
<1>6. Cardinality(Recent(times, window, now) \cup {new}) = Cardinality(Recent(times, window, now)) + 1
  BY <1>5, FS_AddElement
<1> QED
  BY <1>3, <1>4, <1>6 DEF Good

LEMMA GoodLater ==
    ASSUME NEW times, NEW all, NEW now \in Nat, NEW window \in Nat \ {0},
           Good(times, all, window, now)
    PROVE  /\ Good(times, all, window, now + 1)
           /\ Recent(times, window, now + 1) \subseteq Recent(times, window, now)
           /\ Cardinality(Recent(times, window, now + 1)) <= Cardinality(Recent(times, window, now))
<1>1. ASSUME NEW list, Numbered(list, now) PROVE Numbered(list, now + 1)
  <2>1. At(list, now + 1) = {}
    BY <1>1 DEF At, Numbered
  <2> QED
    BY <1>1, <2>1 DEF Numbered
<1>2. Recent(times, window, now + 1) = {e \in Recent(times, window, now) : now + 1 - e.at < window}
  BY DEF Recent, Good, Numbered
<1>3. Recent(all, window, now + 1) = {e \in Recent(all, window, now) : now + 1 - e.at < window}
  BY DEF Recent, Good, Numbered
<1>4. IsFiniteSet(Recent(times, window, now))
  BY FS_Subset DEF Recent, Good, Numbered
<1>5. Cardinality(Recent(times, window, now + 1)) <= Cardinality(Recent(times, window, now))
  BY <1>2, <1>4, FS_Subset
<1> QED
  BY <1>1, <1>2, <1>3, <1>5 DEF Good

\* The window that ends now holds what the list says.
LEMMA WithinNow ==
    ASSUME NEW times, NEW all, NEW now \in Nat, NEW window, Good(times, all, window, now)
    PROVE  Within(all, window, now) = Cardinality(Recent(times, window, now))
<1>1. {e \in all : e.at <= now /\ now - e.at < window} = Recent(all, window, now)
  BY DEF Recent, Good, Numbered
<1> QED
  BY <1>1 DEF Within, Good

LEMMA BoundedMore ==
    ASSUME NEW times, NEW all, NEW now \in Nat, NEW window \in Nat \ {0}, NEW limit \in Nat,
           Good(times, all, window, now), Bounded(all, window, limit, now),
           Cardinality(Recent(times, window, now)) + 1 <= limit
    PROVE  Bounded(More(all, now), window, limit, now)
<1>1. Within(More(all, now), window, now) <= limit
  BY GoodMore, WithinNow
<1>2. ASSUME NEW t \in 0..now, t # now
      PROVE  Within(More(all, now), window, t) <= limit
  <2>1. Another(all, now).at = now
    BY DEF Another
  <2>2. {e \in More(all, now) : e.at <= t /\ t - e.at < window}
          = {e \in all : e.at <= t /\ t - e.at < window}
    BY <1>2, <2>1 DEF More
  <2> QED
    BY <2>2 DEF Within, Bounded
<1> QED
  BY <1>1, <1>2 DEF Bounded

LEMMA BoundedLater ==
    ASSUME NEW times, NEW all, NEW now \in Nat, NEW window \in Nat \ {0}, NEW limit \in Nat,
           Good(times, all, window, now), Bounded(all, window, limit, now)
    PROVE  Bounded(all, window, limit, now + 1)
<1>1. /\ Within(all, window, now + 1) = Cardinality(Recent(times, window, now + 1))
      /\ Within(all, window, now) = Cardinality(Recent(times, window, now))
  BY GoodLater, WithinNow
<1>2. Within(all, window, now) <= limit
  BY DEF Bounded
<1>3. /\ Cardinality(Recent(times, window, now + 1)) \in Nat
      /\ Cardinality(Recent(times, window, now)) \in Nat
  BY GoodLater, RecentNumbered DEF Good
<1>4. Cardinality(Recent(times, window, now + 1)) <= Cardinality(Recent(times, window, now))
  BY GoodLater
<1>5. Within(all, window, now + 1) <= limit
  BY <1>1, <1>2, <1>3, <1>4
<1> QED
  BY <1>5 DEF Bounded

LEMMA BoundedNone ==
    ASSUME NEW now \in Nat, NEW window, NEW limit \in Nat
    PROVE  Good({}, {}, window, now) /\ Bounded({}, window, limit, now)
<1>1. \A t \in 0..now : {e \in {} : e.at <= t /\ t - e.at < window} = {}
  OBVIOUS
<1>2. \A t \in 0..now : Within({}, window, t) = 0
  BY <1>1, FS_EmptySet DEF Within
<1> QED
  BY <1>2, NoneNumbered DEF Good, Bounded

----------------------------------------------------------------------------
(* What holds of one operator's entries.                                   *)

Guesses == FailureMax + Cardinality(Slots) - 1

\* No lookup is recent when a block that runs ends, a block that was
\* earned by failures outlasts them, and none is longer than a new one.
BlockOK(look, fail, until, now) ==
    /\ now < until => \A e \in look : e.at + LookupWindow <= until
    /\ FailureMax <= Cardinality(Recent(fail, FailureWindow, now)) =>
         \A e \in Recent(fail, FailureWindow, now) : e.at + Block <= until
    /\ until <= now + Block

\* When a refused operator is told to come back neither a block nor a
\* lookup is in the way.
PromiseOK(look, until, promise) ==
    promise # Unpromised =>
        until <= promise /\ \A e \in look : e.at + LookupWindow <= promise

\* Past the limit of failures, those that are asked already are all that come.
RoomOK(fail, asking, now) ==
    FailureMax <= Cardinality(Recent(fail, FailureWindow, now)) =>
        Cardinality(Recent(fail, FailureWindow, now)) + Cardinality(asking) <= Guesses

ListsOK(look, fail, stmp, o, now) ==
    /\ Good(look, passed[o], LookupWindow, now)
    /\ Good(fail, guessed[o], FailureWindow, now)
    /\ Good(stmp, stamped[o], StampWindow, now)

BoundsOK(o) ==
    /\ Bounded(passed[o], LookupWindow, LookupMax, clock)
    /\ Bounded(guessed[o], FailureWindow, Guesses, clock)
    /\ Bounded(stamped[o], StampWindow, StampMax, clock)

\* The lookups of an operator that are under way.
Running(o) == {s \in Slots : running[s] # Idle /\ running[s].operator = o}

Sound(o) ==
    /\ ListsOK(lookups[o], failures[o], stamps[o], o, clock)
    /\ BoundsOK(o)
    /\ BlockOK(lookups[o], failures[o], blocked[o], clock)
    /\ PromiseOK(lookups[o], blocked[o], promised[o])
    /\ RoomOK(failures[o], Running(o), clock)

IInv == TypeOK /\ \A o \in Operators : Sound(o)

LEMMA Constants ==
    /\ LookupWindow \in Nat \ {0} /\ LookupMax \in Nat \ {0}
    /\ FailureWindow \in Nat \ {0} /\ FailureMax \in Nat \ {0}
    /\ StampWindow \in Nat \ {0} /\ StampMax \in Nat \ {0}
    /\ Block \in Nat \ {0} /\ SweepInterval \in Nat \ {0} /\ MaxTime \in Nat
    /\ LookupWindow <= Block /\ FailureWindow <= Block
    /\ Cardinality(Slots) \in Nat /\ Guesses \in Nat
<1>1. Cardinality(Slots) \in Nat
  BY SlotsAssumption, FS_CardinalityType
<1> QED
  BY <1>1, LimitsAssumption DEF Guesses

LEMMA RunningCount ==
    ASSUME NEW o
    PROVE  /\ IsFiniteSet(Running(o)) /\ Cardinality(Running(o)) \in Nat
           /\ Cardinality(Running(o)) <= Cardinality(Slots)
BY SlotsAssumption, FS_Subset, FS_CardinalityType DEF Running

\* Past the limit of failures a block is running.
LEMMA FewWithoutBlock ==
    ASSUME NEW look, NEW fail, NEW until \in Nat, NEW now \in Nat, Numbered(fail, now),
           BlockOK(look, fail, until, now), now >= until
    PROVE  Cardinality(Recent(fail, FailureWindow, now)) < FailureMax
<1> SUFFICES ASSUME FailureMax <= Cardinality(Recent(fail, FailureWindow, now)) PROVE FALSE
  BY Constants, RecentNumbered
<1>1. Recent(fail, FailureWindow, now) # {}
  BY Constants, FS_EmptySet
<1>2. PICK e \in Recent(fail, FailureWindow, now) : TRUE
  BY <1>1
<1>3. e.at + Block <= until
  BY DEF BlockOK
<1>4. e.at \in Nat /\ now - e.at < FailureWindow
  BY DEF Recent, Numbered
<1> QED
  BY <1>3, <1>4, Constants

\* Numbers of the type invariant, said once.
LEMMA Typed ==
    ASSUME TypeOK
    PROVE  /\ lookups \in Lists /\ failures \in Lists /\ stamps \in Lists
           /\ passed \in Lists /\ stamped \in Lists /\ guessed \in Lists
           /\ clock \in Nat /\ clock <= MaxTime /\ lastSweep \in Nat /\ lastSweep <= clock
           /\ \A o \in Operators : blocked[o] \in Nat /\ blocked[o] <= MaxTime + Block
BY Constants DEF TypeOK

----------------------------------------------------------------------------
(* A sweep changes nothing that counts.                                    *)

LEMMA SweptList ==
    ASSUME NEW map \in Lists, NEW window, NEW o \in Operators
    PROVE  /\ Swept(map, window) \in Lists
           /\ \/ Swept(map, window)[o] = map[o]
              \/ Swept(map, window)[o] = {} /\ Recent(map[o], window, clock) = {}
BY DEF Swept, Lists, Prune, Recent

LEMMA SweepType ==
    ASSUME TypeOK
    PROVE  /\ Sweep.lookups \in Lists /\ Sweep.failures \in Lists /\ Sweep.stamps \in Lists
           /\ Sweep.blocked \in [Operators -> 0..MaxTime + Block]
           /\ Sweep.last \in 0..clock
<1>1. ASSUME NEW map \in Lists, NEW window PROVE Swept(map, window) \in Lists
  BY DEF Swept, Lists
<1>2. [o \in Operators |-> IF clock >= blocked[o] THEN 0 ELSE blocked[o]]
        \in [Operators -> 0..MaxTime + Block]
  BY Constants DEF TypeOK
<1>3. clock \in 0..clock
  BY Typed
<1> QED
  BY <1>1, <1>2, <1>3, Typed DEF Sweep, TypeOK

\* What a sweep does to the entries of an operator.
LEMMA SweepCases ==
    ASSUME TypeOK, NEW o \in Operators
    PROVE  /\ \/ Sweep.lookups[o] = lookups[o]
              \/ Sweep.lookups[o] = {} /\ Recent(lookups[o], LookupWindow, clock) = {}
           /\ \/ Sweep.failures[o] = failures[o]
              \/ Sweep.failures[o] = {} /\ Recent(failures[o], FailureWindow, clock) = {}
           /\ \/ Sweep.stamps[o] = stamps[o]
              \/ Sweep.stamps[o] = {} /\ Recent(stamps[o], StampWindow, clock) = {}
           /\ \/ Sweep.blocked[o] = blocked[o]
              \/ Sweep.blocked[o] = 0 /\ clock >= blocked[o]
<1>1. CASE SweepDue
  <2>1. /\ Sweep.lookups = Swept(lookups, LookupWindow)
        /\ Sweep.failures = Swept(failures, FailureWindow)
        /\ Sweep.stamps = Swept(stamps, StampWindow)
        /\ Sweep.blocked = [q \in Operators |-> IF clock >= blocked[q] THEN 0 ELSE blocked[q]]
    BY <1>1 DEF Sweep
  <2> QED
    BY <2>1, SweptList, Typed
<1>2. CASE ~SweepDue
  BY <1>2 DEF Sweep
<1> QED
  BY <1>1, <1>2

LEMMA SweptSound ==
    ASSUME TypeOK, NEW o \in Operators, Sound(o)
    PROVE  /\ ListsOK(Sweep.lookups[o], Sweep.failures[o], Sweep.stamps[o], o, clock)
           /\ BlockOK(Sweep.lookups[o], Sweep.failures[o], Sweep.blocked[o], clock)
           /\ PromiseOK(Sweep.lookups[o], Sweep.blocked[o], promised[o])
           /\ RoomOK(Sweep.failures[o], Running(o), clock)
           /\ Sweep.blocked[o] \in Nat
<1>1. /\ clock \in Nat /\ blocked[o] \in Nat /\ Sweep.blocked[o] \in Nat
  BY SweepType, Typed, Constants
<1>2. ListsOK(Sweep.lookups[o], Sweep.failures[o], Sweep.stamps[o], o, clock)
  <2>1. /\ Good(lookups[o], passed[o], LookupWindow, clock)
        /\ Good(failures[o], guessed[o], FailureWindow, clock)
        /\ Good(stamps[o], stamped[o], StampWindow, clock)
    BY DEF Sound, ListsOK
  <2>2. Good(Sweep.lookups[o], passed[o], LookupWindow, clock)
    BY <1>1, <2>1, SweepCases, GoodOrSwept, Constants
  <2>3. Good(Sweep.failures[o], guessed[o], FailureWindow, clock)
    BY <1>1, <2>1, SweepCases, GoodOrSwept, Constants
  <2>4. Good(Sweep.stamps[o], stamped[o], StampWindow, clock)
    BY <1>1, <2>1, SweepCases, GoodOrSwept, Constants
  <2> QED
    BY <2>2, <2>3, <2>4 DEF ListsOK
<1>3. /\ Sweep.lookups[o] \subseteq lookups[o]
      /\ Recent(Sweep.failures[o], FailureWindow, clock) = Recent(failures[o], FailureWindow, clock)
  BY SweepCases DEF Recent
<1>4. CASE Sweep.blocked[o] = blocked[o]
  BY <1>1, <1>2, <1>3, <1>4 DEF Sound, BlockOK, PromiseOK, RoomOK
<1>5. CASE Sweep.blocked[o] = 0 /\ clock >= blocked[o]
  <2>1. Cardinality(Recent(failures[o], FailureWindow, clock)) < FailureMax
    BY <1>1, <1>5, FewWithoutBlock DEF Sound, ListsOK, Good
  <2>2. Cardinality(Recent(failures[o], FailureWindow, clock)) \in Nat
    BY <1>1, RecentNumbered, Constants DEF Sound, ListsOK, Good
  <2>3. promised[o] # Unpromised => 0 <= promised[o]
    BY Constants DEF TypeOK, Unpromised
  <2> QED
    BY <1>1, <1>2, <1>3, <1>5, <2>1, <2>2, <2>3, Constants DEF Sound, BlockOK, PromiseOK, RoomOK
<1> QED
  BY <1>4, <1>5, SweepCases

----------------------------------------------------------------------------
(* Types.                                                                  *)

\* A list with the time of now stays a list of times.
LEMMA MoreType ==
    ASSUME NEW times \in SUBSET Entry, NEW now \in 0..MaxTime, Numbered(times, now)
    PROVE  More(times, now) \in SUBSET Entry
<1>1. Cardinality(At(times, now)) \in Nat
  BY CountNow, Constants
<1>2. Another(times, now) \in Entry
  BY <1>1 DEF Another, Entry
<1> QED
  BY <1>2 DEF More

LEMMA PruneIsRecent ==
    \A times, window : Prune(times, window) = Recent(times, window, clock)
BY DEF Prune, Recent

LEMMA AgainIsMore == \A times : Again(times) = More(times, clock)
BY DEF Again, More, Another, At

\* A list that is pruned and given the time of now, and a history, are lists.
LEMMA KeptType ==
    ASSUME TypeOK, NEW times \in SUBSET Entry, NEW all \in SUBSET Entry,
           NEW window \in Nat \ {0}, Good(times, all, window, clock)
    PROVE  /\ More(Recent(times, window, clock), clock) \in SUBSET Entry
           /\ More(all, clock) \in SUBSET Entry
<1>1. clock \in 0..MaxTime /\ clock \in Nat
  BY Typed, Constants
<1>2. Recent(times, window, clock) \in SUBSET Entry
  BY DEF Recent
<1>3. Numbered(Recent(times, window, clock), clock) /\ Numbered(all, clock)
  BY <1>1, RecentNumbered DEF Good
<1> QED
  BY <1>1, <1>2, <1>3, MoreType

----------------------------------------------------------------------------
(* The steps.                                                              *)

\* A lookup passes: no block is running, and what failed is little enough.
LEMMA BeginStep ==
    ASSUME IInv, NEW o \in Operators, NEW s \in Slots, BeginLookup(s, o)
    PROVE  IInv'
<1> DEFINE swept == Sweep
           look == swept.lookups[o]
           kept == Recent(look, LookupWindow, clock)
<1>1. /\ running[s] = Idle
      /\ clock >= swept.blocked[o]
      /\ Cardinality(kept) < LookupMax
      /\ lookups' = Noted(swept.lookups, o, LookupWindow)
      /\ blocked' = swept.blocked /\ failures' = swept.failures /\ stamps' = swept.stamps
      /\ lastSweep' = swept.last
      /\ running' = [running EXCEPT ![s] = [operator |-> o, at |-> "remote"]]
      /\ passed' = [passed EXCEPT ![o] = Again(@)]
      /\ promised' = [promised EXCEPT ![o] = Unpromised]
      /\ UNCHANGED <<stamped, guessed, clock>>
  BY PruneIsRecent DEF BeginLookup, LookupAllowed
<1>2. TypeOK /\ clock \in Nat
  BY Typed DEF IInv
<1>3. \A q \in Operators :
        /\ ListsOK(swept.lookups[q], swept.failures[q], swept.stamps[q], q, clock)
        /\ BlockOK(swept.lookups[q], swept.failures[q], swept.blocked[q], clock)
        /\ PromiseOK(swept.lookups[q], swept.blocked[q], promised[q])
        /\ RoomOK(swept.failures[q], Running(q), clock)
        /\ swept.blocked[q] \in Nat
        /\ BoundsOK(q)
  BY <1>2, SweptSound DEF IInv, Sound
<1>4. /\ swept.lookups \in Lists /\ swept.failures \in Lists /\ swept.stamps \in Lists
      /\ swept.blocked \in [Operators -> 0..MaxTime + Block] /\ swept.last \in 0..clock
  BY <1>2, SweepType
<1> HIDE DEF swept
<1>a. Good(look, passed[o], LookupWindow, clock)
  BY <1>3 DEF ListsOK
<1>b. look \in SUBSET Entry /\ passed[o] \in SUBSET Entry /\ passed \in Lists
  BY <1>2, <1>4, Typed DEF Lists
<1>c. More(kept, clock) \in SUBSET Entry /\ More(passed[o], clock) \in SUBSET Entry
  BY <1>2, <1>a, <1>b, KeptType, Constants
<1>5. /\ lookups' \in Lists /\ lookups'[o] = More(kept, clock)
      /\ \A q \in Operators \ {o} : lookups'[q] = swept.lookups[q]
  <2>1. lookups' = [swept.lookups EXCEPT ![o] = More(kept, clock)]
    BY <1>1, PruneIsRecent, AgainIsMore DEF Noted
  <2> QED
    BY <1>4, <1>c, <2>1 DEF Lists
<1>6. /\ passed' \in Lists /\ passed'[o] = More(passed[o], clock)
      /\ \A q \in Operators \ {o} : passed'[q] = passed[q]
  <2>1. passed' = [passed EXCEPT ![o] = More(passed[o], clock)]
    BY <1>1, AgainIsMore
  <2> QED
    BY <1>b, <1>c, <2>1 DEF Lists
<1>7. TypeOK'
  <2>1. running' \in [Slots -> {Idle} \cup [operator : Operators, at : {"remote", "token"}]]
    BY <1>1, <1>2 DEF TypeOK
  <2>2. promised' \in [Operators -> {Unpromised} \cup 0..MaxTime + Block]
    BY <1>1, <1>2 DEF TypeOK
  <2> QED
    BY <1>1, <1>2, <1>4, <1>5, <1>6, <2>1, <2>2 DEF TypeOK
<1>8. running \in [Slots -> {Idle} \cup [operator : Operators, at : {"remote", "token"}]]
  BY <1>2 DEF TypeOK
<1>9. \A q \in Operators \ {o} : Running(q)' = Running(q) /\ promised'[q] = promised[q]
  BY <1>1, <1>2, <1>8 DEF Running, TypeOK, Idle
<1>10. Sound(o)'
  <2>1. Good(look, passed[o], LookupWindow, clock)
    BY <1>3 DEF ListsOK
  <2>2. Good(kept, passed[o], LookupWindow, clock)
    BY <1>2, <2>1, GoodPruned, Constants
  <2>3. Recent(kept, LookupWindow, clock) = kept
    BY DEF Recent
  <2>4. Good(lookups'[o], passed'[o], LookupWindow, clock)
    BY <1>2, <1>5, <1>6, <2>2, GoodMore, Constants
  <2>5. ListsOK(lookups[o], failures[o], stamps[o], o, clock)'
    BY <1>1, <1>3, <2>4 DEF ListsOK
  <2>6. Bounded(passed'[o], LookupWindow, LookupMax, clock)
    <3>1. Cardinality(kept) \in Nat
      BY <1>2, <2>1, RecentNumbered, Constants DEF Good
    <3>2. Cardinality(Recent(kept, LookupWindow, clock)) + 1 <= LookupMax
      BY <1>1, <2>3, <3>1, Constants
    <3>3. Bounded(passed[o], LookupWindow, LookupMax, clock)
      BY <1>3 DEF BoundsOK
    <3> QED
      BY <1>2, <1>6, <2>2, <3>2, <3>3, BoundedMore, Constants
  <2>7. BoundsOK(o)'
    BY <1>1, <1>3, <2>6 DEF BoundsOK
  <2>8. /\ Cardinality(Recent(swept.failures[o], FailureWindow, clock)) < FailureMax
        /\ Cardinality(Recent(swept.failures[o], FailureWindow, clock)) \in Nat
    BY <1>1, <1>2, <1>3, FewWithoutBlock, RecentNumbered, Constants DEF ListsOK, Good
  <2>9. BlockOK(lookups[o], failures[o], blocked[o], clock)'
    BY <1>1, <1>2, <1>3, <2>8, Constants DEF BlockOK
  <2>10. RoomOK(failures[o], Running(o), clock)'
    BY <1>1, <2>8, Constants DEF RoomOK
  <2>11. PromiseOK(lookups[o], blocked[o], promised[o])'
    BY <1>1, <1>2 DEF PromiseOK, TypeOK
  <2> QED
    BY <2>5, <2>7, <2>9, <2>10, <2>11 DEF Sound
<1>11. ASSUME NEW q \in Operators \ {o} PROVE Sound(q)'
  BY <1>1, <1>3, <1>5, <1>6, <1>9 DEF Sound, ListsOK, BoundsOK, BlockOK, PromiseOK, RoomOK
<1> QED
  BY <1>7, <1>10, <1>11 DEF IInv

\* A refusal: the block that runs goes on, or one starts that outlasts every
\* window; and what the operator is told is when it ends.
LEMMA RefuseStep ==
    ASSUME IInv, NEW o \in Operators, RefuseLookup(o)
    PROVE  IInv'
<1> DEFINE until == Sweep.blocked[o]
<1>1. /\ lookups' = Sweep.lookups /\ failures' = Sweep.failures /\ stamps' = Sweep.stamps
      /\ lastSweep' = Sweep.last
      /\ blocked' = IF clock < until THEN Sweep.blocked
                    ELSE [Sweep.blocked EXCEPT ![o] = clock + Block]
      /\ promised' = [promised EXCEPT ![o] = clock + Wait(o, Sweep)]
      /\ UNCHANGED <<running, passed, stamped, guessed, clock>>
  BY DEF RefuseLookup
<1>2. TypeOK /\ clock \in Nat /\ clock <= MaxTime
  BY Typed DEF IInv
<1>3. \A q \in Operators :
        /\ ListsOK(Sweep.lookups[q], Sweep.failures[q], Sweep.stamps[q], q, clock)
        /\ BlockOK(Sweep.lookups[q], Sweep.failures[q], Sweep.blocked[q], clock)
        /\ PromiseOK(Sweep.lookups[q], Sweep.blocked[q], promised[q])
        /\ RoomOK(Sweep.failures[q], Running(q), clock)
        /\ Sweep.blocked[q] \in Nat
        /\ BoundsOK(q)
  BY <1>2, SweptSound DEF IInv, Sound
<1>4. /\ Sweep.lookups \in Lists /\ Sweep.failures \in Lists /\ Sweep.stamps \in Lists
      /\ Sweep.blocked \in [Operators -> 0..MaxTime + Block] /\ Sweep.last \in 0..clock
  BY <1>2, SweepType
<1>5. until \in 0..MaxTime + Block
  BY <1>4
<1>6. clock + Wait(o, Sweep) = IF clock < until THEN until ELSE clock + Block
  BY <1>2, <1>5, Constants DEF Wait
<1>7. /\ blocked' \in [Operators -> 0..MaxTime + Block]
      /\ blocked'[o] = IF clock < until THEN until ELSE clock + Block
      /\ \A q \in Operators \ {o} : blocked'[q] = Sweep.blocked[q]
  BY <1>1, <1>2, <1>4, Constants
<1>8. /\ promised' \in [Operators -> {Unpromised} \cup 0..MaxTime + Block]
      /\ promised'[o] = blocked'[o]
      /\ \A q \in Operators \ {o} : promised'[q] = promised[q]
  <2>1. clock + Wait(o, Sweep) \in 0..MaxTime + Block
    BY <1>2, <1>5, <1>6, Constants
  <2> QED
    BY <1>1, <1>2, <1>6, <1>7, <2>1 DEF TypeOK
<1>9. TypeOK'
  BY <1>1, <1>2, <1>4, <1>7, <1>8 DEF TypeOK
<1>10. Running(o)' = Running(o) /\ \A q \in Operators : Running(q)' = Running(q)
  BY <1>1 DEF Running
<1>11. Sound(o)'
  <2>1. ListsOK(lookups[o], failures[o], stamps[o], o, clock)' /\ BoundsOK(o)'
    BY <1>1, <1>3 DEF ListsOK, BoundsOK
  <2>2. /\ \A e \in Sweep.lookups[o] : e.at \in Nat /\ e.at <= clock
        /\ \A e \in Recent(Sweep.failures[o], FailureWindow, clock) : e.at \in Nat /\ e.at <= clock
    BY <1>3 DEF ListsOK, Good, Numbered, Recent
  <2>3. \A e \in Sweep.lookups[o] : e.at + LookupWindow <= blocked'[o]
    BY <1>2, <1>3, <1>5, <1>7, <2>2, Constants DEF BlockOK
  <2>4. FailureMax <= Cardinality(Recent(Sweep.failures[o], FailureWindow, clock)) =>
          \A e \in Recent(Sweep.failures[o], FailureWindow, clock) : e.at + Block <= blocked'[o]
    BY <1>2, <1>3, <1>5, <1>7, <2>2, Constants DEF BlockOK
  <2>5. BlockOK(lookups[o], failures[o], blocked[o], clock)'
    BY <1>1, <1>2, <1>3, <1>5, <1>7, <2>3, <2>4, Constants DEF BlockOK
  <2>6. PromiseOK(lookups[o], blocked[o], promised[o])'
    BY <1>1, <1>2, <1>5, <1>7, <1>8, <2>3, Constants DEF PromiseOK
  <2>7. RoomOK(failures[o], Running(o), clock)'
    BY <1>1, <1>3, <1>10 DEF RoomOK
  <2> QED
    BY <2>1, <2>5, <2>6, <2>7 DEF Sound
<1>12. ASSUME NEW q \in Operators \ {o} PROVE Sound(q)'
  BY <1>1, <1>3, <1>7, <1>8, <1>10 DEF Sound, ListsOK, BoundsOK, BlockOK, PromiseOK, RoomOK
<1> QED
  BY <1>9, <1>11, <1>12 DEF IInv

\* A stamp passes.
LEMMA StampStep ==
    ASSUME IInv, NEW o \in Operators, CheckStamp(o)
    PROVE  IInv'
<1> DEFINE list == Sweep.stamps[o]
           kept == Recent(list, StampWindow, clock)
<1>1. /\ Cardinality(kept) < StampMax
      /\ stamps' = Noted(Sweep.stamps, o, StampWindow)
      /\ stamped' = [stamped EXCEPT ![o] = Again(@)]
      /\ lookups' = Sweep.lookups /\ failures' = Sweep.failures
      /\ blocked' = Sweep.blocked /\ lastSweep' = Sweep.last
      /\ UNCHANGED <<running, passed, guessed, promised, clock>>
  BY PruneIsRecent DEF CheckStamp, StampAllowed
<1>2. TypeOK /\ clock \in Nat
  BY Typed DEF IInv
<1>3. \A q \in Operators :
        /\ ListsOK(Sweep.lookups[q], Sweep.failures[q], Sweep.stamps[q], q, clock)
        /\ BlockOK(Sweep.lookups[q], Sweep.failures[q], Sweep.blocked[q], clock)
        /\ PromiseOK(Sweep.lookups[q], Sweep.blocked[q], promised[q])
        /\ RoomOK(Sweep.failures[q], Running(q), clock)
        /\ BoundsOK(q)
  BY <1>2, SweptSound DEF IInv, Sound
<1>4. /\ Sweep.lookups \in Lists /\ Sweep.failures \in Lists /\ Sweep.stamps \in Lists
      /\ Sweep.blocked \in [Operators -> 0..MaxTime + Block] /\ Sweep.last \in 0..clock
  BY <1>2, SweepType
<1>5. Good(list, stamped[o], StampWindow, clock)
  BY <1>3 DEF ListsOK
<1>6. list \in SUBSET Entry /\ stamped[o] \in SUBSET Entry /\ stamped \in Lists
  BY <1>2, <1>4, Typed DEF Lists
<1>7. More(kept, clock) \in SUBSET Entry /\ More(stamped[o], clock) \in SUBSET Entry
  BY <1>2, <1>5, <1>6, KeptType, Constants
<1>8. /\ stamps' \in Lists /\ stamps'[o] = More(kept, clock)
      /\ \A q \in Operators \ {o} : stamps'[q] = Sweep.stamps[q]
  <2>1. stamps' = [Sweep.stamps EXCEPT ![o] = More(kept, clock)]
    BY <1>1, PruneIsRecent, AgainIsMore DEF Noted
  <2> QED
    BY <1>4, <1>7, <2>1 DEF Lists
<1>9. /\ stamped' \in Lists /\ stamped'[o] = More(stamped[o], clock)
      /\ \A q \in Operators \ {o} : stamped'[q] = stamped[q]
  <2>1. stamped' = [stamped EXCEPT ![o] = More(stamped[o], clock)]
    BY <1>1, AgainIsMore
  <2> QED
    BY <1>6, <1>7, <2>1 DEF Lists
<1>10. TypeOK'
  BY <1>1, <1>2, <1>4, <1>8, <1>9 DEF TypeOK
<1>11. \A q \in Operators : Running(q)' = Running(q)
  BY <1>1 DEF Running
<1>12. Good(kept, stamped[o], StampWindow, clock) /\ Cardinality(kept) \in Nat
  BY <1>2, <1>5, GoodPruned, RecentNumbered, Constants DEF Good
<1>13. Good(stamps'[o], stamped'[o], StampWindow, clock)
  BY <1>2, <1>8, <1>9, <1>12, GoodMore, Constants
<1>14. Bounded(stamped'[o], StampWindow, StampMax, clock)
  <2>1. Recent(kept, StampWindow, clock) = kept
    BY DEF Recent
  <2>2. Cardinality(Recent(kept, StampWindow, clock)) + 1 <= StampMax
    BY <1>1, <1>12, <2>1, Constants
  <2>3. Bounded(stamped[o], StampWindow, StampMax, clock)
    BY <1>3 DEF BoundsOK
  <2> QED
    BY <1>2, <1>9, <1>12, <2>2, <2>3, BoundedMore, Constants
<1>15. Sound(o)'
  BY <1>1, <1>3, <1>11, <1>13, <1>14 DEF Sound, ListsOK, BoundsOK, BlockOK, PromiseOK, RoomOK
<1>16. ASSUME NEW q \in Operators \ {o} PROVE Sound(q)'
  BY <1>1, <1>3, <1>8, <1>9, <1>11 DEF Sound, ListsOK, BoundsOK, BlockOK, PromiseOK, RoomOK
<1> QED
  BY <1>10, <1>15, <1>16 DEF IInv

\* A lookup goes on, or ends without a failure.
LEMMA GoOnStep ==
    ASSUME IInv, NEW s \in Slots, Remote(s) \/ Found(s)
    PROVE  IInv'
<1>1. TypeOK /\ UNCHANGED <<maps, ghosts, clock>>
  BY DEF IInv, Remote, Found
<1>2. running \in [Slots -> {Idle} \cup [operator : Operators, at : {"remote", "token"}]]
  BY <1>1 DEF TypeOK
<1>3. running[s] # Idle /\ running[s] \in [operator : Operators, at : {"remote", "token"}]
  BY <1>2 DEF Remote, Found, Idle
<1>4. \/ running' = [running EXCEPT ![s] = [operator |-> running[s].operator, at |-> "token"]]
      \/ running' = [running EXCEPT ![s] = Idle]
  BY <1>2, <1>3 DEF Remote, Found
<1>5. running' \in [Slots -> {Idle} \cup [operator : Operators, at : {"remote", "token"}]]
  BY <1>2, <1>3, <1>4
<1>6. TypeOK'
  BY <1>1, <1>5 DEF TypeOK, maps, ghosts
<1>7. ASSUME NEW q \in Operators PROVE Running(q)' \subseteq Running(q)
  BY <1>2, <1>3, <1>4 DEF Running
<1>8. ASSUME NEW q \in Operators PROVE Sound(q)'
  <2>1. /\ ListsOK(lookups[q], failures[q], stamps[q], q, clock)' /\ BoundsOK(q)'
        /\ BlockOK(lookups[q], failures[q], blocked[q], clock)'
        /\ PromiseOK(lookups[q], blocked[q], promised[q])'
    BY <1>1 DEF IInv, Sound, ListsOK, BoundsOK, BlockOK, PromiseOK, maps, ghosts
  <2>2. Cardinality(Running(q)') \in Nat /\ Cardinality(Running(q)') <= Cardinality(Running(q))
    BY <1>7, RunningCount, FS_Subset, FS_CardinalityType
  <2>3. Cardinality(Recent(failures[q], FailureWindow, clock)) \in Nat
    BY <1>1, Typed, RecentNumbered, Constants DEF IInv, Sound, ListsOK, Good
  <2>4. RoomOK(failures[q], Running(q), clock)'
    BY <1>1, <2>2, <2>3, RunningCount, Constants DEF IInv, Sound, RoomOK, maps
  <2> QED
    BY <2>1, <2>4 DEF Sound
<1> QED
  BY <1>6, <1>8 DEF IInv

\* A token is not found.
LEMMA NotFoundStep ==
    ASSUME IInv, NEW s \in Slots, NotFound(s), NEW o \in Operators, running[s].operator = o
    PROVE  IInv'
<1> DEFINE kept == Recent(failures[o], FailureWindow, clock)
           recent == More(kept, clock)
<1>1. /\ running[s].at = "token"
      /\ failures' = [failures EXCEPT ![o] = recent]
      /\ blocked' = IF Cardinality(recent) >= FailureMax
                    THEN [blocked EXCEPT ![o] = clock + Block] ELSE blocked
      /\ running' = [running EXCEPT ![s] = Idle]
      /\ guessed' = [guessed EXCEPT ![o] = More(guessed[o], clock)]
      /\ promised' = [promised EXCEPT ![o] = Unpromised]
      /\ UNCHANGED <<lookups, stamps, lastSweep, passed, stamped, clock>>
  BY PruneIsRecent, AgainIsMore DEF NotFound, FailuresReached
<1>2. TypeOK /\ clock \in Nat /\ clock <= MaxTime
  BY Typed DEF IInv
<1>3. running \in [Slots -> {Idle} \cup [operator : Operators, at : {"remote", "token"}]]
  BY <1>2 DEF TypeOK
<1>4. running[s] # Idle
  BY <1>1, <1>3 DEF Idle
<1>5. Sound(o)
  BY <1>4 DEF IInv
<1>6. Good(failures[o], guessed[o], FailureWindow, clock)
  BY <1>5 DEF Sound, ListsOK
<1>7. /\ failures \in Lists /\ guessed \in Lists
      /\ failures[o] \in SUBSET Entry /\ guessed[o] \in SUBSET Entry
  BY <1>2, <1>4, Typed DEF Lists
<1>8. recent \in SUBSET Entry /\ More(guessed[o], clock) \in SUBSET Entry
  BY <1>2, <1>6, <1>7, KeptType, Constants
<1> HIDE DEF recent
<1>9. /\ failures' \in Lists /\ failures'[o] = recent
      /\ \A q \in Operators \ {o} : failures'[q] = failures[q]
  BY <1>1, <1>4, <1>7, <1>8 DEF Lists
<1>10. /\ guessed' \in Lists /\ guessed'[o] = More(guessed[o], clock)
       /\ \A q \in Operators \ {o} : guessed'[q] = guessed[q]
  BY <1>1, <1>4, <1>7, <1>8 DEF Lists
<1>11. /\ blocked \in [Operators -> 0..MaxTime + Block] /\ blocked[o] \in Nat
       /\ blocked' \in [Operators -> 0..MaxTime + Block]
       /\ blocked'[o] = IF Cardinality(recent) >= FailureMax THEN clock + Block ELSE blocked[o]
       /\ \A q \in Operators \ {o} : blocked'[q] = blocked[q]
  BY <1>1, <1>2, <1>4, Constants DEF TypeOK
<1>12. /\ promised' \in [Operators -> {Unpromised} \cup 0..MaxTime + Block]
       /\ promised'[o] = Unpromised
       /\ \A q \in Operators \ {o} : promised'[q] = promised[q]
  BY <1>1, <1>2, <1>4 DEF TypeOK
<1>13. running' \in [Slots -> {Idle} \cup [operator : Operators, at : {"remote", "token"}]]
  BY <1>1, <1>3
<1>14. TypeOK'
  BY <1>1, <1>2, <1>9, <1>10, <1>11, <1>12, <1>13 DEF TypeOK
<1>15. s \in Running(o) /\ Running(o)' = Running(o) \ {s}
  BY <1>1, <1>3, <1>4 DEF Running
<1>16. \A q \in Operators \ {o} : Running(q)' = Running(q)
  BY <1>1, <1>3, <1>4 DEF Running
\* The counts.
<1> DEFINE count == Cardinality(kept)
<1>17. Good(kept, guessed[o], FailureWindow, clock) /\ count \in Nat
  BY <1>2, <1>6, GoodPruned, RecentNumbered, Constants DEF Good
<1>18. Recent(kept, FailureWindow, clock) = kept
  BY DEF Recent
<1>19. /\ Good(recent, guessed'[o], FailureWindow, clock)
       /\ Cardinality(Recent(recent, FailureWindow, clock)) = count + 1
       /\ Cardinality(recent) = count + 1
  <2>1. Good(recent, guessed'[o], FailureWindow, clock)
    BY <1>2, <1>10, <1>17, GoodMore, Constants DEF recent
  <2>2. Cardinality(Recent(recent, FailureWindow, clock)) = count + 1
    <3> HIDE DEF kept
    <3>1. Cardinality(Recent(More(kept, clock), FailureWindow, clock))
            = Cardinality(Recent(kept, FailureWindow, clock)) + 1
      BY <1>2, <1>17, GoodMore, Constants
    <3> QED
      BY <1>18, <3>1 DEF recent
  <2>3. Cardinality(recent) = count + 1
    BY <1>2, <1>17, MoreNumbered DEF recent, Good
  <2> QED
    BY <2>1, <2>2, <2>3
<1>20. /\ Cardinality(Running(o)) \in Nat /\ Cardinality(Running(o)) >= 1
       /\ Cardinality(Running(o)') = Cardinality(Running(o)) - 1
       /\ Cardinality(Running(o)) <= Cardinality(Slots)
  <2>1. IsFiniteSet(Running(o)) /\ Cardinality(Running(o)) \in Nat
    BY RunningCount
  <2>2. Cardinality(Running(o)) # 0
    BY <1>15, <2>1, FS_EmptySet
  <2>3. Cardinality(Running(o)') = Cardinality(Running(o)) - 1
    BY <1>15, <2>1, FS_RemoveElement
  <2> QED
    BY <2>1, <2>2, <2>3, RunningCount
<1>21. count + 1 + Cardinality(Running(o)') <= Guesses
  <2>1. FailureMax <= count => count + Cardinality(Running(o)) <= Guesses
    BY <1>5 DEF Sound, RoomOK
  <2> QED
    BY <1>17, <1>20, <2>1, Constants DEF Guesses
<1> HIDE DEF count
<1>22. Sound(o)'
  <2>1. ListsOK(lookups[o], failures[o], stamps[o], o, clock)'
    BY <1>1, <1>5, <1>9, <1>19 DEF Sound, ListsOK
  <2>2. Bounded(guessed'[o], FailureWindow, Guesses, clock)
    <3>1. Cardinality(Recent(kept, FailureWindow, clock)) + 1 <= Guesses
      BY <1>17, <1>18, <1>20, <1>21, Constants DEF count
    <3>2. Bounded(guessed[o], FailureWindow, Guesses, clock)
      BY <1>5 DEF Sound, BoundsOK
    <3> QED
      BY <1>2, <1>10, <1>17, <3>1, <3>2, BoundedMore, Constants
  <2>3. BoundsOK(o)'
    BY <1>1, <1>5, <2>2 DEF Sound, BoundsOK
  <2>4. /\ \A e \in lookups[o] : e.at \in Nat /\ e.at <= clock
        /\ \A e \in Recent(recent, FailureWindow, clock) : e.at \in Nat /\ e.at <= clock
    BY <1>5, <1>19 DEF Sound, ListsOK, Good, Numbered, Recent
  <2>5. BlockOK(lookups[o], failures[o], blocked[o], clock)'
    <3>1. CASE count + 1 >= FailureMax
      <4>1. blocked'[o] = clock + Block
        BY <1>11, <1>19, <3>1
      <4>2. \A e \in lookups[o] : e.at + LookupWindow <= clock + Block
        BY <1>2, <2>4, Constants
      <4>3. \A e \in Recent(recent, FailureWindow, clock) : e.at + Block <= clock + Block
        BY <1>2, <2>4, Constants
      <4> QED
        BY <1>1, <1>2, <1>9, <4>1, <4>2, <4>3, Constants DEF BlockOK
    <3>2. CASE ~(count + 1 >= FailureMax)
      <4>1. blocked'[o] = blocked[o]
        BY <1>11, <1>19, <3>2
      <4>2. ~(FailureMax <= Cardinality(Recent(recent, FailureWindow, clock)))
        BY <1>17, <1>19, <3>2, Constants
      <4> QED
        BY <1>1, <1>5, <1>9, <4>1, <4>2 DEF Sound, BlockOK
    <3> QED
      BY <3>1, <3>2
  <2>6. PromiseOK(lookups[o], blocked[o], promised[o])'
    BY <1>12 DEF PromiseOK
  <2>7. RoomOK(failures[o], Running(o), clock)'
    BY <1>1, <1>9, <1>19, <1>21 DEF RoomOK
  <2> QED
    BY <2>1, <2>3, <2>5, <2>6, <2>7 DEF Sound
<1>23. ASSUME NEW q \in Operators \ {o} PROVE Sound(q)'
  BY <1>1, <1>9, <1>10, <1>11, <1>12, <1>16
     DEF IInv, Sound, ListsOK, BoundsOK, BlockOK, PromiseOK, RoomOK
<1> QED
  BY <1>14, <1>22, <1>23 DEF IInv

\* A process that has seen nothing.
LEMMA NothingSound ==
    ASSUME NEW o \in Operators, clock \in Nat, running = [s \in Slots |-> Idle],
           lookups[o] = {}, failures[o] = {}, stamps[o] = {}, blocked[o] = 0,
           passed[o] = {}, guessed[o] = {}, stamped[o] = {}, promised[o] = Unpromised
    PROVE  Sound(o)
<1>1. /\ ListsOK({}, {}, {}, o, clock)
      /\ BoundsOK(o)
  BY BoundedNone, Constants DEF ListsOK, BoundsOK
<1>2. Recent({}, FailureWindow, clock) = {} /\ Cardinality({}) = 0
  BY FS_EmptySet DEF Recent
<1>3. 0 <= clock + Block /\ ~(FailureMax <= 0)
  BY Constants
<1>4. BlockOK({}, {}, 0, clock) /\ PromiseOK({}, 0, Unpromised) /\ RoomOK({}, Running(o), clock)
  BY <1>2, <1>3 DEF BlockOK, PromiseOK, RoomOK
<1> QED
  BY <1>1, <1>4 DEF Sound

LEMMA NothingType ==
    /\ Nothing \in Lists /\ \A o \in Operators : Nothing[o] = {}
    /\ [o \in Operators |-> 0] \in [Operators -> 0..MaxTime + Block]
BY Constants DEF Nothing, Lists

LEMMA InvInit == Init => IInv
<1> SUFFICES ASSUME Init PROVE IInv
  OBVIOUS
<1>1. TypeOK
  BY NothingType, Constants DEF Init, TypeOK
<1>2. ASSUME NEW o \in Operators PROVE Sound(o)
  BY NothingType, NothingSound DEF Init
<1> QED
  BY <1>1, <1>2 DEF IInv

LEMMA RestartStep ==
    ASSUME IInv, Restart
    PROVE  IInv'
<1>1. clock' = clock /\ clock \in Nat /\ clock \in 0..MaxTime
  BY Typed, Constants DEF Restart, IInv
<1>2. TypeOK'
  BY <1>1, NothingType, Constants DEF Restart, TypeOK
<1>3. ASSUME NEW o \in Operators PROVE Sound(o)'
  <2>1. /\ lookups'[o] = {} /\ failures'[o] = {} /\ stamps'[o] = {} /\ blocked'[o] = 0
        /\ passed'[o] = {} /\ guessed'[o] = {} /\ stamped'[o] = {} /\ promised'[o] = Unpromised
        /\ running' = [s \in Slots |-> Idle]
    BY NothingType DEF Restart
  <2>2. Recent({}, FailureWindow, clock) = {} /\ Cardinality({}) = 0
    BY FS_EmptySet DEF Recent
  <2>3. ListsOK(lookups[o], failures[o], stamps[o], o, clock)' /\ BoundsOK(o)'
    BY <1>1, <2>1, BoundedNone, Constants DEF ListsOK, BoundsOK
  <2>4. /\ BlockOK(lookups[o], failures[o], blocked[o], clock)'
        /\ PromiseOK(lookups[o], blocked[o], promised[o])'
        /\ RoomOK(failures[o], Running(o), clock)'
    <3>1. 0 <= clock' + Block /\ ~(FailureMax <= 0)
      BY <1>1, Constants
    <3> QED
      BY <1>1, <2>1, <2>2, <3>1 DEF BlockOK, PromiseOK, RoomOK
  <2> QED
    BY <2>3, <2>4 DEF Sound
<1> QED
  BY <1>2, <1>3 DEF IInv

LEMMA TickStep ==
    ASSUME IInv, Tick
    PROVE  IInv'
<1>1. /\ clock' = clock + 1 /\ clock < MaxTime
      /\ UNCHANGED <<maps, ghosts, running>>
  BY DEF Tick
<1>2. TypeOK /\ clock \in Nat
  BY Typed DEF IInv
<1>3. TypeOK'
  BY <1>1, <1>2, Constants DEF TypeOK, maps, ghosts
<1>4. ASSUME NEW o \in Operators PROVE Sound(o)'
  <2>1. Sound(o)
    BY DEF IInv
  <2>2. /\ ListsOK(lookups[o], failures[o], stamps[o], o, clock + 1)
        /\ Bounded(passed[o], LookupWindow, LookupMax, clock + 1)
        /\ Bounded(guessed[o], FailureWindow, Guesses, clock + 1)
        /\ Bounded(stamped[o], StampWindow, StampMax, clock + 1)
    BY <1>2, <2>1, GoodLater, BoundedLater, Constants DEF Sound, ListsOK, BoundsOK
  <2>3. /\ Recent(failures[o], FailureWindow, clock + 1)
             \subseteq Recent(failures[o], FailureWindow, clock)
        /\ Cardinality(Recent(failures[o], FailureWindow, clock + 1))
             <= Cardinality(Recent(failures[o], FailureWindow, clock))
        /\ Cardinality(Recent(failures[o], FailureWindow, clock)) \in Nat
        /\ Cardinality(Recent(failures[o], FailureWindow, clock + 1)) \in Nat
    BY <1>2, <2>1, <2>2, GoodLater, RecentNumbered, Constants DEF Sound, ListsOK, Good
  <2>4. Running(o)' = Running(o) /\ Cardinality(Running(o)) \in Nat
    BY <1>1, RunningCount DEF Running
  <2>5. blocked[o] \in Nat
    BY <1>2, Typed
  <2>6. BlockOK(lookups[o], failures[o], blocked[o], clock + 1)
    BY <1>2, <2>1, <2>3, <2>5, Constants DEF Sound, BlockOK
  <2>7. RoomOK(failures[o], Running(o), clock + 1)
    BY <2>1, <2>3, <2>4, Constants DEF Sound, RoomOK
  <2> QED
    BY <1>1, <2>1, <2>2, <2>4, <2>6, <2>7
       DEF Sound, ListsOK, BoundsOK, BlockOK, PromiseOK, RoomOK, maps, ghosts
<1> QED
  BY <1>3, <1>4 DEF IInv

LEMMA InvNext == IInv /\ [Next]_vars => IInv'
<1> SUFFICES ASSUME IInv, [Next]_vars PROVE IInv'
  OBVIOUS
<1>1. CASE UNCHANGED vars
  BY <1>1 DEF vars, maps, ghosts, IInv, TypeOK, Sound, ListsOK, BoundsOK, BlockOK, PromiseOK,
              RoomOK, Running
<1>2. ASSUME NEW s \in Slots, NotFound(s) PROVE IInv'
  <2>1. running[s].operator \in Operators
    BY <1>2 DEF IInv, TypeOK, NotFound, Idle
  <2> QED
    BY <1>2, <2>1, NotFoundStep
<1> QED
  BY <1>1, <1>2, BeginStep, RefuseStep, StampStep, GoOnStep, RestartStep, TickStep DEF Next

----------------------------------------------------------------------------
\* Lists, histories and limits hold together in every reachable state.
THEOREM Invariance == Spec => []IInv
BY InvInit, InvNext, PTL DEF Spec

\* Everything keeps its type: in particular no block and no promise is
\* further away than the length of a block.
THEOREM TypeCorrect == Spec => []TypeOK
<1>1. IInv => TypeOK
  BY DEF IInv
<1> QED
  BY <1>1, Invariance, PTL

\* No process lets an operator past a check more often than the limit, in
\* any window: what it prunes and sweeps never counts.
THEOREM NoWindowOverflows == Spec => []WindowsHold
<1>1. IInv => WindowsHold
  BY DEF IInv, Sound, BoundsOK, Bounded, WindowsHold
<1> QED
  BY <1>1, Invariance, PTL

\* Lookups that were under way when the limit was reached are all that an
\* operator learns beyond it.
THEOREM FewGuesses == Spec => []GuessesBounded
<1>1. IInv => GuessesBounded
  BY DEF IInv, Sound, BoundsOK, Bounded, GuessesBounded, Guesses
<1> QED
  BY <1>1, Invariance, PTL

\* Waiting as long as one was told is enough.
THEOREM WaitingIsEnough == Spec => []WaitingPays
<1>1. ASSUME IInv PROVE WaitingPays
  <2> SUFFICES ASSUME NEW o \in Operators, promised[o] # Unpromised, clock >= promised[o]
               PROVE  LookupAllowed(o, Sweep)
    BY DEF WaitingPays
  <2>1. TypeOK /\ clock \in Nat /\ promised[o] \in Nat /\ Sound(o)
    BY <1>1, Typed, Constants DEF IInv, TypeOK
  <2>2. /\ PromiseOK(Sweep.lookups[o], Sweep.blocked[o], promised[o])
        /\ Sweep.blocked[o] \in Nat
        /\ Numbered(Sweep.lookups[o], clock)
    BY <2>1, SweptSound DEF ListsOK, Good
  <2>3. clock >= Sweep.blocked[o]
    BY <2>1, <2>2 DEF PromiseOK
  <2>4. \A e \in Sweep.lookups[o] : e.at \in Nat /\ e.at + LookupWindow <= promised[o]
    BY <2>2 DEF PromiseOK, Numbered
  <2>5. Prune(Sweep.lookups[o], LookupWindow) = {}
    BY <2>1, <2>4, Constants DEF Prune
  <2>6. Cardinality(Prune(Sweep.lookups[o], LookupWindow)) < LookupMax
    BY <2>5, FS_EmptySet, Constants
  <2> QED
    BY <2>3, <2>6 DEF LookupAllowed
<1> QED
  BY <1>1, Invariance, PTL

\* While a block runs no step but a restart shortens it or lets its
\* operator look anything up.
THEOREM BlocksAreKept == Spec => BlocksHold
<1>1. ASSUME IInv, [Next]_vars PROVE [BlockRuns \/ Restart]_vars
  <2> SUFFICES ASSUME NEW o \in Operators, clock < blocked[o], Next, ~Restart
               PROVE  passed'[o] = passed[o] /\ blocked'[o] >= blocked[o]
    BY <1>1 DEF BlockRuns
  <2>1. /\ TypeOK /\ clock \in Nat /\ blocked[o] \in Nat /\ blocked[o] <= clock + Block
        /\ blocked \in [Operators -> 0..MaxTime + Block] /\ passed \in Lists
    BY <1>1, Typed DEF IInv, TypeOK, Sound, BlockOK
  <2>2. /\ Sweep.blocked[o] = blocked[o]
        /\ Sweep.blocked \in [Operators -> 0..MaxTime + Block]
    BY <2>1, SweepCases, SweepType
  <2>3. ASSUME NEW q \in Operators, NEW s \in Slots, BeginLookup(s, q)
        PROVE  passed'[o] = passed[o] /\ blocked'[o] >= blocked[o]
    <3>1. /\ clock >= Sweep.blocked[q] /\ blocked' = Sweep.blocked
          /\ passed' = [passed EXCEPT ![q] = Again(@)]
      BY <2>3 DEF BeginLookup, LookupAllowed
    <3>2. q # o
      BY <2>1, <2>2, <3>1
    <3> QED
      BY <2>1, <2>2, <3>1, <3>2 DEF Lists
  <2>4. ASSUME NEW q \in Operators, RefuseLookup(q)
        PROVE  passed'[o] = passed[o] /\ blocked'[o] >= blocked[o]
    <3>1. /\ blocked' = IF clock < Sweep.blocked[q] THEN Sweep.blocked
                        ELSE [Sweep.blocked EXCEPT ![q] = clock + Block]
          /\ passed' = passed
      BY <2>4 DEF RefuseLookup
    <3> QED
      BY <2>1, <2>2, <3>1
  <2>5. ASSUME NEW q \in Operators, CheckStamp(q)
        PROVE  passed'[o] = passed[o] /\ blocked'[o] >= blocked[o]
    BY <2>1, <2>2, <2>5 DEF CheckStamp
  <2>6. ASSUME NEW s \in Slots, Remote(s) \/ Found(s)
        PROVE  passed'[o] = passed[o] /\ blocked'[o] >= blocked[o]
    BY <2>1, <2>6 DEF Remote, Found, maps, ghosts
  <2>7. ASSUME NEW s \in Slots, NotFound(s)
        PROVE  passed'[o] = passed[o] /\ blocked'[o] >= blocked[o]
    <3>1. /\ passed' = passed
          /\ \/ blocked' = blocked
             \/ blocked' = [blocked EXCEPT ![running[s].operator] = clock + Block]
      BY <2>7 DEF NotFound
    <3>2. CASE blocked' = blocked
      BY <2>1, <3>1, <3>2
    <3>3. CASE blocked' = [blocked EXCEPT ![running[s].operator] = clock + Block]
      <4>1. running[s].operator = o => blocked'[o] = clock + Block
        BY <2>1, <3>3
      <4>2. running[s].operator # o => blocked'[o] = blocked[o]
        BY <2>1, <3>3
      <4> QED
        BY <2>1, <3>1, <4>1, <4>2
    <3> QED
      BY <3>1, <3>2, <3>3
  <2>8. ASSUME Tick PROVE passed'[o] = passed[o] /\ blocked'[o] >= blocked[o]
    BY <2>1, <2>8 DEF Tick, maps, ghosts
  <2> QED
    BY <2>3, <2>4, <2>5, <2>6, <2>7, <2>8 DEF Next
<1> QED
  BY <1>1, Invariance, PTL DEF Spec, BlocksHold
==============================================================================
