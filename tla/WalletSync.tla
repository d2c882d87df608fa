----------------------------- MODULE WalletSync -----------------------------
(***************************************************************************)
(* From a committed movement, or a promotion sent, to the cards in the     *)
(* customers' phones: notifyWalletOfTransaction (lib/wallet/notify.ts),    *)
(* notifyWalletOfPromoBroadcast (lib/wallet/promoNotify.ts), the push to   *)
(* APNs (apple/apns.ts), the PassKit web service the phone then asks       *)
(* (api/wallet/apple/logic.ts) and the object kept by Google               *)
(* (google/signer.ts).                                                     *)
(*                                                                         *)
(* Movements and promotions are numbered together.  A balance is the       *)
(* number of the customer's last movement; a card, on a phone or at        *)
(* Google, shows the last number that was part of what it was built from.  *)
(***************************************************************************)
EXTENDS Integers, Sequences, FiniteSets, FiniteSetsExt

CONSTANTS
    Customers,
    Devices,
    ApplePasses,    \* customers with a wallet_passes row for Apple
    None,           \* no pass
    GooglePasses,   \* customers with a wallet_passes row for Google
    Attempts,       \* RETRY_DELAYS_MS.length + 1
    TicksPerMs,     \* the database's clock is finer than a JavaScript Date
    Movers,         \* bound: the customers that move, and whose cards are deleted
    MaxMoves,       \* bound: movements and promotions
    MaxPromos,      \* bound: promotions among them
    MaxChanges      \* bound: cards a phone deletes and tokens it is given

ASSUME PassesAssumption == (ApplePasses \cup GooglePasses \cup Movers) \subseteq Customers
ASSUME BoundsAssumption ==
    None \notin Customers /\ {Attempts, TicksPerMs, MaxMoves} \subseteq Nat \ {0} /\ {MaxPromos, MaxChanges} \subseteq Nat

VARIABLES
    balance,        \* the last committed movement of each customer
    promo,          \* the last promotion sent
    jobs,           \* notifications scheduled so far, the oldest first
    clock,          \* now() of the last transaction that began
    updatedAt,      \* wallet_passes.updated_at of the Apple passes
    registered,     \* device_registrations: the push token, 0 without a row
    phone,          \* what each phone knows
    due,            \* the last number a phone was last woken for, of each pass
    object          \* the loyalty objects at Google

vars == <<balance, promo, jobs, clock, updatedAt, registered, phone, due, object>>

Absent == -1        \* no card, no object, no tag
Versions == 0..MaxMoves
Push == [token : 0..MaxChanges + 1, attempt : 0..Attempts]     \* 0 when over
Job == [customer : Customers \cup {None},
        apple : {"scheduled", "begun", "bumped", "pushing", "over"},
        started : 0..MaxMoves, overtaken : SUBSET ApplePasses,
        push : [Devices -> [ApplePasses -> Push]],
        google : {"scheduled", "inserting", "patching", "ok", "over"},
        snapshot : Versions \cup {Absent}, attempt : 0..Attempts,
        alone : BOOLEAN]
Phone == [token : 1..MaxChanges + 1, changes : 0..MaxChanges, alerted : BOOLEAN,
          since : 0..MaxMoves \cup {Absent}, wants : SUBSET ApplePasses,
          fetching : ApplePasses \cup {None}, fetched : Versions,
          shown : [ApplePasses -> Versions \cup {Absent}]]

\* The Apple passes a job is about: those of the whole business when it is
\* a promotion's.
PassesOf(customer) == IF customer = None THEN ApplePasses ELSE ApplePasses \cap {customer}
Passes(j) == PassesOf(jobs[j].customer)

GoogleOver(j) == jobs[j].google \in {"ok", "over"}
Over(j) == jobs[j].apple = "over" /\ GoogleOver(j)

----------------------------------------------------------------------------
(* A movement or a promotion commits and its notification is scheduled.    *)

NoPush == [token |-> 0, attempt |-> 0]
NoPushes == [d \in Devices |-> [c \in ApplePasses |-> NoPush]]

\* What a part of a job held is dropped when it is over, for whatever reason.
AppleEnds(job) ==
    [job EXCEPT !.apple = "over", !.started = 0, !.overtaken = {}, !.push = NoPushes]
GoogleAccepts(job) == [job EXCEPT !.google = "ok", !.snapshot = Absent, !.attempt = 0]
GoogleEnds(job) == [GoogleAccepts(job) EXCEPT !.google = "over", !.alone = FALSE]

\* scheduleAfterResponse.  Passes are neither made nor removed meanwhile, so
\* a part that finds none is over at once.  "alone" records whether another
\* update of the customer's object is or becomes active before this one ends.
Scheduled(customer, google, alone) ==
    [customer |-> customer,
     apple |-> IF PassesOf(customer) = {} THEN "over" ELSE "scheduled",
     started |-> 0, overtaken |-> {}, push |-> NoPushes,
     google |-> IF google THEN "scheduled" ELSE "over",
     snapshot |-> Absent, attempt |-> 0, alone |-> google /\ alone]

Movement(c) ==
    LET busy == \E j \in DOMAIN jobs : jobs[j].customer = c /\ ~GoogleOver(j)
        old  == [j \in DOMAIN jobs |->
                    [jobs[j] EXCEPT !.alone = @ /\ (jobs[j].customer # c \/ GoogleOver(j))]]
    IN  /\ Len(jobs) < MaxMoves
        /\ balance' = [balance EXCEPT ![c] = Len(jobs) + 1]
        /\ jobs' = Append(old, Scheduled(c, c \in GooglePasses, ~busy))
        /\ UNCHANGED <<promo, clock, updatedAt, registered, phone, due, object>>

\* The row of promo_broadcasts has committed.  At Google a promotion is a
\* message to the class (OwnerConsole) and no object changes.
Promotion ==
    /\ Len(jobs) < MaxMoves
    /\ Cardinality({j \in DOMAIN jobs : jobs[j].customer = None}) < MaxPromos
    /\ promo' = Len(jobs) + 1
    /\ jobs' = Append(jobs, Scheduled(None, FALSE, FALSE))
    /\ UNCHANGED <<balance, clock, updatedAt, registered, phone, due, object>>

\* The process ends: what it had not finished is not taken up again.
Lose(j) ==
    /\ ~Over(j)
    /\ LET job == AppleEnds(jobs[j])
       IN  jobs' = [jobs EXCEPT ![j] = IF GoogleOver(j) THEN job ELSE GoogleEnds(job)]
    /\ UNCHANGED <<balance, promo, clock, updatedAt, registered, phone, due, object>>

----------------------------------------------------------------------------
(* notifyAppleDevices, notifyAppleDevicesForBusiness: one transaction,     *)
(* then a push for each registration of its passes.                        *)

\* The transaction begins.  The trigger on wallet_passes dates the row with
\* now(), which is this instant whatever the statement says.
BeginBump(j) ==
    /\ jobs[j].apple = "scheduled"
    /\ clock' = clock + 1
    /\ jobs' = [jobs EXCEPT ![j].apple = "begun", ![j].started = clock + 1]
    /\ UNCHANGED <<balance, promo, updatedAt, registered, phone, due, object>>

\* UPDATE, which locks the rows, and the registrations of the passes.  (Two
\* promotions that lock in different orders are a deadlock, and one is lost.)
Bump(j) ==
    LET FirstPush(d, c) ==
            IF c \notin Passes(j) \/ registered[d][c] = 0 THEN NoPush
            ELSE [token |-> registered[d][c], attempt |-> 1]
    IN  /\ jobs[j].apple = "begun"
        /\ ~\E k \in DOMAIN jobs : Passes(k) \cap Passes(j) # {} /\ jobs[k].apple = "bumped"
        /\ jobs' = [jobs EXCEPT ![j].apple = "bumped",
               ![j].push = [d \in Devices |-> [c \in ApplePasses |-> FirstPush(d, c)]]]
        /\ UNCHANGED <<balance, promo, clock, updatedAt, registered, phone, due, object>>

\* Slip: the pushes go out and the pass keeps its date.
CommitWithoutBump(j) ==
    /\ jobs[j].apple = "bumped"
    /\ jobs' = [jobs EXCEPT ![j].apple = "pushing"]
    /\ UNCHANGED <<balance, promo, clock, updatedAt, registered, phone, due, object>>

\* COMMIT.  A bump that began earlier and is still open will date its passes
\* before another one a phone may already have seen: there it is overtaken.
\* So is a bump of a pass that is then dated back, for a phone that has seen
\* a later date.
CommitBump(j) ==
    LET Overtaken(k) ==
            IF jobs[k].apple \in {"begun", "bumped"} /\ jobs[k].started < jobs[j].started
            THEN {c \in Passes(k) : Passes(j) # {c}} ELSE {}
        back(d) == {c \in Passes(j) :
                      jobs[j].started < updatedAt[c] /\ jobs[j].started <= phone[d].since}
    IN  /\ jobs[j].apple = "bumped"
        /\ updatedAt' = [c \in ApplePasses |->
                           IF c \in Passes(j) THEN jobs[j].started ELSE updatedAt[c]]
        /\ jobs' = [k \in DOMAIN jobs |->
              IF k = j THEN [jobs[k] EXCEPT !.apple = "pushing"]
              ELSE IF jobs[k].apple = "pushing"
                   THEN [jobs[k] EXCEPT
                          !.overtaken = @ \cup (Passes(k) \cap UNION {back(d) : d \in Devices})]
                   ELSE [jobs[k] EXCEPT !.overtaken = @ \cup Overtaken(k)]]
        /\ due' = [d \in Devices |->
                     [c \in ApplePasses |-> IF c \in back(d) THEN 0 ELSE due[d][c]]]
        /\ UNCHANGED <<balance, promo, clock, registered, phone, object>>

\* Promise.all over the registrations, each with its own retries and catch.
PushesOver(j) ==
    /\ jobs[j].apple = "pushing"
    /\ \A d \in Devices, c \in ApplePasses : jobs[j].push[d][c] = NoPush
    /\ jobs' = [jobs EXCEPT ![j] = AppleEnds(@)]
    /\ UNCHANGED <<balance, promo, clock, updatedAt, registered, phone, due, object>>

----------------------------------------------------------------------------
(* One attempt of defaultHttp2Post, within withRetries.                    *)

Attempting(j, d, c) == jobs[j].apple = "pushing" /\ jobs[j].push[d][c] # NoPush

\* Slip: one attempt too many.
MoreAttempts(p) == p.attempt <= Attempts

\* Is another attempt left?
Retries(p) == p.attempt < Attempts

\* The error of the attempt goes to withRetries, which waits and connects
\* again, or gives up and logs.
Failed(p) == IF Retries(p) THEN [p EXCEPT !.attempt = @ + 1] ELSE NoPush

\* Slip: the timers of the first attempt are not set again.
FirstTimeOut(j, d, c) ==
    /\ Attempting(j, d, c) /\ jobs[j].push[d][c].attempt = 1
    /\ jobs' = [jobs EXCEPT ![j].push[d][c] = Failed(@)]
    /\ UNCHANGED <<balance, promo, clock, updatedAt, registered, phone, due, object>>

\* The timer of the connection or that of the request, or an error of either.
TimeOut(j, d, c) ==
    /\ Attempting(j, d, c)
    /\ jobs' = [jobs EXCEPT ![j].push[d][c] = Failed(@)]
    /\ UNCHANGED <<balance, promo, clock, updatedAt, registered, phone, due, object>>

\* APNs has the request.  Its answer may be a success, a rejection, or be
\* lost; the phone is woken only if the token is still its own, and a push
\* that was accepted may never arrive.
Sent(j, d, c) ==
    /\ Attempting(j, d, c)
    /\ \E wakes, accepted \in BOOLEAN :
         /\ wakes => jobs[j].push[d][c].token = phone[d].token
         /\ jobs' = [jobs EXCEPT
                       ![j].push[d][c] = IF accepted THEN NoPush ELSE Failed(@)]
         /\ phone' = [phone EXCEPT ![d].alerted = @ \/ wakes]
         /\ due' = IF wakes /\ c \notin jobs[j].overtaken
                   THEN [due EXCEPT ![d][c] = Max({@, j})] ELSE due
    /\ UNCHANGED <<balance, promo, clock, updatedAt, registered, object>>

----------------------------------------------------------------------------
(* The phone and the web service.                                          *)

\* What a card of the customer shows: the stamps, and at its back the last
\* promotion.
Content(c) == Max({balance[c], promo})

\* registerDeviceForPass: one row for a phone and a pass, with its last token.
Register(d, c) ==
    /\ phone[d].shown[c] # Absent
    /\ registered[d][c] # phone[d].token
    /\ registered' = [registered EXCEPT ![d][c] = phone[d].token]
    /\ UNCHANGED <<balance, promo, jobs, clock, updatedAt, phone, due, object>>

\* unregisterDeviceForPass, some time after the card was deleted.
Unregister(d, c) ==
    /\ phone[d].shown[c] = Absent
    /\ registered[d][c] # 0
    /\ registered' = [registered EXCEPT ![d][c] = 0]
    /\ UNCHANGED <<balance, promo, jobs, clock, updatedAt, phone, due, object>>

\* The file of the download link is opened.
Install(d, c) ==
    /\ phone[d].shown[c] = Absent
    /\ phone' = [phone EXCEPT ![d].shown[c] = Content(c)]
    /\ UNCHANGED <<balance, promo, jobs, clock, updatedAt, registered, due, object>>

Delete(d, c) ==
    /\ phone[d].shown[c] # Absent
    /\ c \in Movers /\ phone[d].changes < MaxChanges
    /\ phone[d].fetching # c
    /\ phone' = [phone EXCEPT ![d].shown[c] = Absent, ![d].wants = @ \ {c},
                              ![d].changes = @ + 1]
    /\ UNCHANGED <<balance, promo, jobs, clock, updatedAt, registered, due, object>>

NewToken(d) ==
    /\ phone[d].changes < MaxChanges
    /\ phone' = [phone EXCEPT ![d].token = @ + 1, ![d].changes = @ + 1]
    /\ UNCHANGED <<balance, promo, jobs, clock, updatedAt, registered, due, object>>

\* toISOString keeps milliseconds.
Truncated(t) == t - (t % TicksPerMs)

\* lastUpdated: the latest date among the passes listed.
LastUpdated(serials) == Truncated(Max({updatedAt[c] : c \in serials}))

\* listUpdatedSerialsForDevice, then what the phone does with the answer.
Ask(d) ==
    LET serials == {c \in ApplePasses :
                      /\ registered[d][c] # 0
                      /\ phone[d].since = Absent \/ updatedAt[c] > phone[d].since}
    IN  /\ phone[d].alerted
        /\ phone' = [phone EXCEPT
              ![d].alerted = FALSE,
              ![d].since = IF serials = {} THEN @ ELSE LastUpdated(serials),
              ![d].wants = @ \cup {c \in serials : phone[d].shown[c] # Absent}]
        /\ UNCHANGED <<balance, promo, jobs, clock, updatedAt, registered, due, object>>

\* getLatestPass: the snapshot is read in a transaction, the file is built
\* after it.  A request that fails leaves the card for the phone to ask again.
Fetch(d, c) ==
    /\ c \in phone[d].wants /\ phone[d].fetching = None
    /\ phone' = [phone EXCEPT ![d].wants = @ \ {c}, ![d].fetching = c,
                              ![d].fetched = Content(c)]
    /\ UNCHANGED <<balance, promo, jobs, clock, updatedAt, registered, due, object>>

Show(d, c) ==
    /\ phone[d].fetching = c
    /\ phone' = [phone EXCEPT ![d].shown[c] = phone[d].fetched,
                              ![d].fetching = None, ![d].fetched = 0]
    /\ UNCHANGED <<balance, promo, jobs, clock, updatedAt, registered, due, object>>

----------------------------------------------------------------------------
(* notifyGoogleObject.                                                     *)

\* The snapshot is loaded once, before the first attempt.
LoadSnapshot(j) ==
    /\ jobs[j].google = "scheduled"
    /\ jobs' = [jobs EXCEPT ![j].google = "inserting", ![j].attempt = 1,
                            ![j].snapshot = balance[jobs[j].customer]]
    /\ UNCHANGED <<balance, promo, clock, updatedAt, registered, phone, due, object>>

\* An attempt fails, by itself or because its answer is lost.
GoogleFails(j) ==
    LET job == jobs[j]
    IN  jobs' = [jobs EXCEPT
                   ![j] = IF job.attempt < Attempts
                          THEN [job EXCEPT !.google = "inserting", !.attempt = @ + 1]
                          ELSE GoogleEnds(job)]

\* Slip: an object that exists is taken for one that is up to date.
InsertOnly(j) ==
    LET c == jobs[j].customer IN
    /\ jobs[j].google = "inserting"
    /\ \/ /\ object' = IF object[c] = Absent
                       THEN [object EXCEPT ![c] = jobs[j].snapshot] ELSE object
          /\ jobs' = [jobs EXCEPT ![j] = GoogleAccepts(@)]
       \/ GoogleFails(j) /\ UNCHANGED object
    /\ UNCHANGED <<balance, promo, clock, updatedAt, registered, phone, due>>

\* upsert, first half: an access token and a POST.  409 when it exists.
Insert(j) ==
    LET c == jobs[j].customer IN
    /\ jobs[j].google = "inserting"
    /\ \/ /\ object[c] = Absent
          /\ object' = [object EXCEPT ![c] = jobs[j].snapshot]
          /\ jobs' = [jobs EXCEPT ![j] = GoogleAccepts(@)] \/ GoogleFails(j)
       \/ /\ object[c] # Absent
          /\ jobs' = [jobs EXCEPT ![j].google = "patching"]
          /\ UNCHANGED object
       \/ GoogleFails(j) /\ UNCHANGED object
    /\ UNCHANGED <<balance, promo, clock, updatedAt, registered, phone, due>>

\* Second half: PATCH.
Patch(j) ==
    /\ jobs[j].google = "patching"
    /\ \/ /\ object' = [object EXCEPT ![jobs[j].customer] = jobs[j].snapshot]
          /\ jobs' = [jobs EXCEPT ![j] = GoogleAccepts(@)] \/ GoogleFails(j)
       \/ GoogleFails(j) /\ UNCHANGED object
    /\ UNCHANGED <<balance, promo, clock, updatedAt, registered, phone, due>>

\* The customer opens a save link.  It holds the object as of when the link
\* was built; Google keeps an object it already has.  Bound: only customers
\* that have moved save (a link built before that is version 0).
Save(c) ==
    /\ c \in GooglePasses /\ balance[c] > 0 /\ object[c] = Absent
    /\ \E v \in {0} \cup {j \in DOMAIN jobs : jobs[j].customer = c} : object' = [object EXCEPT ![c] = v]
    /\ UNCHANGED <<balance, promo, jobs, clock, updatedAt, registered, phone, due>>

----------------------------------------------------------------------------

\* Every phone starts with the cards of all Apple passes, registered.
Init ==
    /\ balance = [c \in Customers |-> 0]
    /\ promo = 0
    /\ jobs = <<>>
    /\ clock = 0
    /\ updatedAt = [c \in ApplePasses |-> 0]
    /\ registered = [d \in Devices |-> [c \in ApplePasses |-> 1]]
    /\ phone = [d \in Devices |->
                  [token |-> 1, changes |-> 0, alerted |-> FALSE, since |-> Absent,
                   wants |-> {}, fetching |-> None, fetched |-> 0,
                   shown |-> [c \in ApplePasses |-> 0]]]
    /\ due = [d \in Devices |-> [c \in ApplePasses |-> 0]]
    /\ object = [c \in Customers |-> Absent]

PushStep(j, d, c) == TimeOut(j, d, c) \/ Sent(j, d, c)
AppleStep(j) == BeginBump(j) \/ Bump(j) \/ CommitBump(j) \/ PushesOver(j)
GoogleStep(j) == LoadSnapshot(j) \/ Insert(j) \/ Patch(j)
PhoneStep(d) ==
    \/ NewToken(d) \/ Ask(d)
    \/ \E c \in ApplePasses :
         \/ Register(d, c) \/ Unregister(d, c) \/ Install(d, c)
         \/ Delete(d, c) \/ Fetch(d, c) \/ Show(d, c)

Next ==
    \/ Promotion
    \/ \E c \in Movers : Movement(c) \/ Save(c)
    \/ \E j \in DOMAIN jobs :
         \/ Lose(j) \/ AppleStep(j) \/ GoogleStep(j)
         \/ \E d \in Devices, c \in ApplePasses : PushStep(j, d, c)
    \/ \E d \in Devices : PhoneStep(d)

Spec == Init /\ [][Next]_vars

\* The event loop and the database go on, the timers of an attempt fire, and
\* a call to Google is answered or fails.  Nothing is assumed of APNs or of
\* the phones.
JobStep(j) ==
    /\ j \in DOMAIN jobs
    /\ AppleStep(j) \/ GoogleStep(j) \/ \E d \in Devices, c \in ApplePasses : TimeOut(j, d, c)

FairSpec == Spec /\ \A j \in 1..MaxMoves : WF_vars(JobStep(j))

----------------------------------------------------------------------------
(* Properties.                                                             *)

\* Every variable has its type: attempts stay within the retries allowed.
TypeOK ==
    /\ balance \in [Customers -> Versions]
    /\ promo \in Versions
    /\ jobs \in Seq(Job) /\ Len(jobs) <= MaxMoves
    /\ clock \in 0..MaxMoves
    /\ updatedAt \in [ApplePasses -> 0..MaxMoves]
    /\ registered \in [Devices -> [ApplePasses -> 0..MaxChanges + 1]]
    /\ phone \in [Devices -> Phone]
    /\ due \in [Devices -> [ApplePasses -> Versions]]
    /\ object \in [Customers -> Versions \cup {Absent}]

\* The phone has asked, fetched and shown what it was woken for.
Settled(d) ==
    /\ ~phone[d].alerted /\ phone[d].wants = {} /\ phone[d].fetching = None

\* A push that woke a phone is enough: once the phone has asked and fetched,
\* its card shows the movement or the promotion, whatever tokens,
\* registrations, retries and other passes did in between.  The one exception
\* is a bump overtaken by that of another pass (its date is then not later
\* than the phone's tag), and what such a bump dates back.
AppleInSync ==
    \A d \in Devices : Settled(d) =>
      \A c \in ApplePasses : phone[d].shown[c] # Absent => phone[d].shown[c] >= due[d][c]

\* A notification that Google accepted, and that no other of the customer
\* overlapped, leaves the object with the balance it has until the next
\* movement.
GoogleInSync ==
    \A j \in DOMAIN jobs :
      LET c == jobs[j].customer IN
      jobs[j].google = "ok" /\ jobs[j].alone /\ balance[c] = j => object[c] = j

\* Every notification ends, accepted or given up, even if APNs never answers.
JobsEnd == \A j \in 1..MaxMoves : (j \in DOMAIN jobs) ~> (j \in DOMAIN jobs /\ Over(j))
============================================================================
