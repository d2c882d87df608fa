# Loyalty cards: a TLA+ verification project

The program is a multi-tenant platform for stamp cards: a business's operators
scan a customer's pass, register a stamp for each visit and redeem rewards with
the stamps; the customer's pass in Apple or Google Wallet follows. It is a
Next.js application (`src/apps/web`) over PostgreSQL (`src/packages/db`,
drizzle, READ COMMITTED transactions, row-level security per business), with a
pure loyalty engine (`src/packages/core`) and wallet adapters
(`src/packages/wallet`).

This directory holds TLA+ models of that code, the TLC runs that check them on
small instances, and TLAPS proofs for every instance. `PROJECT.json` lists
components, runs, hazards, theorems and, for each definition, the lines of the
source it stands for.

    tlc -workers 2 -config ScannerSafety.cfg MCScanner
    tlapm ScannerProofs.tla

## 1. Inventory

All state that outlives a request is in PostgreSQL. Server actions and route
handlers run concurrently, each in one or a few transactions opened by
`withTenantContext` (packages/db/src/tenantContext.ts); nothing else orders
them. There is no job queue: work after a commit is scheduled in the memory of
the process that answered (`scheduleAfterResponse`).

| component | state | operations | hard behaviour | what makes it correct |
|---|---|---|---|---|
| Loyalty engine (`packages/core/src/loyalty.ts`) | none | evaluateStamp, applyStamp, evaluateRedemption, applyRedemption, the numbers of a pass | boundaries: full card, exact cost, closed end of the cooldown | decisions and displayed numbers agree with each other |
| Scanner (`scanner/logic.ts`) | customer_balances, transactions, rewards, redemptions, audit_logs | registerStampForSession, redeemRewardForSession, lookups | concurrent operators, retries with one key, key under two customers, stale rule and program, revocation and suspension meanwhile, timeouts and lost commits | the balance is the ledger, one effect per key, gap between stamps, true answers |
| Limits (`scanner/logic.ts` 54-160, `lib/rateLimit.ts`) | four maps in memory, windows in Redis | check, note, block, sweep | check and note around an await, sweep, restart, Redis down | no more than the limit per window, a block runs to its end |
| Scanner client (`ScannerClient.tsx`, `CameraScanner.tsx`) | idempotency key, the customer in view, the camera | look up, stamp, redeem, reset, reload on a thrown action | lost and late answers, timers, two ways to find a customer | one intent, one effect; what is shown is so |
| Wallet notification (`lib/wallet/notify.ts`, `promoNotify.ts`) | wallet_passes.updated_at; retries in memory | bump, push to every device, PATCH of the Google object | retries overtaking each other, commit order against dates, process end | the card converges to the balance |
| PassKit web service (`api/wallet/apple/logic.ts`) | device_registrations | register, unregister, what changed, get pass | bump against query, token changed between pushes | a registered device does not miss an update |
| APNs and Google clients (`apple/apns.ts`, `google/signer.ts`) | one HTTP/2 session per push, the objects at Google | post with timeouts; insert, then patch | several events settle one promise | every attempt ends |
| Promotions (`promotions/logic.ts`) | promo_broadcasts | send | concurrent sends, midnight, plan changed meanwhile | at most one a day, four or eight a month |
| Rewards configuration (`rewards/logic.ts`) | loyalty_programs, reward_rules | saveProgram, saveRewardRule, toggleRewardRule | check-then-write without a lock | the audit log agrees with the rows; no rule above the card's size |
| Customers and enrollment (`customers/logic.ts`, `enroll.ts`, `enroll/[slug]/logic.ts`, `publicEnrollWallet.ts`) | customers, balances, wallet_passes | owner's form, public form, cards | two registrations of one phone, two makers of one card, an error swallowed inside a transaction | one customer per key; every link opens the customer's card |
| Directory (`customers/page.tsx`, `customers/logic.ts`) | the URL of a tab | search, turn pages, choose a size | a list that grows while it is read, rows and count of two snapshots | nobody is skipped, no redirect leads to another |
| Team (`team/logic.ts`, `employeeOffboarding.ts`) | employees, users, the login | createStaff, deactivate | database and login change separately | an account works or does not exist |
| Administration (`admin/businesses.ts`, `impersonation.ts`, `accounts.ts`, `actions.ts`) | businesses.status, grants, users, platform_admins | create, suspend, edit, delete, impersonate, invite, activate, deactivate | check-then-update, two impersonations at once, one address invited twice | deleted is terminal, one active grant |
| Sessions (`lib/session.ts`, migration 0029) | the claims of a token | hook, verification, refresh, invitation link | a token older than the rows | a token names the business of the live grant |
| Dashboard (`dashboard/logic.ts`, the customer's page, the panel) | none | metrics of a period, charts by week | windows that begin in mid-week, UTC days | charts, metrics and card tell one story |
| Pass contents (`loyaltySnapshot.ts`, `apple/passJson.ts`, `apple/pkpass.ts`, `google/loyaltyPayload.ts`) | none | snapshot, pass.json, archive, class, object | a field under a condition, two layouts of one card | the passes announce what the till honours |

How they interact: the client calls the scanner; the scanner calls the engine
and, after its commit, schedules the wallet notification, which bumps the pass
and pushes; the device then asks the PassKit service, which reads the balance
through the snapshot and the engine. Promotions schedule the same bump for all
cards of the business. Rewards configuration, team and administration change
rows the scanner reads without locking them. Enrollment makes the rows that the
notifications find. Tokens decide who may call at all.

Left aside: wording, colours, images, digests and signatures of the passes, the
marketing site, the user interface's layout, observability, scripts. See
section 7 for what is missing inside the modelled parts.

## 2. Plan

Done: `LoyaltyLedger`, `Scanner` with `ScannerProofs`; `ScannerClient` over the
ledger's promise and `ScannerLimits`, with `ScannerEdgeProofs`; `WalletSync`
with `WalletProofs`; `OwnerConsole` with `OwnerProofs`; `Enrollment` with
`EnrollmentProofs`; `Access` with `AccessProofs`; `Loyalty`, `LoyaltyCard`, and
`Dashboard` and `WalletPasses` over the card, with `CardProofs`; `Directory`
with `DirectoryProofs`.

How they compose. `Scanner` implements `LoyaltyLedger` (a refinement, checked
and proved). `ScannerClient` puts the browser over a server that behaves as
`OneEffectPerKey` and `HonestReplies` of `Scanner` promise. `WalletSync` begins
where `Scanner!Respond` and `OwnerConsole!CommitPromo` schedule a notification.
`Dashboard` and `WalletPasses` extend `LoyaltyCard`, so the engine is one
definition for the server, the owner and the customer.

Left, in the order of their worth: the roles of platform administrators; the
two timers of a push one by one.

## 3. Modules

### Loyalty and LoyaltyCard

`Loyalty` has one operator for each exported function of `loyalty.ts`. A list
of rules is a function from identifiers to `[active, cost]`; the list's order
is never observed. `null` is -1. The engine's assertions are the operators'
domains: that `currentStamps` never goes below zero, which would make the
engine throw, is part of `Scanner!TypeOK`.

`LoyaltyCard` runs one card: `Stamp` and `Redeem` as the scanner applies them,
`Snapshot` as the engine's part of `loadCustomerLoyaltySnapshot` computes it.
`MostRedemptions` is a reference definition, the longest sequence of
redemptions that `evaluateRedemption` accepts. `Dashboard` extends the card
with days, and `WalletPasses` extends that with what the wallets show, so that
one run holds the engine, the owner's page and the passes against each other.

### LoyaltyLedger

What the scanner promises: a stamp or a redemption is one step, uses a key at
most once per table, keeps the gap and is paid for. It has no locks, requests,
retries or failures.

### Scanner

One action for each statement of a transaction at which another transaction
can interfere. Correspondence:

| action | code (`scanner/logic.ts`) |
|---|---|
| `RateLimited` | 529-555: three limiters refuse a stamp |
| `Authorise` | 224-290 `requireOperationContext` |
| `ReadRule`, `ReadProgram` | 762-783, 562-568: unlocked reads |
| `LockBalance` | 570-590, 785-803: INSERT ON CONFLICT, SELECT FOR UPDATE |
| `Replay` | 592-615, 805-825: the key is in a committed row |
| `Reject`, `Accept` | 617-639, 827-839: the engine's verdict, under the lock |
| `InsertNew`, `StampConflict`, `RedeemConflict` | 641-666, 841-870 and 914-922: the unique index decides |
| `CommitStamp`, `CommitRedeem` | 668-693, 872-904: balance, audit entry, COMMIT |
| `Respond` | 695-705, 906-912: notification scheduled, answer sent |
| `Fail` | 706-728, 923-946: any error at any point |

PostgreSQL is modelled by what the code relies on: other transactions see only
committed rows; a row lock and a freshly inserted unique key are held to the
end of the transaction, and whoever needs them waits; a failed transaction
leaves nothing. Hence the tables hold committed rows, named by the request that
inserted them, and pending writes are a program counter with the values the
request has read (`seen`).

Abstractions, each with its reason:

- Reads that nobody can change meanwhile are one step. The four SELECTs of the
  authorisation are one: an employee is never reactivated, so an accepting run
  of the four has a moment (the first) at which all hold, and a refusing one
  has the moment of the refusal. A platform administrator who impersonates has
  a user that can be reactivated; that one is a matter of `Access`.
- The checks of the location a request names, and the early returns when a row
  is not found, only refuse more calls, with nothing written. They are left out,
  so the model accepts more than the code.
- Creating the balance row and locking it are one step. The INSERT waits for a
  transaction that creates the row exactly as the SELECT waits for one that
  holds it.
- `Fail` stands for `lock_timeout`, `statement_timeout` (client.ts 47-72), a
  lost connection, a killed process and a lost answer to COMMIT. The last is
  `Fail` at "respond": committed, answered with an error, never notified.
- One business with one program (two programs are a matter of the rewards
  configuration), one operator, one clock: instances share the database host's
  notion of time closely enough for a floor of 30 seconds, and within one
  transaction the clock only moves forward.
- A request is one call. A retry is another request with the same key, so every
  schedule of retries and duplicates is among the initial states, which choose
  kind, customer, key and rule of each request freely.
- The audit row is `spent`, the cost it records. Locations, employees and views
  are left out: they are stored or shown, and decide nothing later.
- The foreign keys' share locks on the business row only ever conflict with the
  promotions' lock and delay, never change, what either does.

### ScannerClient

`page` is the state of the React component, `calls` the server actions it has
called, `rows` what they committed. `Lookup`, `Decode`, `Stamp`, `Redeem`,
`Dismiss`, `StartCamera`, `StopCamera` are the operator and the reader;
`CameraReady` is the promise of `decodeFromConstraints`. A call is served
(`Serve`: an effect, a replay, a refusal, or a commit whose answer is an error),
then delivered (`Deliver`: `applyResult`) or cut (`Cut`: the action throws, and
the page reloads after 1.2 s, `Reload`). `AutoReset` is the 3.5 s timer of a
banner. Keys are numbers; a fresh one is a number no call has carried. Its
initial states and steps are `TabInit` and `TabNext`, of one browser tab.

One camera reader at a time is assumed. In the code a second `start` can begin
while the first is asking for permission, and two readers may run; what the second
decodes is one more lookup, which commits nothing and spends no key.

### ScannerLimits

The four maps of one process (`lookups`, `failures`, `blocked`, `stamps`), the
sweep that runs with the checks, and lookups that run at the same time:
`BeginLookup` is the synchronous check before the first `await`, `Remote` the
verdict of Redis (allowed, refused, or allowed because it cannot answer),
`NotFound` and `Found` the database's answer. `CheckStamp` is the stamp's check,
`RefuseLookup` a refused check, `Restart` a new process with empty maps. Four
ghosts record when lookups passed, when stamps did, when an operator learnt
that a token is unknown, and when a refused one was told to come back.

A list of times is the set of its entries, numbered within their instant: the
code filters lists and counts them, and never looks at their order. That a
block is at least as long as both windows it is earned in is an assumption on
the constants (logic.ts 54-58); without it waiting would not be enough.

### WalletSync

A movement (`Movement`) or a promotion (`Promotion`) commits and schedules a
job; job j's number is its version. For Apple, a job begins its transaction
(`BeginBump`, which fixes now()), updates the rows (`Bump`), commits
(`CommitBump`), then pushes to each registered device (`Sent`: APNs took it or
refused it; `TimeOut`; retries after 2 s and 8 s) until `PushesOver`. For
Google it reads the snapshot (`LoadSnapshot`), inserts the object (`Insert`) and
patches it (`Patch`) when it exists, with the same retries. `Lose` is a process
that ends. The phone registers, unregisters, installs, deletes, is given a new
push token, asks what changed since its tag (`Ask`), fetches and shows; `Save`
is the link of Google Wallet. `updatedAt` has the database's resolution while
the tag has that of a JavaScript Date (`TicksPerMs`).

Abstractions: passes are neither made nor removed (that is `Enrollment`). One
timer stands for the two of a push, and the run has two attempts where the code
has three: the third is the second once more. The effect of a call at Google
comes before its answer or its error. Only customers in `Movers` move or have a
card deleted. A failed fetch is asked again and is a stutter; a request refused
for its token or by a limit changes nothing. The rows of a promotion are locked
in one step: two promotions that lock them in different orders would deadlock,
and the one PostgreSQL ends is a `Lose`. Equal values of now() are not
modelled.

`AppleInSync` has one exception, which the module computes as it happens:
now() is taken at BEGIN, so a bump that began earlier and commits later can
date a pass before a tag that the phone already holds, or even lower
`updated_at`. The phone then asks, is told nothing changed, and shows the older
number until the next movement (`overtaken`, and the reset of `due` in
`CommitBump`).

### OwnerConsole

One business. `Begin` is BEGIN with the form's values. A program, rule or
toggle reads (`ReadProgram`, `ReadForRule`, `ReadForToggle`), writes and locks
its row (`Write`), and commits with its audit entry (`Commit`). Entries become
visible in the order of the commits, but the table has no other order than
`created_at`, which is now() at BEGIN (auditLogs.ts 35-37): each carries its
transaction's `order`, and the last entry is the one with the latest. A promotion
locks the business (`LockBusiness`, SELECT FOR UPDATE), counts the day and the
month and inserts (`InsertPromo`), commits (`CommitPromo`), and is announced to
the Google class with retries (`Announce`). `ChangePlan` is the
administration's and waits for the lock, `Midnight` ends a day, `Fail` is any
error.

Two programs of one business are possible (nothing prevents them) and every
reader takes the one that was created first; no property is broken by it but
the expectation that there is one, which the code never states.

### Enrollment

Four kinds of request. The owner's form checks the phone, then the address
(`CheckPhone`, `CheckEmail`), the public one looks the phone up in the database
function (`Lookup`); both insert against the unique indexes (`Insert`) and
commit (`Commit`; `CommitLost` when the answer to COMMIT is lost). A card is
selected, inserted, read back and linked (`SelectPass`, `InsertPass`,
`Snapshot`, `BuildLink`) for each platform in one transaction
(`publicEnrollWallet.ts`) or in one of its own (download, Google button).
`LoseGoogle` is the Google part's swallowed error: if it came from the database
the transaction is aborted and what follows is rolled back, though the code
goes on to answer with the Apple link. `ChangeProgram` and `ChangeStatus` are
the others.

Abstractions: the program is read with the INSERT; a number is what was typed,
so that two spellings of one number are two customers of the owner's form,
which stores it raw, while the public form normalises it. `OneCustomerPerKey`
is about numbers as they were kept.

### Directory

A browser tab over the owner's list of customers (customers/page.tsx) while
registrations make it longer. A page is two statements of one READ COMMITTED
transaction, `List` and the count in `Redirect` and `Render`; rows are in the
order of their transactions' beginnings, so one can commit into the middle.
`Visit`, `Search`, `Clear`, `Resize`, `Previous` and `Following` are the URL
and the controls, each guarded by what is displayed; a new navigation drops the
one under way. `trail` is history: who was there at the first page and is still
unseen. Every registration has its own instant: two of one microsecond would
have no order, and could change places between two pages.

### Access

`token` is what the administrator's access token says, refreshed at any moment
(`Refresh`, the hook of migration 0029). The `Ask...` actions consult the
token, as the gates do; what follows consults the rows. An impersonation locks
the administrator's row (`LockAdmin`), reads and ends grants (`ReadGrants`,
`EndGrant`), takes the old users row off (`LeaveSeat`) and finds or makes the
new one (`FindSeat`, `TakeSeat`), inserts the grant against the partial unique
index (`InsertGrant`) and commits. `Check`, `UpdateStatus`, `EditBusiness` are
the check and the update of a business. Hiring, inviting and creating make a
login and a row with a compensation when the second fails (`Precheck`,
`CreateLogin`, `Invite`, `InsertStaff`, `Undo`); `OpenLink` and `SetPassword`
are the invited person; `Dismiss` and `Ban` the end. `Crash` is a process that
ends between two of these.

Abstractions: those who act on an administrator, and invite, are other
administrators whose tokens and roles are not modelled; hires are of one
business; "unpaid" is a suspension; the login service (GoTrue) is external; the
audit row of these operations is a statement after them and decides nothing. A
request that looked at a business before it was deleted may still change it,
even undo the deletion: `DeletedIsLeft` begins when those are through.
Not promised by the code, hence by no property: an `end` that overlaps a new
`start` can leave the new grant with an inactive users row; a `start` on a
token older than a deactivation leaves an active seat.

### Dashboard

`Enroll`, `Visit`, `Collect` (a redemption) and `NextDay` are the days of one
customer; the metrics and the charts are operators over `visits` and
`redeemed`, recomputed in every state. A timestamp is its day, the lengths
(week, weeks back, period, inactivity) are constants. The rate of a week is
rounded as in the code (logic.ts 285), which turns a redemption among more than
two thousand visits into 0.0: the property says exactly when a rate shows, a
bound that the instance does not reach and the proof does.

### WalletPasses

No state of its own: `CustomerSnapshot`, `Pkpass` (pass.json and the archive's
files), `LoyaltyClass`, `LoyaltyObject` are operators over the card and the
days, each field under the condition it has in the code. A text is reduced to
the reward it names and the stamps it says are lacking.

## 4. Runs

| run | instance | states | shows |
|---|---|---|---|
| `scanner_safety` | 3 requests, 2 customers, 2 keys, 1 rule of cost 1 or 2, cooldown 0 with a floor of 1, opening balances 0..2, clock 0..1; symmetry | 1.6 million | type, conservation, keys, gap, rewards, answers; the balance moves only with the ledger |
| `scanner_admin` | 2 requests, 1 customer, 2 keys, cooldown 0 or 2, clock 0..2, one administrative change | 0.7 million | implements the ledger, revocation, every request answered |
| `client` | 1 page, 2 customers, 4 calls | 0.6 million | true banners, no visit swallowed as a replay, never stuck |
| `limits` | 1 operator, 2 lookups at a time, windows of 1 and 2, clock 0..4 | 1.0 million | the windows and blocks hold |
| `wallet` | 1 phone with 2 Apple cards, 1 Google object, 2 jobs of which one may be a promotion, 2 attempts, 1 change of token or deletion | 0.79 million | the cards end up right, every job ends |
| `owner` | 3 requests, 3 days, 2 days a month, limits of 1 and 2, programs of 1 or 2 stamps; symmetry | 1.7 million | limits, audit log |
| `owner_card` | the same on one day | violation | a rule beyond its card |
| `enrollment` | 3 requests, 1 number in 2 spellings, 2 addresses; symmetry | 1.3 million | keys, answers, links |
| `access` | 3 requests, 1 administrator acted on, 2 businesses, 1 address, a grant from before; symmetry | 2.2 million | one seat, working accounts, deletion |
| `card` | 2 rules of costs 1, 3, 4 active or not, sizes 1 and 3, a week of 2 days, 3 weeks, 3 moves after the first day, a business with everything on its passes and one with nothing; symmetry | 0.36 million | the engine's numbers, the dashboard, the passes |
| `directory` | 3 customers of 2 names, pages of 1 and 2, URLs to page 3; symmetry | 2.3 million | nobody skipped |
| `card_count` | costs 3 and 6, balance to 10 | violation | the count of real redemptions is too high |

Properties of the scanner:

- `BalanceConserved`: balance = opening + stamp rows - recorded costs, for each
  customer. It falls when the row is read without FOR UPDATE.
- `OneEffectPerKey`: per table, whatever the customers; falls without the unique
  index although the replay check is there.
- `StampGap`: falls when the floor is dropped.
- `RewardsPaired`: falls when the conflict on the key returns instead of
  throwing.
- `HonestReplies`: what each answer claims is so, and the wallet is notified for
  genuine changes only.
- `BalanceMovesWithLedger`: an action property, no balance changes without the
  row that explains the change.
- `RevokedNeverActs`: sent after the deactivation, no effect. A request already
  past the check when the deactivation commits does act; READ COMMITTED allows
  it and the code accepts it.
- `ImplementsLedger`: `Ledger!Spec` under the mapping at the end of `Scanner`.
- `Answered`: every request sent is answered.

Of the page and the limits:

- `SuccessIsReal`: an answer shown as a success has a row of that customer; the
  server compares keys only, so this rests on the page's keys.
- `ShownKeysAreSpent`: a key whose success was shown is not sent again, or the
  next visit would be answered as a replay and lost.
- `NeverStuck`: after a pending or a thrown action the operator can go on.
- `WindowsHold`, `GuessesBounded`, `WaitingPays`, `BlocksHold`: the limit in
  every window, whatever the sweep removed; guesses bounded by the limit and
  the lookups in flight; who waits as told is let in; no block is shortened.

Of the wallets:

- `AppleInSync`: once a phone that was woken has asked and fetched, its card
  shows what it was woken for, with the exception described in section 3.
- `GoogleInSync`: an update that Google accepted, and no other overlapped,
  leaves the object with the balance. Overlapping ones can overtake each other,
  since each retries with the snapshot it read first.
- `JobsEnd`: every notification ends, though APNs never answer.

Of the owner, the registrations and the accounts:

- `DailyLimitHolds`, `MonthlyLimitHolds`: they fall when the business row is not
  locked, and when only the day is counted. A transaction that
  waits past midnight is dated the day before and counts against neither.
- `AuditTellsState`: the last entry by date about a row is what the row holds,
  unless its transaction ran within another save of the row, which began earlier
  and committed later: then an entry of such a one is. Every row has its entry,
  and no entry is about what is not there. Without the exception TLC refutes it
  (section 5); it falls when the entry is written on a connection of its own.
- `OneCustomerPerKey`, `HonestAnswers`, `LinksOpen`: no two customers have one
  key; answers are true; every link carries the token of the row, except one
  from a transaction that the Google part aborted.
- `OneSeat`: one grant that is not ended, no active users row but its own, and
  every action taken on a token has an actor to be logged under.
- `StaffFits`: an account works or does not exist, whatever failed; an address
  is employed once.
- `DeletedIsLeft`: once the requests that looked at a business before its
  deletion are through, it stays deleted and nothing asked of it succeeds. It
  does not catch one that looked before and undoes the deletion (section 5).

Of the directory:

- `NobodySkipped`: turning the pages to the last shows everybody who was there
  at the first. It rests on a page being followed by its own count, on the last
  page being counted though it is not full, and on rows only being added.

Of the card:

- `NumbersHonest` (`CycleHonest`, `NextRewardExact`, `CountHonest`): the engine's
  numbers against each other and against what the server would accept.
- `DashboardAddsUp`: charts and metrics of one period agree, weeks are whole
  although rows are read from the middle of one, a week's visitor is new or
  returning, and the panels agree with the card.
- `PassesTellTheTruth`: Apple's pass names a reward exactly when the till has
  one to give, and both platforms show one number. Google announces nothing that
  the till refuses, and is silent about what it would give exactly when that is
  one redemption and the balance is not the one full card (section 5).
- `EveryMoveShows`: every stamp and every redemption changes the passes.
  The Google object can stay the same in one case: the only redemption left,
  made beside a card begun anew.
  This, and what is said of Google under the one before, holds where no rule
  asks for more stamps than the card has (`RulesFit`; see the finding of
  `owner_card`), and here with an active rule; that every redemption uses up an
  announced one, and what is said of Apple, holds whatever the rules cost.

Bounds. Three requests are the least at which two of them can race while a
third holds another customer's lock or the key they need; two customers and two
keys give both shared and distinct ones; costs 1 and 2 against openings 0..2
reach refusal, exact payment and carry-over. The clock needs one tick for the
floor and two for a cooldown above it. The administrative run trades a request
and a customer for the changes. Four calls of the page are two customers, each
looked up and stamped, or a key sent, lost and sent again. The limits' clock
covers more than two windows of each kind. Two jobs are the least at which a
bump, a push or a patch can overtake another; three of them, without retries,
were explored for safety as well. Three requests of an owner are two that race
for a row and one that changes what they read; three days hold two months. Two
requests race for a number, for an address or for the row of a card, and the
third is the customer it belongs to. With three requests an impersonation, its
end and a deactivation of the same administrator overlap. Three customers are one
in view, one behind it and one that commits between them. Nine days are enough
for rows to leave every chart and window.

Deadlock. The check is on for the scanner, where `Terminated` is a stutter of
finished runs, and for the directory, where a URL can always be opened. It is
off elsewhere (CHECK_DEADLOCK FALSE) because those systems
really stop within their bounds: requests are one-shot, calls and jobs are
used up, and the days and the clock have an end.

Fairness.

- `Scanner!FairSpec` has weak fairness on `Handle(r)` for each request: the
  server runs a request's next statement whenever it is not waiting for another
  transaction. Failures, limiters, administrative steps and the clock have
  none. PostgreSQL queues waiters, so weak fairness is enough for a lock too:
  with one-shot requests a lock is only finitely often taken by somebody else.
- `ScannerClient!FairTabSpec`: a call is answered or throws, and the reload's timer
  fires. Nothing is assumed of the operator.
- `WalletSync!FairSpec`: each job's next step is taken: the event loop and the
  database go on, timers fire, a call to Google is answered or fails. Nothing is
  assumed of APNs or of the phones; a push ends by its timer.

## 5. Findings

- `card_count`: `countAvailableRedemptions` adds `floor(stamps / cost)` over
  rules that share one balance; its comment calls the sum the REAL redemptions
  possible (loyalty.ts 71). With two active rules of cost 3 and three stamps it
  is 2, and the server accepts one. With one active rule it is exact.
- `owner_card`: a program saved with a smaller card, later or at the same time,
  leaves a rule that asks for more stamps than the card has; the comment
  (rewards/logic.ts 187-188) says none can.

Met while modelling, and the subject of no run:

- loyaltyPayload.ts 318-323, and the title of a test (loyaltyPayload.test.ts
  250), say that with exactly one redemption available the message of progress
  announces it already. The message counts to the full card: with 8 stamps, a
  card of 6 and a reward of 6, or with 4 stamps and a reward of 3, it says what
  is lacking, and nothing on the Google pass says that a reward can be had.
  `PassesTellTheTruth` states exactly when; that it never happens is false.
- businesses.ts 209-213 calls "deleted" terminal, but looks for it in one
  statement and updates in another: a change of status that looked before a
  deletion undoes it, and what is asked of the business then succeeds. In the
  model: `Check`, another request's `UpdateStatus`, `UpdateStatus`.
- Of two saves of one program or rule that overlap, the one that began first can
  commit last. The row then holds its value, while the entry of the audit log
  with the latest created_at (auditLogs.ts 35-37) is the other's, and nothing in
  the table tells. `AuditTellsState` allows this case and no other.
- accounts.ts 56-71 looks at the tables before it invites. Inviting an address
  while a business is being created for it, or creating one for an invited
  administrator, gives one login both an owner's row and an administrator's.
- Two administrators with the owner's role may deactivate each other at the
  same time.
- loyaltyPayload.ts 107-116 says that merchantLocations has no consumer;
  googleSaveLink.ts 64 passes it.
- The "faltan n" of a pass counts to the full card, and is exact only for a rule
  that costs the card; the next reward it names is the cheapest, unlocked or
  not.
- dashboard/page.tsx 99 decides from 30 days whether there is activity, while
  the charts cover eight weeks.
- Stopping the camera, or a customer found by the keyboard reader, while the
  permission is being asked leaves a reader that starts afterwards, unseen;
  the comment (CameraScanner.tsx 22-23) says none stays on. In the model:
  `StartCamera`, `StopCamera`, `CameraReady`.
- A registration that commits between the rows of a page and their count
  leaves "Sin resultados" on a page whose count is above 0; the comment
  (customers/page.tsx 69-70) says the redirect prevents it. The next visit
  shows the rows.
- The directory orders by created_at alone (customers/logic.ts 105): rows of one
  instant have no order from page to page.

## 6. Proofs

Every theorem holds for all values of the constants that meet the named
assumptions of its module: any number of requests, customers, keys, devices and
operators; any limits, windows and bounds. What the modules assume:

- costs, gaps, windows, limits, page sizes and card sizes are positive, bounds
  and cooldowns natural (`Scanner`, `ScannerLimits`, `ScannerClient`,
  `WalletSync`, `OwnerConsole`, `Directory`);
- a block is not shorter than the windows it is earned in, and finitely many
  lookups run at a time (`ScannerLimits`);
- the smaller plan has the smaller monthly limit (`OwnerConsole`);
- there are finitely many rules (`LoyaltyCard`); a week is no longer than a
  period, a period no longer than the charts' weeks but one, nor than the
  inactivity window, and the bounds leave room for the first day (`Dashboard`);
- finitely many customers are listed (`Directory`), there is a number to
  register with (`Enrollment`), passes are customers' (`WalletSync`);
- the value that stands for "none" names nobody, and on the passes is no reward,
  number, text or image either.

### The scanner

The properties are not inductive: that a balance does not go negative needs the
redemption's decision to be still true when it is written. `IInv` adds

- `LockInv`: at most one request is past the lock of a balance;
- `FreshInv`: what the holder read is what the balance still is;
- `DecidedInv`: what it decided is allowed of what it read;
- `CostInv`: a redemption past its rule knows a real cost;
- `RowsInv`, `KeysInv`: a row belongs to a finished request of its kind, and no
  two requests that have a row, or are about to, carry the same key;
- `LastInv`: a balance's last stamp is its latest row, which with `DecidedInv`
  gives the gap.

A request that writes nothing and stays outside the lock is `Quiet`; one lemma
covers the eleven actions of that kind, and the five that take the lock, decide,
claim the key or commit have a lemma each.

`HonestReplies` and `RewardsPaired` need `OpenInv`: a request that has not ended
has answered nothing, and one past its commit has its row. A step then advances
without a commit (`Advances`), ends with an answer that is true of it (`Ends`),
or commits; rows are only added, so what the others were told stays true.

`StampEffect` and `RedeemEffect` say what a commit does to the tables as they
are at that moment; everything else leaves them alone (`StepCases`). From these
follow the action property, the refinement of `LoyaltyLedger`, and
`BalanceConserved`. What the redemptions took is the set of the stamps taken,
one by one (`StampsTaken`), so that the sum is a cardinality and a redemption
adds a set as large as its cost, disjoint from those before it.

### The page and the limits

`ScannerEdgeProofs`, of the page: keys only grow and a new one is greater than any that was sent
(`KeysInv`); a key that went with a stamp or a redemption stays with its
customer (`KeyOwnerInv`, `ViewInv`); a stamp or a redemption is sent when every
call before it has been heard of (`SentAlone`), so a success that is shown is
followed by greater keys only (`ShownInv`).

Of the limits: whatever was pruned or swept, a list and what really happened
agree on the window that ends now (`Good`), so the count the code takes is the
true one, and a window that ends later holds less until something is added.
For the guesses, a block that was earned by failures outlasts them (`BlockOK`),
so that past the limit no lookup starts and those under way are all that come
(`RoomOK`). For the waiting, neither a block nor a recent lookup is in the way
when the time is over (`PromiseOK`). The first half is a set of lemmas about
lists at any instant; the second applies them to each action.

### The wallets

`WalletProofs`: `AppleInSync` is not inductive, because a card that is behind
may be so since a push is on its way, the phone was woken and has not asked, or
it has asked and not fetched. `DueInv` says that one of the last two holds, or
the card shows it; `PushInv` says of a push under way, and `OpenInv` of a bump
that has not committed, that what it is about is news to the phone or known to
it. `DatesInv` orders the dates: open bumps differ in theirs, and while one is
open that nobody has overtaken, no other pass has a later date, so that no tag
has passed it, however coarse tags are. `CountsInv`, `JobsInv` and `PhonesInv`
relate the numbers of jobs, movements and cards. `GoogleInSync` needs the
snapshot on its way to be no older than the job and no newer than the balance
(`SnapshotsInv`), and nobody else to write the object after it (`AloneInv`).

### The owner, the registrations and the directory

`OwnerProofs`: one promotion is between its lock and its commit (`OneHolder`),
what it counted stays true until then (`QuotaInv`), requests refer to rows that
exist (`RowsInv`), announcements belong to commits (`SentInv`). The daily limit
is kept by each commit, the monthly one is the step of `CommitPromo`. For the
audit log, `LogInv` says that the entry committed last about each row agrees
with what the row holds (`Agrees`): a commit writes one row and one entry about
it (`CommitSays`), a row is made by the request it is named after (`OriginInv`),
and every row has an entry. `DatesInv` says that entries are dated by their
transactions' beginnings, which are all different. So the entry with the latest
date is one (`LastExists`), and when it is not the one committed last, that one
began before it and committed after it: it encloses it.

`EnrollmentProofs`: `Stages` says what a request has at each point, `KeysInv`
that inserted and committed rows have different keys, `RowsInv` that one
transaction at most has inserted the row of a card, `TokensInv` that the token a
request holds is the row's or the one it has inserted. For the answers, nothing
is answered before the end, and a public form at its cards has registered its
customer with the balance it found a program for (`Own`); no step takes a
customer or a balance away (`Keeping`, `OthersKeep`).

`DirectoryProofs`: rows are only added to what a search finds (`Growth`), so
whoever is behind some pages stays behind them (`StaysBehind`), and a page
leaves nobody between itself and the rows after it (`PageShows`). `TrailInv` and
`ListedInv` say this of the trail and of a page that is read and not yet
counted. At the count, whoever is unseen lies behind the pages turned and is
counted, so the last page is further on. `RedirectInv` says that a page
redirected to does not go away.

### Access

`RequestsInv` says what a request asks for at each point and what it may have
uncommitted there; a grant is there when its request is through.

For the seats (`SeatInv`): a grant waits to be committed by one request of its
administrator, which has ended every other grant (`OneWaits`, which rests on the
partial unique index); the seats of the grants that a request has ended are left
before it goes on (`SeatsLeft`); what a grant or a token names has had a seat
(`SeatsMade`); then one grant is active and every active seat is that grant's
(`OneActive`).

For the staff (`StaffInv`): rows name logins that live (`RowsInv`), a login is of
the kind of request that made it (`LoginsInv`), who is hired can log in until he
is dismissed (`HiredInv`), and an address is employed once (`OnceInv`). That a
deleted business refuses everything is an action property that needs
`RequestsInv` only: it begins when nobody is past the look at it that was made
before the deletion (`Gone`), and then its status stays.

### The card, the dashboard and the passes

`CardInv` is the invariant: the balance is within its bounds and the rules are
what the owner may configure (`CardOK`); rows are dated between the account and
today (`Dated`); and the ledger is kept (`LedgerKept`): without a balance there
is no visit, and the stamps on the card, with one for each redemption, are at
most the visits, and exactly the visits while nothing was redeemed. Only this
last part needs a step to be looked at closely: a visit adds one on both sides,
and a redemption takes at least one stamp (a cost is positive) and adds one row.
Everything else follows from `CardInv` in a single state, and `EveryMoveShows`
from one step.

What makes it long is the data. The numbers are sums over sets of rules, days
and weeks, and `MostRedemptions` is a recursive function; the induction theorems
of the library cannot be applied to an operator, so induction is done over a set
(`SetInduction`: a set of subsets that has the empty set, and a set with one more
element whenever it has the set, has every finite set), by a least
counterexample in the well-founded order of strict subsets. From it:

- `IteratesExists` and `IteratesUnique`: the function that `SumFunctionOnSet`
  and `MapThenSumSet` choose exists, and does not depend on which element it
  takes first; hence `SumRemove`, `SumUnion`, `SumPart`, `SumPositive`,
  `SumSupport`, `SumLess`, `SumMore`, which every later proof cites;
- `MostExists` and `MostIs`: the recursive definition of `MostRedemptions` has a
  solution. `MostFacts` then compares it with the count: each redemption that
  the server accepts lowers the count (`CountFacts`), so the longest sequence is
  no longer than the count, and with one rule they go down together;
- `CycleIs`, `MissingIs`, `DivMod`, `DivIs`: what the remainder, the minimum and
  the quotient of the engine are.

For the dashboard, `WeekSpan` and `PointIs` place the points of a chart, and
`PointRead` says that all days of a point that have come are read, so that what
is grouped by week is the whole week (`ByWeekIs`), the oldest too. The weeks are
disjoint (`PointsDiffer`) and the period lies within them (`PeriodShown`), which
gives `ChartHoldsPeriod` by induction over the weeks.

For the passes, `AppleFront`, `AppleRest` and `GoogleIs` say what each builder
makes of any snapshot, `FirstFacts` that the first rule is redeemable whenever
any is, `FullCards` that a card which shows full is worth several
redemptions unless it is the first, and `RulesFitTruth` what the two passes say
together. For `EveryMoveShows`, two
balances at most a card apart with the same cycle are exactly a card apart
(`SameCycle`): then a stamp that does not show in the cycle is on a card of one
stamp, where it adds a redemption to every rule, and a redemption that does not
show there cost the whole card, and either shows in the number of redemptions or
was the last one, which takes the reward off Apple's pass and is Google's
exception.

Two things were found on the way. `DashboardAddsUp` said that a week with a
redemption has a rate above zero: false beyond two thousand visits, where the
code rounds it away, and now stated exactly. And it needs a week to be no longer
than a period, or visits of the current week are in no period and the charts are
not drawn; the constants of the code (7 and 30 days) are so.

| module | theorem | property |
|---|---|---|
| `ScannerProofs` | `TypeCorrect` | `TypeOK` |
| | `KeysAreUsedOnce` | `OneEffectPerKey` |
| | `StampsKeepTheGap` | `StampGap` |
| | `AnswersAreTrue` | `HonestReplies` |
| | `RewardsArePaired` | `RewardsPaired` |
| | `NoLostUpdate` | `BalanceMovesWithLedger` |
| | `BalanceIsTheLedger` | `BalanceConserved` |
| | `RevocationHolds` (with `LateInv`) | `RevokedNeverActs` |
| | `ScannerIsALedger` | `ImplementsLedger` |
| `ScannerEdgeProofs` | `TabTypeCorrect` | `TabTypeOK` |
| | `SuccessesAreReal` | `SuccessIsReal` |
| | `KeysAreSpent` | `ShownKeysAreSpent` |
| | `TypeCorrect` | `TypeOK` |
| | `NoWindowOverflows` | `WindowsHold` |
| | `FewGuesses` | `GuessesBounded` |
| | `WaitingIsEnough` | `WaitingPays` |
| | `BlocksAreKept` | `BlocksHold` |
| `WalletProofs` | `TypeCorrect` | `TypeOK` |
| | `AppleShows` | `AppleInSync` |
| | `GoogleShows` | `GoogleInSync` |
| `OwnerProofs` | `TypeCorrect` | `TypeOK` |
| | `DailyLimited` | `DailyLimitHolds` |
| | `MonthlyLimited` | `MonthlyLimitHolds` |
| | `LogIsTrue` | `AuditTellsState` |
| | `OnlySent` | `OnlySentIsSeen` (proved, in no run) |
| `EnrollmentProofs` | `TypeCorrect` | `TypeOK` |
| | `KeysUnique` | `OneCustomerPerKey` |
| | `LinksStayOpen` | `LinksOpen` |
| | `AnswersAreTrue` | `HonestAnswers` |
| `AccessProofs` | `TypeCorrect` | `TypeOK` |
| | `OneSeatEach` | `OneSeat` |
| | `StaffFitsAlways` | `StaffFits` |
| | `DeletedForGood` | `DeletedIsLeft` |
| `CardProofs` | `CardInvariance` | `CardInv` (inductive, in no run) |
| | `CardNumbersHonest` | `NumbersHonest` |
| | `DashboardAlwaysAddsUp` | `DashboardAddsUp` |
| | `PassesAlwaysTellTheTruth` | `PassesTellTheTruth` |
| | `EveryMoveIsShown` | `EveryMoveShows` |
| `DirectoryProofs` | `TypeCorrect` | `TypeOK` |
| | `NobodyIsSkipped` | `NobodySkipped` |
| | `RedirectedOnce` | `OneRedirect` (proved, in no run) |

Only model-checked: liveness under fairness (`Answered`, `NeverStuck`,
`JobsEnd`), which the prover does not do. Every invariant and every action
property of the passing runs, and the refinement, is also a theorem.

Operators marked "Slip" are plausible mistakes in a definition that follows
them. They are used by no specification; replacing the definition by its slip
must break the property it is named for.

## 7. Not modelled

- Colours, images and their cache, digests, signatures and wording of the
  passes: no control a property would be about.
- Verification of signatures and cookies, the counting in Redis, GoTrue, APNs
  and Google beyond what the code relies on: external.
- The roles of platform administrators, except that an action is taken by
  someone who may take it; the gates of pages, which only read.
- The marketing site, the interface's layout, sounds, observability and the
  scripts.
