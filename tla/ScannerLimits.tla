--------------------------- MODULE ScannerLimits ---------------------------
(***************************************************************************)
(* The limits of the scanner: the in-memory maps of one server process     *)
(* (scanner/logic.ts 54-160), the lookup by token that feeds them, and the *)
(* distributed limiter behind them (lib/rateLimit.ts), which lets a call   *)
(* pass when it cannot answer.                                             *)
(*                                                                         *)
(* Lookups of one operator run at the same time: the check, the verdict of *)
(* Redis and the answer of the database are separate steps.  A list of     *)
(* times is the set of its entries, numbered within their instant: the     *)
(* code filters a list and counts it, and never looks at its order.        *)
(***************************************************************************)
EXTENDS Integers, FiniteSets

CONSTANTS
    Operators,      \* session.authUserId
    Slots,          \* lookups that may run at the same time
    LookupWindow, LookupMax, FailureWindow, FailureMax, Block,
    StampWindow, StampMax, SweepInterval,
    MaxTime         \* bound: the clock

ASSUME LimitsAssumption ==
    /\ {LookupWindow, LookupMax, FailureWindow, FailureMax, Block,
        StampWindow, StampMax, SweepInterval} \subseteq Nat \ {0}
    /\ LookupWindow <= Block /\ FailureWindow <= Block
    /\ MaxTime \in Nat

\* Only so many lookups are under way at a time.
ASSUME SlotsAssumption == IsFiniteSet(Slots)

VARIABLES
    lookups,        \* lookupTimestamps
    failures,       \* failureTimestamps
    blocked,        \* blockedUntil, 0 without an entry
    stamps,         \* stampTimestamps
    lastSweep,      \* lastSweepAt
    running,        \* the lookup in each slot
    passed,         \* ghost: when each operator's lookups passed the check
    stamped,        \* ghost: when each operator's stamps did
    guessed,        \* ghost: when each operator learnt that a token is unknown
    promised,       \* ghost: when a refused operator was told to come back
    clock

maps == <<lookups, failures, blocked, stamps, lastSweep>>
ghosts == <<passed, stamped, guessed, promised>>
vars == <<maps, ghosts, running, clock>>

Entry == [at : 0..MaxTime, n : Nat \ {0}]
Lists == [Operators -> SUBSET Entry]
Nothing == [o \in Operators |-> {}]
Unpromised == -1
Idle == [operator |-> "none", at |-> "idle"]

----------------------------------------------------------------------------
(* The maps.                                                               *)

Prune(times, window) == {e \in times : clock - e.at < window}

\* How many of these times fall in the window that ends at t.
Within(times, window, t) ==
    Cardinality({e \in times : e.at <= t /\ t - e.at < window})

\* A list with the time of now once more.
Again(times) ==
    times \cup {[at |-> clock, n |-> Cardinality({e \in times : e.at = clock}) + 1]}

SweepDue == clock - lastSweep >= SweepInterval

Swept(map, window) == [o \in Operators |-> IF Prune(map[o], window) = {} THEN {} ELSE map[o]]

\* Slip: every map is swept with the window of the lookups.
SweepAlike ==
    IF ~SweepDue
    THEN [lookups |-> lookups, failures |-> failures, blocked |-> blocked,
          stamps |-> stamps, last |-> lastSweep]
    ELSE [lookups |-> Swept(lookups, LookupWindow),
          failures |-> Swept(failures, LookupWindow),
          blocked |-> [o \in Operators |-> IF clock >= blocked[o] THEN 0 ELSE blocked[o]],
          stamps |-> Swept(stamps, LookupWindow), last |-> clock]

\* Slip: the sweep forgets every block.
SweepBlocks ==
    IF ~SweepDue
    THEN [lookups |-> lookups, failures |-> failures, blocked |-> blocked,
          stamps |-> stamps, last |-> lastSweep]
    ELSE [lookups |-> Swept(lookups, LookupWindow),
          failures |-> Swept(failures, FailureWindow),
          blocked |-> [o \in Operators |-> 0],
          stamps |-> Swept(stamps, StampWindow), last |-> clock]

\* sweepStaleEntries: the maps as they are when a check reads them.
Sweep ==
    IF ~SweepDue
    THEN [lookups |-> lookups, failures |-> failures, blocked |-> blocked,
          stamps |-> stamps, last |-> lastSweep]
    ELSE [lookups |-> Swept(lookups, LookupWindow),
          failures |-> Swept(failures, FailureWindow),
          blocked |-> [o \in Operators |-> IF clock >= blocked[o] THEN 0 ELSE blocked[o]],
          stamps |-> Swept(stamps, StampWindow), last |-> clock]

\* A map with the time of now on an operator's list.
Noted(map, o, window) == [map EXCEPT ![o] = Again(Prune(@, window))]

\* Slip: a new block is announced as the window it was earned in.
WaitAWindow(o, swept) ==
    IF clock < swept.blocked[o] THEN swept.blocked[o] - clock ELSE LookupWindow

\* What a refusal tells the operator to wait: the block that is running, the
\* one that starts now, or a whole window of stamps.
Wait(o, swept) == IF clock < swept.blocked[o] THEN swept.blocked[o] - clock ELSE Block

LookupAllowed(o, swept) ==
    /\ clock >= swept.blocked[o]
    /\ Cardinality(Prune(swept.lookups[o], LookupWindow)) < LookupMax

StampAllowed(o, swept) == Cardinality(Prune(swept.stamps[o], StampWindow)) < StampMax

----------------------------------------------------------------------------
(* The lookup by token.                                                    *)

\* checkLookupRateLimit, and then Redis, twice; the call ends if either of
\* them refuses, but a limiter that fails does not.
BeginLookup(s, o) ==
    LET swept == Sweep
    IN  /\ running[s] = Idle
        /\ LookupAllowed(o, swept)
        /\ lookups' = Noted(swept.lookups, o, LookupWindow)
        /\ blocked' = swept.blocked
        /\ failures' = swept.failures /\ stamps' = swept.stamps /\ lastSweep' = swept.last
        /\ running' = [running EXCEPT ![s] = [operator |-> o, at |-> "remote"]]
        /\ passed' = [passed EXCEPT ![o] = Again(@)]
        /\ promised' = [promised EXCEPT ![o] = Unpromised]
        /\ UNCHANGED <<stamped, guessed, clock>>

\* Slip: an attempt under a block adds another one to it.
RefuseAndProlong(o) ==
    LET swept == Sweep
    IN  /\ ~LookupAllowed(o, swept)
        /\ lookups' = swept.lookups
        /\ blocked' = [swept.blocked EXCEPT ![o] = IF clock < @ THEN @ + Block ELSE clock + Block]
        /\ failures' = swept.failures /\ stamps' = swept.stamps /\ lastSweep' = swept.last
        /\ promised' = [promised EXCEPT ![o] = Unpromised]
        /\ UNCHANGED <<running, passed, stamped, guessed, clock>>

RefuseLookup(o) ==
    LET swept == Sweep
    IN  /\ ~LookupAllowed(o, swept)
        /\ lookups' = swept.lookups
        /\ blocked' = IF clock < swept.blocked[o] THEN swept.blocked
                      ELSE [swept.blocked EXCEPT ![o] = clock + Block]
        /\ failures' = swept.failures /\ stamps' = swept.stamps /\ lastSweep' = swept.last
        /\ promised' = [promised EXCEPT ![o] = clock + Wait(o, swept)]
        /\ UNCHANGED <<running, passed, stamped, guessed, clock>>

\* checkRateLimit for the operator and for the business: refused by either,
\* or passed, also because Redis is missing or failed.
Remote(s) ==
    /\ running[s].at = "remote"
    /\ \/ running' = [running EXCEPT ![s].at = "token"]
       \/ running' = [running EXCEPT ![s] = Idle]
    /\ UNCHANGED <<maps, ghosts, clock>>

\* Slip: one failure more before the block.
FailuresExceeded(times) == Cardinality(times) > FailureMax

FailuresReached(times) == Cardinality(times) >= FailureMax

\* The token has no valid form, or the database does not know it: the same
\* answer, and recordLookupFailure.
NotFound(s) ==
    LET o == running[s].operator
        recent == Again(Prune(failures[o], FailureWindow))
    IN  /\ running[s].at = "token"
        /\ failures' = [failures EXCEPT ![o] = recent]
        /\ blocked' = IF FailuresReached(recent) THEN [blocked EXCEPT ![o] = clock + Block]
                      ELSE blocked
        /\ running' = [running EXCEPT ![s] = Idle]
        /\ guessed' = [guessed EXCEPT ![o] = Again(@)]
        /\ promised' = [promised EXCEPT ![o] = Unpromised]
        /\ UNCHANGED <<lookups, stamps, lastSweep, passed, stamped, clock>>

\* Found, suspended, no program yet, or an error: nothing is recorded.
Found(s) ==
    /\ running[s].at = "token"
    /\ running' = [running EXCEPT ![s] = Idle]
    /\ UNCHANGED <<maps, ghosts, clock>>

----------------------------------------------------------------------------
\* checkStampRateLimit; a refusal changes no list.
CheckStamp(o) ==
    LET swept == Sweep
    IN  /\ StampAllowed(o, swept)
        /\ stamps' = Noted(swept.stamps, o, StampWindow)
        /\ stamped' = [stamped EXCEPT ![o] = Again(@)]
        /\ lookups' = swept.lookups /\ failures' = swept.failures
        /\ blocked' = swept.blocked /\ lastSweep' = swept.last
        /\ UNCHANGED <<running, passed, guessed, promised, clock>>

\* The process restarts: its maps are empty, what was running is lost.
Restart ==
    /\ lookups' = Nothing /\ failures' = Nothing /\ stamps' = Nothing
    /\ blocked' = [o \in Operators |-> 0]
    /\ lastSweep' = 0
    /\ passed' = Nothing /\ stamped' = Nothing /\ guessed' = Nothing
    /\ promised' = [o \in Operators |-> Unpromised]
    /\ running' = [s \in Slots |-> Idle]
    /\ UNCHANGED clock

Tick ==
    /\ clock < MaxTime
    /\ clock' = clock + 1
    /\ UNCHANGED <<maps, ghosts, running>>

Init ==
    /\ lookups = Nothing /\ failures = Nothing /\ stamps = Nothing
    /\ blocked = [o \in Operators |-> 0]
    /\ lastSweep = 0
    /\ passed = Nothing /\ stamped = Nothing /\ guessed = Nothing
    /\ promised = [o \in Operators |-> Unpromised]
    /\ running = [s \in Slots |-> Idle]
    /\ clock = 0

Next ==
    \/ \E o \in Operators : RefuseLookup(o) \/ CheckStamp(o) \/ \E s \in Slots : BeginLookup(s, o)
    \/ \E s \in Slots : Remote(s) \/ NotFound(s) \/ Found(s)
    \/ Restart
    \/ Tick

Spec == Init /\ [][Next]_vars

----------------------------------------------------------------------------
TypeOK ==
    /\ {lookups, failures, stamps, passed, stamped, guessed} \subseteq Lists
    /\ blocked \in [Operators -> 0..MaxTime + Block]
    /\ lastSweep \in 0..clock
    /\ running \in [Slots -> {Idle} \cup [operator : Operators, at : {"remote", "token"}]]
    /\ promised \in [Operators -> {Unpromised} \cup 0..MaxTime + Block]
    /\ clock \in 0..MaxTime

\* A process lets no operator past its check more often than the limit in
\* any window, whatever the sweep removed meanwhile and whether Redis
\* answers or not (logic.ts 82-126, 140-153; rateLimit.ts 85-90).
WindowsHold ==
    \A o \in Operators : \A t \in 0..clock :
        /\ Within(passed[o], LookupWindow, t) <= LookupMax
        /\ Within(stamped[o], StampWindow, t) <= StampMax

\* An operator who guesses tokens learns of at most FailureMax of them in a
\* window, and of those its concurrent lookups were already asking when the
\* last of these blocked it (logic.ts 128-138).
GuessesBounded ==
    \A o \in Operators : \A t \in 0..clock :
        Within(guessed[o], FailureWindow, t) <= FailureMax + Cardinality(Slots) - 1

\* An operator who was refused and waits as long as it was told, doing
\* nothing else, is let in (logic.ts 113-122).
WaitingPays ==
    \A o \in Operators :
        promised[o] # Unpromised /\ clock >= promised[o] => LookupAllowed(o, Sweep)

\* A block is honoured to its end: it is never shortened while it runs, not
\* even by the sweep, and no lookup starts under it (logic.ts 97-101, 112-121).
BlockRuns ==
    \A o \in Operators :
        clock < blocked[o] => passed'[o] = passed[o] /\ blocked'[o] >= blocked[o]

BlocksHold == [][BlockRuns \/ Restart]_vars
=============================================================================
